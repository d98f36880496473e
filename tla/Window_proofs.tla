---------------------------- MODULE Window_proofs ---------------------------
(***************************************************************************)
(* The list of the window is exact and only goes forward, for any number   *)
(* of torrents of any number of pieces.                                    *)
(***************************************************************************)
EXTENDS Window, FiniteSetTheorems, SequenceTheorems, TLAPS

Statuses == {"None", "Error", "Downloading", "Stopped", "Completed"}

Entries == [tid : TID, state : Statuses, processed : Nat]

TypeOK ==
  /\ status \in [TID -> Statuses]
  /\ finished \in [TID -> SUBSET Int]
  /\ completing \in SUBSET TID
  /\ stopping \in SUBSET TID
  /\ next_uid \in Nat
  /\ at \in {"frame", "update", "update_count", "base", "file_dialog", "insert", "insert_state",
             "insert_count", "confirm_dialog", "remove", "stop", "erase", "closed"}
  /\ torrents \in Seq(Entries)
  /\ place \in Nat \ {0}
  /\ loaded \in Statuses \union {NoTorrent}
  /\ deleting \in BOOLEAN
  /\ confirmed \in SUBSET TID

\* The torrents that were started.
Started == {t \in TID : status[t] \notin {"None", "Error"}}

Full(t) == finished[t] = 1 .. PiecesCount[t]

\* Only a torrent that was started is completed, stopped or removed; a
\* completed one has all of its pieces; uids are given in order.
TorrentsSound ==
  /\ \A t \in TID : finished[t] \subseteq 1 .. PiecesCount[t]
  /\ completing \union stopping \union confirmed \subseteq Started
  /\ \A t \in TID : t \in completing \/ status[t] = "Completed" => Full(t)
  /\ \A t \in Started : t < next_uid
  /\ at = "insert" => next_uid \in TID
  /\ stopping \subseteq IF at = "stop" THEN {chosen} ELSE {}

\* What the list holds at each step of the frame: a torrent is missing only
\* while insert runs, and one too many is listed only while remove runs.
ListSound ==
  /\ at \in {"frame", "update", "update_count", "base", "file_dialog", "insert", "confirm_dialog"} =>
       Listed = Started \ confirmed
  /\ at \in {"insert_state", "insert_count"} =>
       /\ next_uid - 1 \in Started \ confirmed
       /\ Listed = (Started \ confirmed) \ {next_uid - 1}
  /\ at \in {"remove", "stop", "erase"} =>
       /\ chosen \in confirmed
       /\ ~deleting
       /\ Listed = (Started \ confirmed) \union {chosen}
  /\ deleting => chosen \in Listed
  /\ at = "update_count" => place <= Len(torrents)

Ascending == \A j, k \in DOMAIN torrents : j < k => torrents[j].tid < torrents[k].tid

\* An entry shows no more than is the case.
EntrySound(g) ==
  /\ g.processed <= Cardinality(finished[g.tid])
  /\ g.state = "Completed" =>
       /\ g.processed = PiecesCount[g.tid]
       /\ status[g.tid] = "Completed" \/ (at = "erase" /\ g.tid = chosen)

\* What was loaded is not older than what is shown, and still the case.
LoadedSound ==
  /\ at = "update_count" =>
       /\ loaded \in Statuses
       /\ torrents[place].state = "Completed" => loaded = "Completed"
       /\ loaded = "Completed" => status[torrents[place].tid] = "Completed"
  /\ at = "insert_count" =>
       /\ loaded \in Statuses
       /\ loaded = "Completed" => status[next_uid - 1] = "Completed"

WindowInv ==
  /\ TypeOK
  /\ TorrentsSound
  /\ ListSound
  /\ Ascending
  /\ \A k \in DOMAIN torrents : EntrySound(torrents[k])
  /\ LoadedSound

-----------------------------------------------------------------------------
(* Erasing entries *)

\* q has the elements of s at the places J, all of them and in their order.
IsKept(q, s, J) ==
  \E f \in [1 .. Cardinality(J) -> J] :
    /\ q = [k \in 1 .. Cardinality(J) |-> s[f[k]]]
    /\ \A k, l \in 1 .. Cardinality(J) : k < l => f[k] < f[l]
    /\ \A j \in J : \E k \in 1 .. Cardinality(J) : f[k] = j

\* std::remove_if keeps what it is meant to keep.
LEMMA KeptFacts ==
  ASSUME NEW s, NEW n \in Nat, NEW J \in SUBSET (1 .. n)
  PROVE  Cardinality(J) \in Nat /\ IsKept(Kept(s, J), s, J)
<1> DEFINE Before(j) == {i \in J : i <= j}
           rank == [j \in J |-> Cardinality(Before(j))]
           m == Cardinality(J)
           f == [k \in 1 .. m |-> CHOOSE j \in J : Cardinality(Before(j)) = k]
<1>1. IsFiniteSet(J) /\ m \in Nat
  <2>1. IsFiniteSet(1 .. n)
    BY FS_Interval
  <2>2. QED
    BY <2>1, FS_Subset, FS_CardinalityType, Zenon
<1>2. ASSUME NEW j \in J
      PROVE  IsFiniteSet(Before(j)) /\ Cardinality(Before(j)) \in 1 .. m
  <2>1. Before(j) \in SUBSET J /\ j \in Before(j)
    OBVIOUS
  <2> HIDE DEF Before
  <2>2. IsFiniteSet(Before(j)) /\ Cardinality(Before(j)) <= m
    BY <1>1, <2>1, FS_Subset, Zenon
  <2>3. Cardinality(Before(j)) \in Nat /\ Cardinality(Before(j)) # 0
    BY <2>1, <2>2, FS_CardinalityType, FS_EmptySet, Zenon
  <2>4. QED
    BY <1>1, <2>2, <2>3
<1>3. ASSUME NEW j \in J, NEW l \in J, j < l
      PROVE  Cardinality(Before(j)) < Cardinality(Before(l))
  <2>1. l \notin Before(j) /\ Before(j) \union {l} \in SUBSET Before(l)
    <3>1. \A i \in J : i <= j => i <= l
      BY <1>3
    <3>2. l \notin Before(j) /\ l \in Before(l)
      BY <1>3
    <3>3. QED
      BY <3>1, <3>2, Zenon
  <2>2. IsFiniteSet(Before(j)) /\ IsFiniteSet(Before(l))
    BY <1>2, Zenon
  <2> HIDE DEF Before
  <2>3. Cardinality(Before(j) \union {l}) = Cardinality(Before(j)) + 1
    BY <2>1, <2>2, FS_AddElement, Zenon
  <2>4. Cardinality(Before(j) \union {l}) <= Cardinality(Before(l))
    BY <2>1, <2>2, FS_Subset, Zenon
  <2>5. Cardinality(Before(j)) \in Nat /\ Cardinality(Before(l)) \in Nat
    BY <2>2, FS_CardinalityType, Zenon
  <2>6. QED
    BY <2>3, <2>4, <2>5
<1>4. rank \in Surjection(J, 1 .. m)
  <2>1. ASSUME NEW j \in J, NEW l \in J, rank[j] = rank[l]
        PROVE  j = l
    <3>1. j \in Int /\ l \in Int
      OBVIOUS
    <3>2. ~(j < l) /\ ~(l < j)
      BY <1>2, <1>3, <2>1
    <3>3. QED
      BY <3>1, <3>2
  <2>2. rank \in [J -> 1 .. m]
    BY <1>2, Zenon
  <2>3. rank \in Injection(J, 1 .. m)
    BY <2>1, <2>2, Zenon DEF Injection, IsInjective
  <2>4. IsFiniteSet(1 .. m) /\ Cardinality(1 .. m) = m
    BY <1>1, FS_Interval
  <2> HIDE DEF rank
  <2>5. QED
    BY <2>3, <2>4, FS_Injection, Zenon
<1>5. ASSUME NEW k \in 1 .. m
      PROVE  f[k] \in J /\ Cardinality(Before(f[k])) = k
  <2>1. \E j \in J : Cardinality(Before(j)) = k
    BY <1>4, Zenon DEF Surjection
  <2> HIDE DEF Before
  <2>2. QED
    BY <2>1, Zenon
<1>6. f \in [1 .. m -> J]
  BY <1>5, Zenon
<1>7. Kept(s, J) = [k \in 1 .. m |-> s[f[k]]]
  BY DEF Kept
<1>8. ASSUME NEW k \in 1 .. m, NEW l \in 1 .. m, k < l
      PROVE  f[k] < f[l]
  <2>1. f[k] \in J /\ f[l] \in J /\ Cardinality(Before(f[k])) = k /\ Cardinality(Before(f[l])) = l
    BY <1>5, Zenon
  <2> HIDE DEF f, Before
  <2>2. ASSUME f[l] < f[k]
        PROVE  FALSE
    <3>1. Cardinality(Before(f[l])) < Cardinality(Before(f[k]))
      BY <1>3, <2>1, <2>2, Zenon
    <3>2. l < k
      BY <2>1, <3>1, Zenon
    <3>3. QED
      BY <1>8, <3>2
  <2>3. f[l] # f[k]
    BY <1>8, <2>1
  <2>4. J \subseteq Int
    OBVIOUS
  <2>5. f[k] \in Int /\ f[l] \in Int
    BY <2>1, <2>4, Zenon
  <2>6. QED
    BY <2>2, <2>3, <2>5
<1>9. ASSUME NEW j \in J
      PROVE  \E k \in 1 .. m : f[k] = j
  <2> DEFINE k == Cardinality(Before(j))
  <2>1. k \in 1 .. m
    BY <1>2, Zenon
  <2>2. f[k] \in J /\ Cardinality(Before(f[k])) = k
    BY <1>5, <2>1, Zenon
  <2> HIDE DEF f
  <2>3. k \in Int /\ j \in Int /\ f[k] \in Int
    <3>1. J \subseteq Int /\ 1 .. m \subseteq Int
      OBVIOUS
    <3>2. QED
      BY <2>1, <2>2, <3>1, Zenon
  <2>4. ~(f[k] < j) /\ ~(j < f[k])
    BY <1>3, <2>2, <2>3
  <2>5. QED
    BY <2>1, <2>3, <2>4
<1> HIDE DEF f
<1>10. QED
  BY <1>1, <1>6, <1>7, <1>8, <1>9, Zenon DEF IsKept

-----------------------------------------------------------------------------
(* The invariant holds at first, and what steps have in common *)

\* The window before its first frame.
LEMMA WindowInit ==
  ASSUME Init
  PROVE  WindowInv
<1> USE DEF Init, F!Init
<1>1. TypeOK
  <2>1. torrents \in Seq(Entries)
    BY EmptySeq, Zenon
  <2>2. status \in [TID -> Statuses] /\ finished \in [TID -> SUBSET Int]
    BY Zenon DEF Statuses
  <2>3. /\ completing \in SUBSET TID /\ stopping \in SUBSET TID /\ confirmed \in SUBSET TID
        /\ next_uid \in Nat /\ place \in Nat \ {0} /\ at = "frame"
        /\ loaded \in Statuses \union {NoTorrent}
    OBVIOUS
  <2>4. deleting \in BOOLEAN
    BY Zenon
  <2> HIDE DEF Init, F!Init
  <2>5. QED
    BY <2>1, <2>2, <2>3, <2>4, Zenon DEF TypeOK
<1>2. Started = {} /\ Listed = {} /\ DOMAIN torrents = {}
  BY DEF Started, Listed
<1>3. TorrentsSound /\ ListSound /\ Ascending /\ LoadedSound
  BY <1>2, Zenon DEF TorrentsSound, ListSound, Ascending, LoadedSound, Full
<1>4. QED
  BY <1>1, <1>2, <1>3, Zenon DEF WindowInv

\* Steps that change neither the torrents of Furrent nor the list.
LEMMA ListUnchanged ==
  ASSUME WindowInv, UNCHANGED <<status, finished, torrents>>,
         at = "erase" => at' = "erase" /\ chosen' = chosen
  PROVE  /\ Started' = Started /\ Listed' = Listed
         /\ Ascending'
         /\ \A k \in DOMAIN torrents' : EntrySound(torrents[k])'
<1>1. Started' = Started /\ Listed' = Listed /\ Ascending'
  BY Zenon DEF WindowInv, Started, Listed, Ascending
<1>2. \A k \in DOMAIN torrents' : EntrySound(torrents[k])'
  BY Zenon DEF WindowInv, EntrySound
<1>3. QED
  BY <1>1, <1>2, Zenon

\* Steps that do not change Furrent at all.
LEMMA TorrentsUnchanged ==
  ASSUME WindowInv, UNCHANGED <<furrentVars, next_uid>>,
         confirmed' \subseteq Started,
         at' = "insert" => next_uid \in TID,
         at = "stop" => at' = "stop" /\ chosen' = chosen
  PROVE  TorrentsSound'
<1>1. UNCHANGED <<status, finished, completing, stopping, next_uid>>
  BY Zenon DEF furrentVars
<1>2. Started' = Started /\ (\A t : Full(t)' <=> Full(t))
  BY <1>1, Zenon DEF Started, Full
<1>3. QED
  BY <1>1, <1>2, Zenon DEF WindowInv, TorrentsSound

-----------------------------------------------------------------------------
(* Steps of the window that leave the list as it is *)

\* A frame begins, the list was refreshed, the buttons and the file dialog.
LEMMA DrawSteps ==
  ASSUME WindowInv, Close \/ Frame \/ Updated \/ Base \/ FileDialog
  PROVE  WindowInv'
<1> USE DEF WindowInv
<1>1. /\ UNCHANGED <<furrentVars, next_uid, torrents, confirmed, loaded>>
      /\ at \in {"frame", "update", "base", "file_dialog"}
      /\ at' \in {"closed", "update", "base", "file_dialog", "confirm_dialog", "insert"}
      /\ at' = "insert" => next_uid \in TID
      /\ place' \in Nat \ {0}
  BY DEF Close, Frame, Updated, Base, FileDialog, listVars, dialogVars, TypeOK
<1>2. /\ deleting' \in BOOLEAN
      /\ deleting' => chosen' \in Listed
  <2>1. CASE Base
    <3>1. CASE UNCHANGED <<deleting, chosen>>
      BY <3>1, Zenon DEF TypeOK, ListSound
    <3>2. CASE \E k \in DOMAIN torrents : DeleteButton(k)
      BY <3>2, Zenon DEF DeleteButton, Listed
    <3>3. QED
      BY <2>1, <3>1, <3>2, Zenon DEF Base
  <2>2. CASE UNCHANGED <<deleting, chosen>>
    BY <2>2, Zenon DEF TypeOK, ListSound
  <2>3. QED
    BY <2>1, <2>2, Zenon DEF Close, Frame, Updated, FileDialog, dialogVars
<1>3. TypeOK'
  BY <1>1, <1>2, Zenon DEF TypeOK, furrentVars
<1>4. /\ Started' = Started /\ Listed' = Listed /\ Ascending'
      /\ \A k \in DOMAIN torrents' : EntrySound(torrents[k])'
  BY <1>1, ListUnchanged, Zenon DEF furrentVars
<1>5. TorrentsSound'
  BY <1>1, TorrentsUnchanged, Zenon DEF TorrentsSound
<1>6. ListSound' /\ LoadedSound'
  BY <1>1, <1>2, <1>4, Zenon DEF ListSound, LoadedSound
<1>7. QED
  BY <1>3, <1>4, <1>5, <1>6, Zenon

\* get_gui_data finds the torrent, for a listed one and for a new one.
LEMMA LoadSteps ==
  ASSUME WindowInv, UpdateState \/ InsertState
  PROVE  WindowInv'
<1> USE DEF WindowInv
<1>1. /\ UNCHANGED <<furrentVars, next_uid, torrents, confirmed, place, deleting, chosen>>
      /\ at \in {"update", "insert_state"}
  BY Zenon DEF UpdateState, InsertState, dialogVars
<1>2. /\ Started' = Started /\ Listed' = Listed /\ Ascending'
      /\ \A k \in DOMAIN torrents' : EntrySound(torrents[k])'
  BY <1>1, ListUnchanged, Zenon DEF furrentVars
<1>3. CASE UpdateState
  <2>1. place \in DOMAIN torrents /\ place <= Len(torrents)
    BY <1>3, LenProperties DEF UpdateState, TypeOK
  <2> DEFINE t == torrents[place].tid
  <2>2. t \in Started
    BY <1>3, <2>1, Zenon DEF UpdateState, ListSound, Listed
  <2>3. t \in TID /\ status[t] \in Statuses /\ status[t] # "None"
    BY <2>2, Zenon DEF Started, TypeOK
  <2>4. loaded' = status[t] /\ at' = "update_count"
    BY <1>3, <2>3, Zenon DEF UpdateState, LoadsState
  <2>5. TypeOK'
    BY <1>1, <2>3, <2>4, Zenon DEF TypeOK, furrentVars
  <2>6. TorrentsSound'
    BY <1>1, <2>4, TorrentsUnchanged, Zenon DEF TorrentsSound
  <2>7. ListSound'
    BY <1>1, <1>2, <1>3, <2>1, <2>4, Zenon DEF ListSound, UpdateState
  <2>8. LoadedSound'
    <3>1. EntrySound(torrents[place])
      BY <2>1, Zenon
    <3>2. torrents[place].state = "Completed" => status[t] = "Completed"
      BY <1>1, <3>1, Zenon DEF EntrySound
    <3>3. QED
      BY <1>1, <2>3, <2>4, <3>2, Zenon DEF LoadedSound, furrentVars
  <2>9. QED
    BY <1>2, <2>5, <2>6, <2>7, <2>8, Zenon
<1>4. CASE InsertState
  <2> DEFINE t == next_uid - 1
  <2>1. t \in Started
    BY <1>4, Zenon DEF InsertState, ListSound
  <2>2. t \in TID /\ status[t] \in Statuses /\ status[t] # "None"
    BY <2>1, Zenon DEF Started, TypeOK
  <2>3. loaded' = status[t] /\ at' = "insert_count"
    BY <1>4, <2>2, Zenon DEF InsertState, LoadsState
  <2>4. TypeOK'
    BY <1>1, <2>2, <2>3, Zenon DEF TypeOK, furrentVars
  <2>5. TorrentsSound'
    BY <1>1, <2>3, TorrentsUnchanged, Zenon DEF TorrentsSound
  <2>6. ListSound'
    BY <1>1, <1>2, <1>4, <2>3, Zenon DEF ListSound, InsertState
  <2>7. LoadedSound'
    BY <1>1, <2>2, <2>3, Zenon DEF LoadedSound, furrentVars
  <2>8. QED
    BY <1>2, <2>4, <2>5, <2>6, <2>7, Zenon
<1>5. QED
  BY <1>3, <1>4, Zenon

\* The dialog that confirms a removal.
LEMMA ConfirmStep ==
  ASSUME WindowInv, ConfirmDialog
  PROVE  WindowInv'
<1> USE DEF WindowInv
<1>1. /\ UNCHANGED <<furrentVars, next_uid, torrents, loaded, place, chosen>>
      /\ at = "confirm_dialog"
      /\ \/ at' = "frame" /\ confirmed' = confirmed /\ deleting' \in {deleting, FALSE}
         \/ at' = "remove" /\ deleting /\ deleting' = FALSE /\ confirmed' = confirmed \union {chosen}
  BY Zenon DEF ConfirmDialog, listVars
<1>2. /\ Started' = Started /\ Listed' = Listed /\ Ascending'
      /\ \A k \in DOMAIN torrents' : EntrySound(torrents[k])'
  BY <1>1, ListUnchanged, Zenon DEF furrentVars
<1>3. Listed = Started \ confirmed
  BY <1>1, Zenon DEF ListSound
<1>4. deleting => chosen \in Started \ confirmed
  BY <1>3, Zenon DEF ListSound
<1>5. confirmed' \subseteq Started /\ Started \subseteq TID
  BY <1>1, <1>4, Zenon DEF TorrentsSound, Started
<1>6. deleting' \in BOOLEAN
  BY <1>1, Zenon DEF TypeOK
<1>7. TypeOK'
  BY <1>1, <1>5, <1>6, Zenon DEF TypeOK, furrentVars
<1>8. TorrentsSound'
  BY <1>1, <1>5, TorrentsUnchanged, Zenon
<1>9. ListSound' /\ LoadedSound'
  <2>1. CASE at' = "frame"
    <3>1. deleting' => deleting /\ confirmed' = confirmed
      BY <1>1, <2>1, Zenon
    <3>2. confirmed' = confirmed
      BY <1>1, <2>1, Zenon
    <3>3. QED
      BY <1>1, <1>2, <1>3, <1>4, <2>1, <3>1, <3>2, Zenon DEF ListSound, LoadedSound
  <2>2. CASE at' = "remove"
    <3>1. ~deleting' /\ chosen' \in Started \ confirmed /\ confirmed' = confirmed \union {chosen'}
      BY <1>1, <1>4, <2>2, Zenon
    <3>2. Listed = (Started \ confirmed') \union {chosen'}
      BY <1>3, <3>1, Zenon
    <3>3. QED
      BY <1>2, <2>2, <3>1, <3>2, Zenon DEF ListSound, LoadedSound
  <2>3. QED
    BY <1>1, <2>1, <2>2, Zenon
<1>10. QED
  BY <1>2, <1>7, <1>8, <1>9, Zenon

\* Time passes, or nothing happens.
LEMMA IdleSteps ==
  ASSUME WindowInv,
         UNCHANGED <<furrentVars, next_uid, at, torrents, place, loaded, deleting, chosen, confirmed>>
  PROVE  WindowInv'
<1> USE DEF WindowInv
<1>1. /\ Started' = Started /\ Listed' = Listed /\ Ascending'
      /\ \A k \in DOMAIN torrents' : EntrySound(torrents[k])'
  BY ListUnchanged, Zenon DEF furrentVars
<1>2. TorrentsSound'
  BY TorrentsUnchanged, Zenon DEF TorrentsSound
<1>3. TypeOK'
  BY Zenon DEF TypeOK, furrentVars
<1>4. ListSound'
  BY <1>1, Zenon DEF ListSound
<1>5. LoadedSound'
  BY Zenon DEF LoadedSound, furrentVars
<1>6. QED
  BY <1>1, <1>2, <1>3, <1>4, <1>5, Zenon

-----------------------------------------------------------------------------
(* Steps of the window that change the list *)

\* The finished pieces of a torrent can be counted.
LEMMA FinishedFacts ==
  ASSUME WindowInv, NEW t \in TID
  PROVE  /\ IsFiniteSet(finished[t]) /\ Cardinality(finished[t]) \in Nat
         /\ Full(t) => Cardinality(finished[t]) = PiecesCount[t]
<1>1. PiecesCount[t] \in Nat \ {0}
  BY WindowAssumption, Zenon
<1>2. IsFiniteSet(1 .. PiecesCount[t]) /\ Cardinality(1 .. PiecesCount[t]) = PiecesCount[t]
  <2> DEFINE n == PiecesCount[t]
  <2>1. n \in Nat \ {0} /\ 1 \in Int /\ n \in Int /\ ~(1 > n) /\ n - 1 + 1 = n
    BY <1>1
  <2> HIDE DEF n
  <2>2. IsFiniteSet(1 .. n) /\ Cardinality(1 .. n) = n
    BY <2>1, FS_Interval, Zenon
  <2>3. QED
    BY <2>2, Zenon DEF n
<1>3. finished[t] \in SUBSET (1 .. PiecesCount[t])
  BY Zenon DEF WindowInv, TorrentsSound
<1>4. QED
  BY <1>2, <1>3, FS_Subset, FS_CardinalityType, Zenon DEF Full

\* What get_gui_data gives is true, if the state that was loaded still holds.
LEMMA GuiDataSound ==
  ASSUME WindowInv, NEW t \in TID, loaded \in Statuses,
         loaded = "Completed" => status[t] = "Completed"
  PROVE  /\ GuiData(t) \in Entries /\ GuiData(t).tid = t /\ GuiData(t).state = loaded
         /\ GuiData(t).processed = Cardinality(finished[t])
         /\ EntrySound(GuiData(t))
<1> DEFINE n == Cardinality(finished[t])
<1>1. n \in Nat /\ (Full(t) => n = PiecesCount[t])
  BY FinishedFacts, Zenon
<1>2. GuiData(t) = [tid |-> t, state |-> loaded, processed |-> n]
  BY Zenon DEF GuiData
<1>3. loaded = "Completed" => n = PiecesCount[t]
  BY <1>1, Zenon DEF WindowInv, TorrentsSound
<1> HIDE DEF n
<1>4. GuiData(t).tid = t /\ GuiData(t).state = loaded /\ GuiData(t).processed = n
  BY <1>2
<1>5. GuiData(t) \in Entries
  BY <1>1, <1>2 DEF Entries
<1>6. EntrySound(GuiData(t))
  BY <1>1, <1>3, <1>4 DEF EntrySound, n
<1>7. QED
  BY <1>4, <1>5, <1>6, Zenon DEF n

\* The entry of a listed torrent is refreshed.
LEMMA UpdateCountStep ==
  ASSUME WindowInv, UpdateCount
  PROVE  WindowInv'
<1> USE DEF WindowInv
<1> DEFINE g == GuiData(torrents[place].tid)
<1>1. /\ UNCHANGED <<furrentVars, next_uid, deleting, chosen, confirmed>>
      /\ at = "update_count" /\ at' = "update" /\ loaded' = NoTorrent
      /\ place' = place + 1
      /\ torrents' = [torrents EXCEPT ![place] = g]
  BY Zenon DEF UpdateCount, dialogVars
<1>2. place \in DOMAIN torrents /\ DOMAIN torrents = 1 .. Len(torrents)
  BY <1>1, LenProperties DEF TypeOK, ListSound
<1>3. torrents[place].tid \in TID
  <2>1. torrents[place] \in Entries
    BY <1>2, ElementOfSeq, Zenon DEF TypeOK
  <2>2. QED
    BY <2>1, Zenon DEF Entries
<1>4. g \in Entries /\ g.tid = torrents[place].tid /\ EntrySound(g)
  BY <1>1, <1>3, GuiDataSound, Zenon DEF LoadedSound
<1> HIDE DEF g
<1>5. /\ torrents' \in Seq(Entries) /\ DOMAIN torrents' = DOMAIN torrents
      /\ \A k \in DOMAIN torrents : torrents'[k] = IF k = place THEN g ELSE torrents[k]
  BY <1>1, <1>2, <1>4, ExceptSeq, Zenon DEF TypeOK
<1>6. \A k \in DOMAIN torrents : torrents'[k].tid = torrents[k].tid
  BY <1>4, <1>5, Zenon
<1>7. Listed' = Listed /\ Ascending'
  BY <1>5, <1>6, Zenon DEF Listed, Ascending
<1>8. Started' = Started
  BY <1>1, Zenon DEF Started, furrentVars
<1>9. TypeOK'
  BY <1>1, <1>5 DEF TypeOK, furrentVars
<1>10. TorrentsSound'
  BY <1>1, TorrentsUnchanged, Zenon DEF TorrentsSound
<1>11. ListSound' /\ LoadedSound'
  BY <1>1, <1>7, <1>8, Zenon DEF ListSound, LoadedSound
<1>12. ASSUME NEW k \in DOMAIN torrents'
       PROVE  EntrySound(torrents[k])'
  <2>1. EntrySound(torrents'[k])
    BY <1>4, <1>5, Zenon
  <2>2. \A e : EntrySound(e) /\ e = torrents'[k] => EntrySound(torrents[k])'
    BY <1>1, Zenon DEF EntrySound, furrentVars
  <2>3. QED
    BY <2>1, <2>2, Zenon
<1>13. QED
  BY <1>7, <1>9, <1>10, <1>11, <1>12, Zenon

\* A new torrent is put at the end of the list.
LEMMA InsertCountStep ==
  ASSUME WindowInv, InsertCount
  PROVE  WindowInv'
<1> USE DEF WindowInv
<1> DEFINE t == next_uid - 1
           g == GuiData(t)
<1>1. /\ UNCHANGED <<furrentVars, next_uid, deleting, chosen, confirmed, place>>
      /\ at = "insert_count" /\ at' = "confirm_dialog" /\ loaded' = NoTorrent
      /\ torrents' = Append(torrents, g)
  BY Zenon DEF InsertCount, dialogVars
<1>2. t \in Started \ confirmed /\ t \in TID /\ Listed = (Started \ confirmed) \ {t}
  BY <1>1, Zenon DEF ListSound, Started
<1>3. g \in Entries /\ g.tid = t /\ EntrySound(g)
  BY <1>1, <1>2, GuiDataSound, Zenon DEF LoadedSound
<1>4. t \in Int /\ \A u \in Listed : u \in Int /\ u < t
  <2>1. \A u \in Started : u \in Int /\ u < next_uid
    BY DEF TorrentsSound, Started, TID
  <2>2. QED
    BY <1>2, <2>1 DEF TypeOK
<1> HIDE DEF g, t
<1> DEFINE n == Len(torrents)
<1>5. /\ torrents' \in Seq(Entries)
      /\ n \in Nat
      /\ DOMAIN torrents = 1 .. n /\ DOMAIN torrents' = 1 .. n + 1
      /\ torrents'[n + 1] = g
      /\ \A k \in 1 .. n : torrents'[k] = torrents[k]
  BY <1>1, <1>3, AppendProperties, LenProperties DEF TypeOK
<1> HIDE DEF n
<1>6. \A k \in 1 .. n + 1 : k \in 1 .. n \/ k = n + 1
  BY <1>5
<1>7. Listed' = Listed \union {t}
  <2>1. \A k \in DOMAIN torrents' :
          \/ torrents'[k].tid = t
          \/ k \in DOMAIN torrents /\ torrents'[k].tid = torrents[k].tid
    BY <1>3, <1>5, <1>6, Zenon
  <2>2. n + 1 \in DOMAIN torrents' /\ torrents'[n + 1].tid = t
    BY <1>3, <1>5
  <2>3. \A k \in DOMAIN torrents : k \in DOMAIN torrents' /\ torrents'[k].tid = torrents[k].tid
    BY <1>5
  <2>4. QED
    BY <2>1, <2>2, <2>3, Zenon DEF Listed
<1>8. Ascending'
  <2> SUFFICES ASSUME NEW j \in DOMAIN torrents', NEW k \in DOMAIN torrents', j < k
               PROVE  torrents'[j].tid < torrents'[k].tid
    BY Zenon DEF Ascending
  <2>1. j \in DOMAIN torrents /\ torrents'[j] = torrents[j]
    BY <1>5
  <2>2. CASE k \in DOMAIN torrents
    BY <1>5, <2>1, <2>2, Zenon DEF Ascending
  <2>3. CASE k = n + 1
    BY <1>3, <1>4, <1>5, <2>1, <2>3, Zenon DEF Listed
  <2>4. QED
    BY <1>5, <1>6, <2>2, <2>3, Zenon
<1>9. Started' = Started
  BY <1>1, Zenon DEF Started, furrentVars
<1>10. TypeOK'
  BY <1>1, <1>5, Zenon DEF TypeOK, furrentVars
<1>11. TorrentsSound'
  BY <1>1, TorrentsUnchanged, Zenon DEF TorrentsSound
<1>12. ListSound' /\ LoadedSound'
  BY <1>1, <1>2, <1>7, <1>9, Zenon DEF ListSound, LoadedSound
<1>13. ASSUME NEW k \in DOMAIN torrents'
       PROVE  EntrySound(torrents[k])'
  <2>1. EntrySound(torrents'[k])
    BY <1>3, <1>5, <1>6, Zenon
  <2>2. \A e : EntrySound(e) /\ e = torrents'[k] => EntrySound(torrents[k])'
    BY <1>1, Zenon DEF EntrySound, furrentVars
  <2>3. QED
    BY <2>1, <2>2, Zenon
<1>14. QED
  BY <1>8, <1>10, <1>11, <1>12, <1>13, Zenon

\* What is left of the list when the chosen torrent is erased.
LEMMA EraseFacts ==
  ASSUME WindowInv, Erase
  PROVE  /\ torrents' \in Seq(Entries)
         /\ Ascending'
         /\ Listed' = Listed \ {chosen}
         /\ \A k \in DOMAIN torrents' :
              torrents'[k].tid # chosen /\ \E j \in DOMAIN torrents : torrents'[k] = torrents[j]
<1> DEFINE J == {j \in DOMAIN torrents : torrents[j].tid # chosen}
           m == Cardinality(J)
<1>1. torrents \in Seq(Entries) /\ Len(torrents) \in Nat /\ DOMAIN torrents = 1 .. Len(torrents)
  BY LenProperties, Zenon DEF WindowInv, TypeOK
<1>2. J \in SUBSET (1 .. Len(torrents)) /\ torrents' = Kept(torrents, J)
  BY <1>1, Zenon DEF Erase
<1>3. \A j \in J : j \in DOMAIN torrents /\ torrents[j].tid # chosen /\ torrents[j] \in Entries
  BY <1>1, ElementOfSeq, Zenon
<1>4. \A j \in DOMAIN torrents : torrents[j].tid # chosen => j \in J
  BY Zenon
<1> HIDE DEF J
<1> DEFINE n == Len(torrents)
<1>5. n \in Nat /\ J \in SUBSET (1 .. n)
  BY <1>1, <1>2, Zenon
<1> HIDE DEF n
<1>6. m \in Nat /\ IsKept(torrents', torrents, J)
  BY <1>2, <1>5, KeptFacts, Zenon
<1>7. PICK f \in [1 .. m -> J] :
        /\ torrents' = [k \in 1 .. m |-> torrents[f[k]]]
        /\ \A k, l \in 1 .. m : k < l => f[k] < f[l]
        /\ \A j \in J : \E k \in 1 .. m : f[k] = j
  BY <1>6, Zenon DEF IsKept
<1> HIDE DEF m
<1>8. DOMAIN torrents' = 1 .. m /\ \A k \in 1 .. m : f[k] \in J /\ torrents'[k] = torrents[f[k]]
  BY <1>7, Zenon
<1>9. torrents' \in Seq(Entries)
  <2>1. torrents' \in [1 .. m -> Entries]
    BY <1>3, <1>7, <1>8, Zenon
  <2>2. QED
    BY <1>6, <2>1, SeqDef
<1>10. Ascending'
  <2>1. \A i, j \in DOMAIN torrents : i < j => torrents[i].tid < torrents[j].tid
    BY Zenon DEF Ascending, WindowInv
  <2>2. ASSUME NEW k \in 1 .. m, NEW l \in 1 .. m, k < l
        PROVE  torrents'[k].tid < torrents'[l].tid
    <3>1. f[k] < f[l] /\ f[k] \in DOMAIN torrents /\ f[l] \in DOMAIN torrents
      BY <1>3, <1>7, <1>8, <2>2, Zenon
    <3> QED
      BY <1>8, <2>1, <3>1, Zenon
  <2> QED
    BY <1>8, <2>2, Zenon DEF Ascending
<1>11. Listed' = Listed \ {chosen}
  <2>1. \A k \in DOMAIN torrents' : \E j \in DOMAIN torrents :
          torrents'[k].tid = torrents[j].tid /\ torrents'[k].tid # chosen
    BY <1>3, <1>8, Zenon
  <2>2. \A j \in DOMAIN torrents : torrents[j].tid # chosen =>
          \E k \in DOMAIN torrents' : torrents'[k].tid = torrents[j].tid
    BY <1>4, <1>7, <1>8, Zenon
  <2>3. QED
    BY <2>1, <2>2 DEF Listed
<1>12. QED
  BY <1>3, <1>8, <1>9, <1>10, <1>11, Zenon

\* The removed torrent is erased from the list.
LEMMA EraseStep ==
  ASSUME WindowInv, Erase
  PROVE  WindowInv'
<1> USE DEF WindowInv
<1>1. /\ UNCHANGED <<furrentVars, next_uid, loaded, place, deleting, chosen, confirmed>>
      /\ at = "erase" /\ at' = "frame"
  BY Zenon DEF Erase, dialogVars
<1>2. Started' = Started
  BY <1>1, Zenon DEF Started, furrentVars
<1>3. TypeOK'
  BY <1>1, EraseFacts, Zenon DEF TypeOK, furrentVars
<1>4. TorrentsSound'
  BY <1>1, TorrentsUnchanged, Zenon DEF TorrentsSound
<1>5. Listed' = Started \ confirmed /\ ~deleting
  <2>1. Listed = (Started \ confirmed) \union {chosen} /\ chosen \in confirmed /\ ~deleting
    BY <1>1, Zenon DEF ListSound
  <2>2. QED
    BY <2>1, EraseFacts, Zenon
<1>6. ListSound' /\ LoadedSound'
  BY <1>1, <1>2, <1>5, Zenon DEF ListSound, LoadedSound
<1>7. ASSUME NEW k \in DOMAIN torrents'
      PROVE  EntrySound(torrents[k])'
  <2>1. EntrySound(torrents'[k]) /\ torrents'[k].tid # chosen
    BY EraseFacts, Zenon
  <2>2. \A e : EntrySound(e) /\ e.tid # chosen /\ e = torrents'[k] => EntrySound(torrents[k])'
    BY <1>1, Zenon DEF EntrySound, furrentVars
  <2>3. QED
    BY <2>1, <2>2, Zenon
<1>8. QED
  BY <1>3, <1>4, <1>6, <1>7, EraseFacts, Zenon

-----------------------------------------------------------------------------
(* Steps that change the torrents of Furrent *)

\* Entries stay true if torrents stay completed and pieces stay finished.
LEMMA EntriesKept ==
  ASSUME WindowInv, torrents' = torrents, at # "erase" \/ UNCHANGED <<at, chosen>>,
         \A t \in TID : /\ finished[t] \subseteq finished'[t]
                        /\ finished'[t] \subseteq 1 .. PiecesCount[t]
                        /\ status[t] = "Completed" =>
                             status'[t] = "Completed" \/ (at' = "erase" /\ t = chosen')
  PROVE  \A k \in DOMAIN torrents' : EntrySound(torrents[k])'
<1> SUFFICES ASSUME NEW k \in DOMAIN torrents
             PROVE  EntrySound(torrents[k])'
  BY Zenon
<1> DEFINE g == torrents[k]
           t == g.tid
<1>1. g \in Entries
  BY LenProperties, ElementOfSeq, Zenon DEF WindowInv, TypeOK
<1>2. t \in TID /\ g.processed \in Nat
  BY <1>1, Zenon DEF Entries
<1>3. Cardinality(finished[t]) <= Cardinality(finished'[t])
      /\ Cardinality(finished[t]) \in Nat /\ Cardinality(finished'[t]) \in Nat
  <2>1. IsFiniteSet(1 .. PiecesCount[t])
    <3>1. PICK c \in Int : c = PiecesCount[t]
      BY <1>2, WindowAssumption
    <3>2. 1 \in Int
      OBVIOUS
    <3> QED
      BY <3>1, <3>2, FS_Interval, Zenon
  <2>2. IsFiniteSet(finished'[t])
    <3>1. finished'[t] \in SUBSET (1 .. PiecesCount[t])
      BY <1>2, Zenon
    <3> QED
      BY <2>1, <3>1, FS_Subset, Zenon
  <2>3. QED
    BY <1>2, <2>2, FS_Subset, FS_CardinalityType, Zenon
<1>4. EntrySound(g)
  BY Zenon DEF WindowInv
<1>5. g.processed <= Cardinality(finished'[t])
  <2>1. g.processed <= Cardinality(finished[t])
    BY <1>4, Zenon DEF EntrySound
  <2>2. QED
    BY <1>2, <1>3, <2>1
<1>6. g.state = "Completed" =>
        /\ g.processed = PiecesCount[t]
        /\ status'[t] = "Completed" \/ (at' = "erase" /\ t = chosen')
  BY <1>2, <1>4, Zenon DEF EntrySound
<1>7. QED
  BY <1>5, <1>6, Zenon DEF EntrySound

\* add_torrent: a torrent fails, with an entry or without, or is started.
LEMMA InsertSteps ==
  ASSUME WindowInv, InsertFails \/ InsertStarts
  PROVE  WindowInv'
<1> USE DEF WindowInv
<1>1. /\ UNCHANGED <<finished, completing, stopping, torrents, place, loaded, deleting, chosen, confirmed>>
      /\ at = "insert" /\ next_uid' = next_uid + 1
      /\ next_uid \in TID /\ next_uid \in Nat
  BY Zenon DEF InsertFails, InsertStarts, F!Fail, F!Start, listVars, dialogVars, furrentVars,
    TorrentsSound, TypeOK
<1>2. next_uid \notin Started
  BY <1>1 DEF TorrentsSound
<1>3. \/ at' = "confirm_dialog" /\ UNCHANGED status
      \/ at' = "confirm_dialog" /\ status' = [status EXCEPT ![next_uid] = "Error"]
      \/ at' = "insert_state" /\ status' = [status EXCEPT ![next_uid] = "Downloading"]
  BY Zenon DEF InsertFails, InsertStarts, F!Fail, F!Start, furrentVars
<1>4. /\ status' \in [TID -> Statuses]
      /\ \A t \in TID : t # next_uid => status'[t] = status[t]
      /\ status[next_uid] # "Completed" /\ status'[next_uid] # "Completed"
      /\ status'[next_uid] \notin {"None", "Error"} <=> at' = "insert_state"
      /\ at' \in {"confirm_dialog", "insert_state"}
  BY <1>1, <1>2, <1>3, Zenon DEF TypeOK, Statuses, Started
<1>5. Started' = IF at' = "insert_state" THEN Started \union {next_uid} ELSE Started
  BY <1>1, <1>2, <1>4, Zenon DEF Started
<1>6. Listed' = Listed /\ Ascending' /\ (\A t : Full(t)' <=> Full(t))
  BY <1>1, Zenon DEF Listed, Ascending, Full
<1>7. TypeOK'
  BY <1>1, <1>4 DEF TypeOK
<1>8. TorrentsSound'
  <2>1. \A t \in Started' : t < next_uid'
    <3>1. \A t \in Started : t \in Int /\ t < next_uid
      BY DEF TorrentsSound, Started, TID
    <3>2. QED
      BY <1>1, <1>5, <3>1
  <2>2. completing' \union stopping' \union confirmed' \subseteq Started'
    BY <1>1, <1>5, Zenon DEF TorrentsSound
  <2>3. \A t \in TID : t \in completing' \/ status'[t] = "Completed" => Full(t)'
    BY <1>1, <1>4, <1>6, Zenon DEF TorrentsSound
  <2>4. stopping' = {}
    BY <1>1, Zenon DEF TorrentsSound
  <2>5. \A t \in TID : finished'[t] \subseteq 1 .. PiecesCount[t]
    BY <1>1, Zenon DEF TorrentsSound
  <2>6. QED
    BY <1>4, <2>1, <2>2, <2>3, <2>4, <2>5, Zenon DEF TorrentsSound
<1>9. ListSound'
  <2>1. Listed = Started \ confirmed /\ next_uid \notin confirmed
    BY <1>1, <1>2, Zenon DEF ListSound, TorrentsSound
  <2>2. next_uid' - 1 = next_uid
    BY <1>1
  <2>3. CASE at' = "insert_state"
    BY <1>1, <1>2, <1>5, <1>6, <2>1, <2>2, <2>3, Zenon DEF ListSound
  <2>4. CASE at' = "confirm_dialog"
    BY <1>1, <1>5, <1>6, <2>1, <2>4, Zenon DEF ListSound
  <2>5. QED
    BY <1>4, <2>3, <2>4, Zenon
<1>10. \A k \in DOMAIN torrents' : EntrySound(torrents[k])'
  BY <1>1, <1>4, EntriesKept, Zenon DEF TorrentsSound
<1>11. LoadedSound'
  BY <1>4, Zenon DEF LoadedSound
<1>12. QED
  BY <1>6, <1>7, <1>8, <1>9, <1>10, <1>11, Zenon

\* remove_torrent decides, and stops the torrent unless it has ended.
LEMMA RemoveSteps ==
  ASSUME WindowInv, Remove \/ Stop
  PROVE  WindowInv'
<1> USE DEF WindowInv
<1>1. /\ UNCHANGED <<finished, completing, next_uid, torrents, place, loaded, deleting, chosen, confirmed>>
      /\ at \in {"remove", "stop"} /\ at' \in {"stop", "erase"}
  BY Zenon DEF Remove, Stop, F!DecideStop, F!Stop, listVars, dialogVars, furrentVars
<1>2. chosen \in confirmed /\ chosen \in Started /\ chosen \in TID
  BY <1>1, Zenon DEF ListSound, TorrentsSound, Started
<1>3. /\ status' \in [TID -> Statuses]
      /\ \A t \in TID : status'[t] = status[t] \/ (t = chosen /\ status'[t] = "Stopped" /\ at' = "erase")
      /\ stopping' \subseteq IF at' = "stop" THEN {chosen} ELSE {}
  <2>1. CASE Remove
    <3>1. UNCHANGED status /\ stopping = {}
      BY <2>1, Zenon DEF Remove, F!DecideStop, furrentVars, TorrentsSound
    <3>2. stopping' \subseteq IF at' = "stop" THEN {chosen} ELSE {}
      BY <2>1, <3>1, Zenon DEF Remove, F!DecideStop, furrentVars
    <3>3. QED
      BY <3>1, <3>2, Zenon DEF TypeOK
  <2>2. CASE Stop
    <3>1. /\ status' = [status EXCEPT ![chosen] = "Stopped"] /\ at' = "erase"
          /\ stopping' = stopping \ {chosen} /\ stopping \subseteq {chosen}
      BY <2>2, Zenon DEF Stop, F!Stop, TorrentsSound
    <3>2. QED
      BY <1>2, <3>1, Zenon DEF TypeOK, Statuses
  <2>3. QED
    BY <2>1, <2>2, Zenon
<1>4. Started' = Started
  BY <1>2, <1>3, Zenon DEF Started
<1>5. Listed' = Listed /\ Ascending' /\ (\A t : Full(t)' <=> Full(t))
  BY <1>1, Zenon DEF Listed, Ascending, Full
<1>6. TypeOK'
  BY <1>1, <1>2, <1>3, Zenon DEF TypeOK
<1>7. TorrentsSound'
  <2>1. \A t \in TID : t \in completing' \/ status'[t] = "Completed" => Full(t)'
    BY <1>1, <1>3, <1>5, Zenon DEF TorrentsSound
  <2>2. completing' \union stopping' \union confirmed' \subseteq Started'
    BY <1>1, <1>2, <1>3, <1>4, Zenon DEF TorrentsSound
  <2>3. QED
    BY <1>1, <1>3, <1>4, <2>1, <2>2, Zenon DEF TorrentsSound
<1>8. ListSound' /\ LoadedSound'
  BY <1>1, <1>4, <1>5, Zenon DEF ListSound, LoadedSound
<1>9. \A k \in DOMAIN torrents' : EntrySound(torrents[k])'
  BY <1>1, <1>3, EntriesKept, Zenon DEF TorrentsSound
<1>10. QED
  BY <1>5, <1>6, <1>7, <1>8, <1>9, Zenon

\* A worker finishes a piece or completes a torrent, at any step of a frame.
LEMMA WorkersStep ==
  ASSUME WindowInv, Workers
  PROVE  WindowInv'
<1> USE DEF WindowInv
<1>1. /\ UNCHANGED <<next_uid, at, torrents, place, loaded, deleting, chosen, confirmed, stopping>>
  BY Zenon DEF Workers, F!Complete, F!FinishPiece, listVars, dialogVars
<1>2. /\ status' \in [TID -> Statuses]
      /\ finished' \in [TID -> SUBSET Int]
      /\ completing' \in SUBSET Started
      /\ \A t \in TID :
           /\ finished[t] \subseteq finished'[t] /\ finished'[t] \subseteq 1 .. PiecesCount[t]
           /\ status'[t] = status[t] \/ (status'[t] = "Completed" /\ t \in Started)
           /\ t \in completing' \/ status'[t] = "Completed" => finished'[t] = 1 .. PiecesCount[t]
  <2>1. PICK t \in TID : F!Complete(t) \/ \E p \in 1 .. PiecesCount[t] : F!FinishPiece(t, p)
    BY Zenon DEF Workers
  <2>2. /\ \A u \in TID : finished[u] \subseteq 1 .. PiecesCount[u]
        /\ \A u \in TID : u \in completing \/ status[u] = "Completed" => finished[u] = 1 .. PiecesCount[u]
        /\ completing \in SUBSET Started /\ Started \subseteq TID
    BY Zenon DEF TorrentsSound, Full, Started
  <2>3. CASE F!Complete(t)
    <3>1. /\ t \in completing /\ status' = [status EXCEPT ![t] = "Completed"]
          /\ completing' = completing \ {t} /\ UNCHANGED finished
      BY <2>3, Zenon DEF F!Complete
    <3>2. QED
      BY <2>2, <3>1, Zenon DEF TypeOK, Statuses
  <2>4. CASE \E p \in 1 .. PiecesCount[t] : F!FinishPiece(t, p)
    <3>1. PICK p \in 1 .. PiecesCount[t] : F!FinishPiece(t, p)
      BY <2>4, Zenon
    <3>2. /\ status[t] \in {"Downloading", "Stopped"} /\ UNCHANGED status
          /\ p \notin finished[t]
          /\ finished' = [finished EXCEPT ![t] = @ \union {p}]
          /\ completing' = IF finished'[t] = 1 .. PiecesCount[t] THEN completing \union {t} ELSE completing
      BY <3>1, Zenon DEF F!FinishPiece
    <3>3. /\ finished' \in [TID -> SUBSET Int]
          /\ \A u \in TID : finished'[u] = IF u = t THEN finished[t] \union {p} ELSE finished[u]
      BY <3>1, <3>2 DEF TypeOK
    <3>4. \A u \in TID : finished[u] \subseteq finished'[u] /\ finished'[u] \subseteq 1 .. PiecesCount[u]
      BY <2>2, <3>1, <3>3, Zenon
    <3>5. t \in Started /\ completing' \in SUBSET Started
      BY <2>2, <3>2, Zenon DEF Started
    <3>6. \A u \in TID : u \in completing' \/ status'[u] = "Completed" => finished'[u] = 1 .. PiecesCount[u]
      BY <2>2, <3>1, <3>2, <3>3, Zenon
    <3>7. QED
      BY <3>2, <3>3, <3>4, <3>5, <3>6, Zenon DEF TypeOK
  <2>5. QED
    BY <2>1, <2>3, <2>4, Zenon
<1>3. Started' = Started
  BY <1>2, Zenon DEF Started
<1>4. Listed' = Listed /\ Ascending'
  BY <1>1, Zenon DEF Listed, Ascending
<1>5. TypeOK'
  BY <1>1, <1>2, Zenon DEF TypeOK, Started
<1>6. TorrentsSound'
  BY <1>1, <1>2, <1>3, Zenon DEF TorrentsSound, Full
<1>7. ListSound'
  BY <1>1, <1>3, <1>4, Zenon DEF ListSound
<1>8. \A k \in DOMAIN torrents' : EntrySound(torrents[k])'
  BY <1>1, <1>2, EntriesKept, Zenon
<1>9. LoadedSound'
  <2>1. ASSUME at = "update_count"
        PROVE  torrents[place].tid \in TID
    <3>1. torrents[place] \in Entries
      BY <2>1, LenProperties, ElementOfSeq DEF TypeOK, ListSound
    <3>2. QED
      BY <3>1, Zenon DEF Entries
  <2>2. at = "insert_count" => next_uid - 1 \in TID
    BY Zenon DEF ListSound, Started
  <2>3. QED
    BY <1>1, <1>2, <2>1, <2>2, Zenon DEF LoadedSound
<1>10. QED
  BY <1>4, <1>5, <1>6, <1>7, <1>8, <1>9, Zenon

-----------------------------------------------------------------------------
(* The theorems *)

\* No step of the window or of the workers breaks the invariant.
LEMMA WindowStep == WindowInv /\ [Next]_vars => WindowInv'
<1> SUFFICES ASSUME WindowInv, [Next]_vars
             PROVE  WindowInv'
  BY Zenon
<1>1. CASE Tick \/ UNCHANGED vars
  BY <1>1, IdleSteps, Zenon DEF Tick, vars, listVars, dialogVars
<1>2. CASE Loop \/ Close
  BY <1>2, DrawSteps, LoadSteps, UpdateCountStep, InsertSteps, InsertCountStep, ConfirmStep,
    RemoveSteps, EraseStep, Zenon DEF Loop
<1>3. CASE Workers
  BY <1>3, WorkersStep, Zenon
<1>4. QED
  BY <1>1, <1>2, <1>3, Zenon DEF Next

\* The invariant of the window, among other things that get_gui_data never
\* throws: no frame asks for a torrent that Furrent does not have.
THEOREM WindowInvariant == Spec => []WindowInv
<1>1. Init => WindowInv
  BY WindowInit, Zenon
<1>2. QED
  BY <1>1, WindowStep, PTL DEF Spec

\* The list shows each torrent that was started and not removed, once and in
\* the order of adding.
THEOREM ListStaysExact == Spec => []ListIsExact
<1>1. WindowInv => ListIsExact
  BY Zenon DEF WindowInv, ListIsExact, ListSound, Started, Ascending
<1>2. QED
  BY <1>1, WindowInvariant, PTL

\* The refreshes of the list never take back what was shown of a torrent, and
\* show a torrent as completed only with its full count.
THEOREM ListGoesForward == Spec => ShownOnlyGrows
<1> DEFINE Grows(g, h) ==
             /\ g.processed <= h.processed
             /\ g.state = "Completed" => h.state = "Completed"
             /\ h.state = "Completed" => h.processed = PiecesCount[h.tid]
<1>1. ASSUME WindowInv, WindowInv', [Next]_vars,
             NEW j \in DOMAIN torrents, NEW k \in DOMAIN torrents',
             torrents[j].tid = torrents'[k].tid
      PROVE  Grows(torrents[j], torrents'[k])
  <2>1. /\ torrents[j] \in Entries /\ torrents[j].processed \in Nat
        /\ \A i \in DOMAIN torrents : torrents[i].tid \in Int
        /\ \A i \in DOMAIN torrents : i \in Int
    <3>1. /\ \A i \in DOMAIN torrents : torrents[i] \in Entries
          /\ \A i \in DOMAIN torrents : i \in Int
      BY <1>1, LenProperties, ElementOfSeq DEF WindowInv, TypeOK
    <3>2. QED
      BY <3>1 DEF Entries, TID
  <2>2. \A i \in DOMAIN torrents : torrents[i].tid = torrents[j].tid => i = j
    BY <1>1, <2>1 DEF WindowInv, Ascending
  <2>3. EntrySound(torrents[j]) /\ EntrySound(torrents[k])'
    BY <1>1, Zenon DEF WindowInv
  <2>4. torrents'[k].state = "Completed" => torrents'[k].processed = PiecesCount[torrents'[k].tid]
    BY <2>3, Zenon DEF EntrySound
  <2>5. CASE torrents'[k] = torrents[j]
    BY <2>1, <2>4, <2>5
  <2>6. CASE UNCHANGED torrents
    BY <1>1, <2>2, <2>5, <2>6, Zenon
  <2>7. CASE Erase
    BY <1>1, <2>2, <2>5, <2>7, EraseFacts, Zenon
  <2>8. CASE InsertCount
    <3> DEFINE n == Len(torrents)
               g == GuiData(next_uid - 1)
    <3>1. torrents' = Append(torrents, g) /\ at = "insert_count" /\ g.tid = next_uid - 1
      BY <2>8, Zenon DEF InsertCount, GuiData
    <3>2. torrents[j].tid # next_uid - 1
      BY <1>1, <3>1, Zenon DEF WindowInv, ListSound, Listed
    <3> HIDE DEF g
    <3>3. (k \in DOMAIN torrents /\ torrents'[k] = torrents[k]) \/ torrents'[k] = g
      BY <1>1, <3>1 DEF WindowInv, TypeOK
    <3>4. QED
      BY <1>1, <2>2, <2>5, <3>1, <3>2, <3>3, Zenon
  <2>9. CASE UpdateCount
    <3> DEFINE g == GuiData(torrents[place].tid)
    <3>1. /\ at = "update_count" /\ torrents' = [torrents EXCEPT ![place] = g]
          /\ g.state = loaded /\ g.processed = Cardinality(finished[torrents[place].tid])
          /\ g.tid = torrents[place].tid
      BY <2>9, Zenon DEF UpdateCount, GuiData
    <3>2. place \in DOMAIN torrents
      <4>1. place <= Len(torrents)
        BY <1>1, <3>1, Zenon DEF WindowInv, ListSound
      <4>2. place \in Nat \ {0} /\ torrents \in Seq(Entries)
        BY <1>1, Zenon DEF WindowInv, TypeOK
      <4>3. QED
        BY <4>1, <4>2, LenProperties
    <3> HIDE DEF g
    <3>3. CASE k # place
      BY <1>1, <2>2, <2>5, <3>1, <3>3, Zenon
    <3>4. CASE k = place
      <4>1. j = place /\ torrents'[k] = g
        BY <1>1, <2>2, <3>1, <3>2, <3>4, Zenon
      <4>2. torrents[j].processed <= g.processed
        BY <2>3, <3>1, <4>1, Zenon DEF EntrySound
      <4>3. torrents[j].state = "Completed" => g.state = "Completed"
        BY <1>1, <3>1, <4>1, Zenon DEF WindowInv, LoadedSound
      <4>4. QED
        BY <2>4, <4>1, <4>2, <4>3, Zenon
    <3>5. QED
      BY <3>3, <3>4, Zenon
  <2>10. QED
    BY <1>1, <2>6, <2>7, <2>8, <2>9, Zenon DEF vars, listVars, Next, Loop, Close, Tick, Workers, Frame,
      UpdateState, Updated, Base, FileDialog, InsertFails, InsertStarts, InsertState,
      ConfirmDialog, Remove, Stop
<1>2. WindowInv /\ WindowInv' /\ [Next]_vars =>
        [\A j \in DOMAIN torrents, k \in DOMAIN torrents' :
           torrents[j].tid = torrents'[k].tid => Grows(torrents[j], torrents'[k])]_vars
  BY <1>1, Zenon
<1>3. QED
  BY <1>2, WindowInvariant, PTL DEF Spec, ShownOnlyGrows
=============================================================================
