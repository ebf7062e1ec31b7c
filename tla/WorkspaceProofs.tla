-------------------------- MODULE WorkspaceProofs --------------------------
(* Proofs about Workspace, for any number of processes, directories and    *)
(* archive names, and a crash at any step.                                 *)
EXTENDS Workspace, SequenceTheorems, TLAPS

Writing == {"checkpoint", "work", "summary", "last"}

(* What lies in the active workspace belongs to one run, and while a       *)
(* process prepares or writes, to the one this stage allows.               *)
ActiveInv ==
  /\ \A i, j \in Item : \A q \in active[i], r \in active[j] : q = r
  /\ \A r \in Runs :
       /\ stage[r] \in Writing => \A i \in Item : active[i] \subseteq {r}
       /\ stage[r] = "collect" => \A i \in Item : active[i] = {}
       /\ stage[r] \in {"launched", "prepare", "archive", "collect"} =>
            \A i \in Item : r \notin active[i]
       /\ stage[r] = "archive" => \A k \in 1 .. pos[r] - 1 : active[Items[k]] = {}
       /\ stage[r] \in {"launched", "prepare"} => pos[r] = 1

(* The archive holds runs that have ended; the directory that is being     *)
(* filled has none of the items that are still to be moved.                *)
ArchiveInv ==
  /\ \A n \in DOMAIN archive, i \in Item : \A q \in archive[n][i] : stage[q] = "ended"
  /\ \A r \in Runs : stage[r] = "archive" =>
       /\ destination[r] \in DOMAIN archive
       /\ \A i \in Item : active[i] # {} => archive[destination[r]][i] = {}
       /\ \A i, j \in Item : \A q \in archive[destination[r]][i], p \in active[j] : q = p

(* A run that is both in the workspace and in an archive directory is      *)
(* being moved there, or was when the process that moved it ended.         *)
TornInv ==
  \A n \in DOMAIN archive, i, j \in Item : \A q \in active[i] \cap archive[n][j] :
    q \in torn \/ \E r \in Runs : stage[r] = "archive" /\ destination[r] = n

IInv == TypeOK /\ ActiveInv /\ ArchiveInv /\ TornInv /\ ArchivedWhole

LEMMA Pair == ASSUME NEW S, NEW a \in S, NEW b \in S PROVE <<a, b>> \in Seq(S)
  OBVIOUS

LEMMA Appended ==
  ASSUME NEW S, NEW s \in Seq(S), NEW t \in Seq(S), Len(t) = 2
  PROVE  /\ s \o t \in Seq(S) /\ Len(s \o t) = Len(s) + 2
         /\ (s \o t)[Len(s) + 1] = t[1] /\ (s \o t)[Len(s) + 2] = t[2]
<1>1. Len(s) \in Nat
  OBVIOUS
<1>2. /\ s \o t \in Seq(S) /\ Len(s \o t) = Len(s) + Len(t)
      /\ \A i \in 1 .. Len(s) + Len(t) :
           (s \o t)[i] = IF i <= Len(s) THEN s[i] ELSE t[i - Len(s)]
  BY ConcatProperties
<1>3. Len(s) + 1 - Len(s) = 1 /\ Len(s) + 2 - Len(s) = 2
  BY <1>1
<1>4. QED
  BY <1>1, <1>2, <1>3

LEMMA ItemFacts ==
  /\ Input \in Item /\ Output \in Item /\ Dirs \subseteq Item /\ Files \subseteq Item
  /\ Len(Items) \in Nat /\ DOMAIN Items = 1 .. Len(Items)
  /\ \A k \in 1 .. Len(Items) : Items[k] \in Item
  /\ \A i \in Item : \E k \in 1 .. Len(Items) : i = Items[k]
<1> DEFINE S == Dirs \cup Files
           two == <<"status.json", "summary.json">>
<1>1. two \in Seq(S) /\ Len(two) = 2 /\ two[1] = "status.json" /\ two[2] = "summary.json"
  BY Pair DEF Files
<1>2. Directories \in Seq(S)
  BY WorkspaceAssumption
<1>3. Items = Directories \o two
  BY DEF Items
<1> HIDE DEF two, S
<1>4. /\ Items \in Seq(S) /\ Len(Items) = Len(Directories) + 2
      /\ Items[Len(Directories) + 1] = "status.json"
      /\ Items[Len(Directories) + 2] = "summary.json"
  BY <1>1, <1>2, <1>3, Appended
<1>5. Len(Directories) \in Nat /\ Len(Items) \in Nat /\ DOMAIN Items = 1 .. Len(Items)
  BY <1>2, <1>4
<1>6. Files \subseteq Item
  BY <1>4, <1>5 DEF Item, Files
<1>7. QED
  BY <1>5, <1>6, WorkspaceAssumption DEF Item, Dirs

LEMMA InitInv == Init => IInv
<1> SUFFICES ASSUME Init PROVE IInv
  OBVIOUS
<1>1. TypeOK
  BY ItemFacts, NothingIsReal DEF Init, TypeOK, Nothing, Stages
<1>2. QED
  BY <1>1 DEF Init, IInv, ActiveInv, ArchiveInv, TornInv, ArchivedWhole, Nothing, Writing

(* Only the process that holds the lock is at work.                        *)
LEMMA OneAtWork ==
  ASSUME TypeOK, NEW r \in Runs, stage[r] \notin {"launched", "ended"},
         NEW q \in Runs \ {r}
  PROVE  stage[q] \in {"launched", "ended"}
  BY DEF TypeOK

LEMMA LockInv ==
  ASSUME IInv, NEW r \in Runs, Lock(r) PROVE IInv'
<1>1. /\ stage[r] = "launched" /\ UNCHANGED <<active, archive, pos, destination, torn>>
      /\ \/ held = NoRun /\ held' = r /\ stage' = [stage EXCEPT ![r] = "prepare"]
         \/ held # NoRun /\ held' = held /\ stage' = [stage EXCEPT ![r] = "ended"]
  BY DEF Lock, Goto, fileVars, loopVars
<1>2. TypeOK'
  BY <1>1, NothingIsReal DEF IInv, TypeOK, Stages
<1>3. ActiveInv'
  BY <1>1 DEF IInv, TypeOK, ActiveInv, Writing
<1>4. \A q \in Runs : stage[q] \in {"archive", "ended"} => stage'[q] = stage[q]
  BY <1>1 DEF IInv, TypeOK
<1>5. \A q \in Runs : stage'[q] = "archive" => stage[q] = "archive"
  BY <1>1 DEF IInv, TypeOK
<1>6. ArchiveInv'
  BY <1>1, <1>4, <1>5 DEF IInv, TypeOK, ArchiveInv
<1>7. TornInv' /\ ArchivedWhole'
  BY <1>1, <1>4 DEF IInv, TornInv, ArchivedWhole
<1>8. QED
  BY <1>2, <1>3, <1>6, <1>7 DEF IInv

LEMMA PrepareInv ==
  ASSUME IInv, NEW r \in Runs, Prepare(r) PROVE IInv'
<1>1. stage[r] = "prepare" /\ UNCHANGED <<held, active, pos, torn>>
  BY DEF Prepare
<1>2. CASE HasPrevious
  <2>1. PICK n \in Names :
          /\ n \notin DOMAIN archive
          /\ archive' = [m \in DOMAIN archive \cup {n} |->
                           IF m \in DOMAIN archive THEN archive[m] ELSE Nothing]
          /\ destination' = [destination EXCEPT ![r] = n]
          /\ stage' = [stage EXCEPT ![r] = "archive"]
    BY <1>2 DEF Prepare, Fresh, Goto
  <2>2. TypeOK'
    BY <1>1, <2>1 DEF IInv, TypeOK, Stages, Nothing
  <2>3. ActiveInv'
    BY <1>1, <2>1 DEF IInv, TypeOK, ActiveInv, Writing
  <2>4. \A m \in DOMAIN archive' :
          \/ m \in DOMAIN archive /\ archive'[m] = archive[m]
          \/ m = n /\ \A i \in Item : archive'[m][i] = {}
    BY <2>1 DEF Nothing
  <2>5. \A q \in Runs \ {r} : stage[q] \in {"launched", "ended"} /\ stage'[q] = stage[q]
    BY <1>1, <2>1, OneAtWork DEF IInv, TypeOK
  <2>6. destination'[r] = n /\ stage'[r] = "archive" /\ n \in DOMAIN archive'
        /\ \A i \in Item : archive'[n][i] = {}
    BY <2>1, <2>4 DEF IInv, TypeOK
  <2>7. \A m \in DOMAIN archive', i \in Item : \A q \in archive'[m][i] :
          m \in DOMAIN archive /\ q \in archive[m][i] /\ q # r
    BY <1>1, <2>4 DEF IInv, ArchiveInv
  <2>8. ArchiveInv'
    <3>1. \A m \in DOMAIN archive', i \in Item : \A q \in archive'[m][i] : stage'[q] = "ended"
      BY <2>2, <2>5, <2>7 DEF IInv, TypeOK, ArchiveInv
    <3>2. QED
      BY <2>5, <2>6, <3>1 DEF ArchiveInv
  <2>9. TornInv'
    BY <1>1, <2>5, <2>7 DEF IInv, TornInv
  <2>10. ArchivedWhole'
    BY <1>1, <2>7 DEF IInv, ArchivedWhole
  <2>11. QED
    BY <2>2, <2>3, <2>8, <2>9, <2>10 DEF IInv
<1>3. CASE ~ HasPrevious
  <2>1. stage' = [stage EXCEPT ![r] = "collect"] /\ UNCHANGED <<archive, destination>>
        /\ \A i \in Item : active[i] = {}
    BY <1>3 DEF Prepare, HasPrevious, Goto
  <2>2. TypeOK'
    BY <1>1, <2>1 DEF IInv, TypeOK, Stages
  <2>3. ActiveInv'
    BY <1>1, <2>1 DEF IInv, TypeOK, ActiveInv, Writing
  <2>4. ArchiveInv' /\ TornInv' /\ ArchivedWhole'
    BY <1>1, <2>1 DEF IInv, TypeOK, ArchiveInv, TornInv, ArchivedWhole
  <2>5. QED
    BY <2>2, <2>3, <2>4 DEF IInv
<1>4. QED
  BY <1>2, <1>3

(* What a move does, whether there is something to move or not.            *)
LEMMA MoveFacts ==
  ASSUME IInv, NEW r \in Runs, MoveItem(r)
  PROVE  \E i \in Item, n \in DOMAIN archive :
           /\ i = Items[pos[r]] /\ n = destination[r] /\ pos[r] \in 1 .. Len(Items)
           /\ DOMAIN archive' = DOMAIN archive
           /\ archive'[n][i] = archive[n][i] \cup active[i] /\ active'[i] = {}
           /\ \A m \in DOMAIN archive, j \in Item :
                m # n \/ j # i => archive'[m][j] = archive[m][j]
           /\ \A j \in Item \ {i} : active'[j] = active[j]
           /\ archive' \in [DOMAIN archive -> [Item -> SUBSET Runs]]
           /\ active' \in [Item -> SUBSET Runs]
<1> DEFINE i == Items[pos[r]]
           n == destination[r]
<1>1. pos[r] \in 1 .. Len(Items) /\ stage[r] = "archive"
  BY ItemFacts DEF MoveItem, IInv, TypeOK
<1>2. i \in Item /\ n \in DOMAIN archive
  BY <1>1, ItemFacts DEF IInv, ArchiveInv
<1>3. Moved(i, n) = archive[n][i] \cup active[i]
  BY <1>1, <1>2 DEF Moved, IInv, ArchiveInv
<1>4. /\ archive' = [archive EXCEPT ![n][i] = archive[n][i] \cup active[i]]
      /\ active' = [active EXCEPT ![i] = {}]
  BY <1>3 DEF MoveItem, Left
<1> HIDE DEF i, n
<1>5. archive \in [DOMAIN archive -> [Item -> SUBSET Runs]] /\ active \in [Item -> SUBSET Runs]
  BY DEF IInv, TypeOK
<1>6. /\ DOMAIN archive' = DOMAIN archive
      /\ archive'[n] = [archive[n] EXCEPT ![i] = archive[n][i] \cup active[i]]
      /\ \A m \in DOMAIN archive \ {n} : archive'[m] = archive[m]
      /\ archive' = [m \in DOMAIN archive |-> archive'[m]]
  BY <1>2, <1>4, <1>5
<1>7. /\ archive'[n][i] = archive[n][i] \cup active[i]
      /\ \A j \in Item \ {i} : archive'[n][j] = archive[n][j]
      /\ archive'[n] \in [Item -> SUBSET Runs]
  BY <1>2, <1>5, <1>6
<1>8. /\ active'[i] = {} /\ \A j \in Item \ {i} : active'[j] = active[j]
      /\ active' \in [Item -> SUBSET Runs]
  BY <1>2, <1>4, <1>5
<1>9. archive' \in [DOMAIN archive -> [Item -> SUBSET Runs]]
  BY <1>5, <1>6, <1>7
<1>10. \A m \in DOMAIN archive, j \in Item :
         m # n \/ j # i => archive'[m][j] = archive[m][j]
  BY <1>6, <1>7
<1>11. i = Items[pos[r]] /\ n = destination[r]
  BY DEF i, n
<1>12. QED
  BY <1>1, <1>2, <1>6, <1>7, <1>8, <1>9, <1>10, <1>11

LEMMA MoveInv ==
  ASSUME IInv, NEW r \in Runs, MoveItem(r) PROVE IInv'
<1>1. /\ stage[r] = "archive" /\ pos' = [pos EXCEPT ![r] = @ + 1]
      /\ UNCHANGED <<held, stage, destination, torn>>
  BY DEF MoveItem
<1>2. PICK i \in Item, n \in DOMAIN archive :
        /\ i = Items[pos[r]] /\ n = destination[r] /\ pos[r] \in 1 .. Len(Items)
        /\ DOMAIN archive' = DOMAIN archive
        /\ archive'[n][i] = archive[n][i] \cup active[i] /\ active'[i] = {}
        /\ \A m \in DOMAIN archive, j \in Item :
             m # n \/ j # i => archive'[m][j] = archive[m][j]
        /\ \A j \in Item \ {i} : active'[j] = active[j]
        /\ archive' \in [DOMAIN archive -> [Item -> SUBSET Runs]]
        /\ active' \in [Item -> SUBSET Runs]
  BY MoveFacts
<1>a. \A m \in DOMAIN archive, j \in Item : \A q \in archive'[m][j] :
        q \in archive[m][j] \/ (m = n /\ q \in active[i])
  <2> TAKE m \in DOMAIN archive, j \in Item
  <2> TAKE q \in archive'[m][j]
  <2>1. CASE m = n /\ j = i
    BY <1>2, <2>1
  <2>2. CASE m # n \/ j # i
    BY <1>2, <2>2
  <2>3. QED
    BY <2>1, <2>2
<1>0. \A q \in Runs \ {r} : pos'[q] = pos[q] /\ stage[q] \in {"launched", "ended"}
  BY <1>1, OneAtWork DEF IInv, TypeOK
<1>3. TypeOK'
  BY <1>1, <1>2, ItemFacts DEF IInv, TypeOK
<1>4. ActiveInv'
  <2>1. \A j \in Item : active'[j] \subseteq active[j]
    BY <1>2
  <2>2. pos'[r] = pos[r] + 1 /\ pos[r] \in Nat
    BY <1>1, <1>2, ItemFacts DEF IInv, TypeOK
  <2>3. \A k \in 1 .. pos[r] - 1 : active[Items[k]] = {} /\ Items[k] \in Item
    BY <1>1, <1>2, ItemFacts DEF IInv, ActiveInv
  <2>4. \A k \in 1 .. pos'[r] - 1 : active'[Items[k]] = {}
    <3> TAKE k \in 1 .. pos'[r] - 1
    <3>1. CASE k = pos[r]
      BY <1>2, <3>1
    <3>2. CASE k # pos[r]
      BY <2>1, <2>2, <2>3, <3>2
    <3>3. QED
      BY <3>1, <3>2
  <2>5. QED
    BY <1>0, <1>1, <2>1, <2>4 DEF IInv, ActiveInv, Writing
<1>5. \A q \in active[i] : stage[q] = "ended"
  BY <1>0, <1>1, <1>2 DEF IInv, TypeOK, ActiveInv
<1>6. ArchiveInv'
  <2>1. \A m \in DOMAIN archive, j \in Item : \A q \in archive'[m][j] : stage[q] = "ended"
    BY <1>2, <1>5 DEF IInv, ArchiveInv
  <2>2. \A j \in Item : active'[j] # {} => archive'[n][j] = {}
    <3>1. \A j \in Item : active[j] # {} => archive[n][j] = {}
      BY <1>1, <1>2 DEF IInv, ArchiveInv
    <3> SUFFICES ASSUME NEW j \in Item, active'[j] # {} PROVE archive'[n][j] = {}
      OBVIOUS
    <3>2. j # i
      BY <1>2
    <3>3. active'[j] = active[j] /\ archive'[n][j] = archive[n][j]
      BY <1>2, <3>2
    <3>4. QED
      BY <3>1, <3>3
  <2>3. \A j, k \in Item : \A q \in archive'[n][j], p \in active'[k] : q = p
    <3>1. \A j, k \in Item : \A q \in archive[n][j] \cup active[i], p \in active[k] : q = p
      BY <1>1, <1>2 DEF IInv, ArchiveInv, ActiveInv
    <3>2. \A k \in Item : active'[k] \subseteq active[k]
      BY <1>2
    <3>3. QED
      BY <1>2, <1>a, <3>1, <3>2
  <2>4. \A q \in Runs : stage'[q] = "archive" => q = r /\ destination'[q] = n
    BY <1>0, <1>1, <1>2
  <2>5. QED
    BY <1>1, <1>2, <2>1, <2>2, <2>3, <2>4 DEF ArchiveInv
<1>7. TornInv'
  <2> SUFFICES ASSUME NEW m \in DOMAIN archive, NEW j \in Item, NEW k \in Item,
                      NEW q \in active'[j] \cap archive'[m][k]
               PROVE  q \in torn \/ \E p \in Runs : stage[p] = "archive" /\ destination[p] = m
    BY <1>1, <1>2 DEF TornInv
  <2>1. CASE m = n
    BY <1>1, <1>2, <2>1
  <2>2. CASE m # n
    BY <1>2, <2>2 DEF IInv, TornInv
  <2>3. QED
    BY <2>1, <2>2
<1>8. ArchivedWhole'
  <2>1. \A j \in Item : \A q \in archive[n][j], p \in active[i] : q = p
    BY <1>1, <1>2 DEF IInv, ArchiveInv
  <2>2. \A m \in DOMAIN archive \ {n}, j \in Item : archive[m][j] \cap active[i] \subseteq torn
    BY <1>0, <1>1, <1>2 DEF IInv, TornInv
  <2>3. \A p, q \in active[i] : p = q
    BY <1>2 DEF IInv, ActiveInv
  <2>4. ASSUME NEW m \in DOMAIN archive, NEW j \in Item, NEW k \in Item,
               NEW p \in archive'[m][j], NEW q \in archive'[m][k]
        PROVE  p = q
    <3>1. (p \in archive[m][j] \/ (m = n /\ p \in active[i]))
          /\ (q \in archive[m][k] \/ (m = n /\ q \in active[i]))
      BY <1>2, <1>a
    <3>2. QED
      BY <2>1, <2>3, <3>1 DEF IInv, ArchivedWhole
  <2>5. ASSUME NEW m \in DOMAIN archive, NEW l \in DOMAIN archive \ {m},
               NEW j \in Item, NEW k \in Item,
               NEW q \in archive'[m][j] \cap archive'[l][k]
        PROVE  q \in torn
    <3>1. (q \in archive[m][j] \/ (m = n /\ q \in active[i]))
          /\ (q \in archive[l][k] \/ (l = n /\ q \in active[i]))
      BY <1>2, <1>a
    <3>2. QED
      BY <2>2, <3>1 DEF IInv, ArchivedWhole
  <2>6. QED
    BY <1>1, <1>2, <2>4, <2>5 DEF ArchivedWhole
<1>9. QED
  BY <1>3, <1>4, <1>6, <1>7, <1>8 DEF IInv

LEMMA EndPrepareInv ==
  ASSUME IInv, NEW r \in Runs, EndPrepare(r) PROVE IInv'
<1>1. /\ stage[r] = "archive" /\ pos[r] > Len(Items)
      /\ stage' = [stage EXCEPT ![r] = "collect"]
      /\ UNCHANGED <<held, active, archive, pos, destination, torn>>
  BY DEF EndPrepare, Goto, fileVars, loopVars
<1>2. \A i \in Item : active[i] = {}
  <2>1. pos[r] \in Nat /\ \A k \in 1 .. pos[r] - 1 : active[Items[k]] = {}
    BY <1>1, ItemFacts DEF IInv, TypeOK, ActiveInv
  <2>2. \A k \in 1 .. Len(Items) : k \in 1 .. pos[r] - 1
    BY <1>1, <2>1, ItemFacts
  <2>3. QED
    BY <2>1, <2>2, ItemFacts
<1>3. TypeOK'
  BY <1>1 DEF IInv, TypeOK, Stages
<1>4. ActiveInv'
  BY <1>1, <1>2 DEF IInv, TypeOK, ActiveInv, Writing
<1>5. ArchiveInv' /\ TornInv' /\ ArchivedWhole'
  BY <1>1, <1>2 DEF IInv, TypeOK, ArchiveInv, TornInv, ArchivedWhole
<1>6. QED
  BY <1>3, <1>4, <1>5 DEF IInv

(* Writing into the active workspace, at any stage that does.              *)
LEMMA WriteFacts ==
  ASSUME IInv, NEW r \in Runs, NEW i \in Item, WriteInto(r, i),
         stage[r] \in Writing \cup {"collect"}
  PROVE  /\ active' \in [Item -> SUBSET Runs]
         /\ \A j \in Item : active'[j] = IF j = i THEN {r} ELSE active[j]
         /\ \A j \in Item : active[j] \subseteq {r}
<1>1. \A j \in Item : active[j] \subseteq {r}
  BY DEF IInv, ActiveInv
<1>2. active' = [active EXCEPT ![i] = {r}]
  BY <1>1 DEF WriteInto, IInv, TypeOK
<1>3. QED
  BY <1>1, <1>2 DEF IInv, TypeOK

LEMMA WriteInv ==
  ASSUME IInv, NEW r \in Runs, NEW i \in Item, WriteInto(r, i),
         stage[r] \in Writing \cup {"collect"},
         UNCHANGED <<archive, pos, destination, torn>>,
         NEW s \in Writing \cup {"ended"}, stage' = [stage EXCEPT ![r] = s],
         held' = IF s = "ended" THEN NoRun ELSE held
  PROVE  IInv'
<1>1. /\ active' \in [Item -> SUBSET Runs]
      /\ \A j \in Item : active'[j] = IF j = i THEN {r} ELSE active[j]
      /\ \A j \in Item : active'[j] \subseteq {r}
  BY WriteFacts
<1>2. \A q \in Runs \ {r} : stage'[q] = stage[q] /\ stage[q] \in {"launched", "ended"}
  BY OneAtWork DEF IInv, TypeOK, Writing
<1>3. stage'[r] = s
  BY DEF IInv, TypeOK
<1>4. TypeOK'
  BY <1>1, NothingIsReal DEF IInv, TypeOK, Stages, Writing
<1>5. ActiveInv'
  BY <1>1, <1>2, <1>3 DEF IInv, ActiveInv, Writing
<1>6. \A n \in DOMAIN archive, j \in Item : r \notin archive[n][j]
  BY DEF IInv, ArchiveInv, Writing
<1>7. ArchiveInv'
  BY <1>1, <1>2, <1>3, <1>6 DEF IInv, ArchiveInv, Writing
<1>8. TornInv' /\ ArchivedWhole'
  BY <1>1, <1>6 DEF IInv, TornInv, ArchivedWhole
<1>9. QED
  BY <1>4, <1>5, <1>7, <1>8 DEF IInv

LEMMA DieInv ==
  ASSUME IInv, NEW r \in Runs, Die(r) PROVE IInv'
<1>1. /\ stage[r] \notin {"launched", "ended"} /\ held = r /\ held' = NoRun
      /\ stage' = [stage EXCEPT ![r] = "ended"]
      /\ torn' = IF stage[r] = "archive" THEN torn \cup UNION {active[i] : i \in Item}
                 ELSE torn
      /\ UNCHANGED <<active, archive, pos, destination>>
  BY DEF Die, Unlock, Goto, fileVars, loopVars, IInv, TypeOK
<1>2. TypeOK'
  BY <1>1, NothingIsReal DEF IInv, TypeOK, Stages
<1>3. ActiveInv' /\ ArchiveInv'
  BY <1>1 DEF IInv, TypeOK, ActiveInv, ArchiveInv, Writing
<1>4. torn \subseteq torn'
  BY <1>1
<1>5. ArchivedWhole'
  BY <1>1, <1>4 DEF IInv, ArchivedWhole
<1>6. TornInv'
  <2>1. CASE stage[r] = "archive"
    BY <1>1, <2>1 DEF TornInv
  <2>2. CASE stage[r] # "archive"
    BY <1>1, <2>2, OneAtWork DEF IInv, TypeOK, TornInv
  <2>3. QED
    BY <2>1, <2>2
<1>7. QED
  BY <1>2, <1>3, <1>5, <1>6 DEF IInv

(* The steps of a run that write, in terms of WriteInv.                    *)
LEMMA StepWrites ==
  ASSUME IInv, NEW r \in Runs,
         Collect(r) \/ Checkpoint(r) \/ Work(r) \/ Publish(r) \/ Summarise(r) \/ Finish(r)
  PROVE  \E i \in Item, s \in Writing \cup {"ended"} :
           /\ WriteInto(r, i) /\ stage[r] \in Writing \cup {"collect"}
           /\ UNCHANGED <<archive, pos, destination, torn>>
           /\ stage' = [stage EXCEPT ![r] = s]
           /\ held' = IF s = "ended" THEN NoRun ELSE held
<1> USE ItemFacts DEF Goto, loopVars, Writing, Files
<1>1. CASE Collect(r)
  BY <1>1 DEF Collect
<1>2. CASE Checkpoint(r)
  BY <1>2 DEF Checkpoint
<1>3. CASE Work(r)
  BY <1>3 DEF Work
<1>4. CASE Publish(r)
  BY <1>4 DEF Publish
<1>5. CASE Summarise(r)
  BY <1>5 DEF Summarise
<1>6. CASE Finish(r)
  BY <1>6 DEF Finish, Unlock, IInv, TypeOK
<1>7. QED
  BY <1>1, <1>2, <1>3, <1>4, <1>5, <1>6

LEMMA NextInv == IInv /\ [Next]_vars => IInv'
<1> SUFFICES ASSUME IInv, [Next]_vars PROVE IInv'
  OBVIOUS
<1>1. ASSUME NEW r \in Runs, Step(r) PROVE IInv'
  <2>1. CASE Lock(r) \/ Prepare(r) \/ MoveItem(r) \/ EndPrepare(r)
    BY <2>1, LockInv, PrepareInv, MoveInv, EndPrepareInv
  <2>2. CASE Collect(r) \/ Checkpoint(r) \/ Work(r) \/ Publish(r) \/ Summarise(r) \/ Finish(r)
    BY <2>2, StepWrites, WriteInv
  <2>3. QED
    BY <1>1, <2>1, <2>2 DEF Step
<1>2. ASSUME NEW r \in Runs, Die(r) PROVE IInv'
  BY <1>2, DieInv
<1>3. CASE UNCHANGED vars
  <2>1. TypeOK' /\ ActiveInv'
    BY <1>3 DEF vars, fileVars, loopVars, IInv, TypeOK, ActiveInv
  <2>2. ArchiveInv' /\ TornInv' /\ ArchivedWhole'
    BY <1>3 DEF vars, fileVars, loopVars, IInv, ArchiveInv, TornInv, ArchivedWhole
  <2>3. QED
    BY <2>1, <2>2 DEF IInv
<1>4. QED
  BY <1>1, <1>2, <1>3 DEF Next, Stop

(* The inductive invariant holds at every step of every process.           *)
THEOREM Invariance == Spec => []IInv
  BY InitInv, NextInv, PTL DEF Spec

(* Every variable has its type, and the lock is held by the one process    *)
(* that is at work.                                                        *)
THEOREM TypeCorrect == Spec => []TypeOK
<1>1. IInv => TypeOK
  BY DEF IInv
<1>2. QED
  BY <1>1, Invariance, PTL

(* No run finds files of another in its workspace, whatever crashed.       *)
THEOREM StaleSound == Spec => []StaleNotMistaken
<1>1. IInv => StaleNotMistaken
  BY DEF IInv, ActiveInv, StaleNotMistaken, Writing
<1>2. QED
  BY <1>1, Invariance, PTL

(* Each archive directory is of one run, and only a crash splits a run.    *)
THEOREM ArchiveSound == Spec => []ArchivedWhole
<1>1. IInv => ArchivedWhole
  BY DEF IInv
<1>2. QED
  BY <1>1, Invariance, PTL
-----------------------------------------------------------------------------
(* The workspace implements ResultSets.                                    *)
Places == [r \in Runs |-> [i \in Item |-> Place(r, i)]]

Archived(r, i) == \E n \in DOMAIN archive : r \in archive[n][i]

(* A step that leaves every piece where it is.                             *)
LEMMA SilentStep ==
  ASSUME \A r \in Runs, i \in Item :
           /\ r \in active'[i] <=> r \in active[i]
           /\ Archived(r, i)' <=> Archived(r, i)
  PROVE  Places' = Places
<1>1. \A r \in Runs, i \in Item : Place(r, i)' = Place(r, i)
  BY DEF Place, Archived
<1>2. QED
  BY <1>1 DEF Places

(* A step that changes the place of one piece and no other.                *)
LEMMA OneChanges ==
  ASSUME NEW r \in Runs, NEW i \in Item,
         \A q \in Runs, j \in Item :
           q # r \/ j # i => Place(q, j)' = Place(q, j)
  PROVE  Places' = [Places EXCEPT ![r][i] = Place(r, i)']
<1> DEFINE F == [Places[r] EXCEPT ![i] = Place(r, i)']
<1>1. Places[r] = [j \in Item |-> Place(r, j)] /\ Places'[r] = [j \in Item |-> Place(r, j)']
  BY DEF Places
<1>2. F = [j \in Item |-> IF j = i THEN Place(r, i)' ELSE Place(r, j)]
  BY <1>1
<1>3. Places'[r] = F
  BY <1>1, <1>2
<1> HIDE DEF F
<1>4. \A q \in Runs \ {r} : Places'[q] = Places[q]
  BY DEF Places
<1>5. Places' = [q \in Runs |-> Places'[q]] /\ Places = [q \in Runs |-> Places[q]]
  BY DEF Places
<1>6. Places' = [Places EXCEPT ![r] = F]
  BY <1>3, <1>4, <1>5
<1>7. QED
  BY <1>6 DEF F

LEMMA WriteRefines ==
  ASSUME IInv, NEW r \in Runs, NEW i \in Item, WriteInto(r, i),
         stage[r] \in Writing \cup {"collect"}, archive' = archive
  PROVE  [Promise!Next]_Places
<1>1. \A j \in Item : /\ active'[j] = IF j = i THEN {r} ELSE active[j]
                      /\ active[j] \subseteq {r}
  BY WriteFacts
<1>2. \A n \in DOMAIN archive, j \in Item : r \notin archive[n][j]
  BY DEF IInv, ArchiveInv, Writing
<1>3. \A q \in Runs, j \in Item : q # r \/ j # i => Place(q, j)' = Place(q, j)
  BY <1>1 DEF Place
<1>4. Place(r, i)' = "active"
  BY <1>1 DEF Place
<1>5. Places' = [Places EXCEPT ![r][i] = "active"]
  BY <1>3, <1>4, OneChanges
<1>6. CASE r \in active[i]
  BY <1>1, <1>6, SilentStep DEF Archived
<1>7. CASE r \notin active[i]
  <2>1. Places[r][i] = "absent"
    BY <1>2, <1>7 DEF Places, Place
  <2>2. \A q \in Runs \ {r} : Promise!Active(q) = {}
    BY <1>1 DEF Promise!Active, Places, Place
  <2>3. Promise!Produce(r, i)
    BY <1>5, <2>1, <2>2 DEF Promise!Produce, Places
  <2>4. QED
    BY <2>3 DEF Promise!Next
<1>8. QED
  BY <1>6, <1>7

LEMMA MoveRefines ==
  ASSUME IInv, NEW r \in Runs, MoveItem(r) PROVE [Promise!Next]_Places
<1>1. PICK i \in Item, n \in DOMAIN archive :
        /\ i = Items[pos[r]] /\ n = destination[r] /\ pos[r] \in 1 .. Len(Items)
        /\ DOMAIN archive' = DOMAIN archive
        /\ archive'[n][i] = archive[n][i] \cup active[i] /\ active'[i] = {}
        /\ \A m \in DOMAIN archive, j \in Item :
             m # n \/ j # i => archive'[m][j] = archive[m][j]
        /\ \A j \in Item \ {i} : active'[j] = active[j]
        /\ archive' \in [DOMAIN archive -> [Item -> SUBSET Runs]]
        /\ active' \in [Item -> SUBSET Runs]
  BY MoveFacts
<1>2. \A q \in Runs, j \in Item \ {i} : Place(q, j)' = Place(q, j)
  BY <1>1 DEF Place
<1>3. CASE active[i] = {}
  <2>1. archive'[n][i] = archive[n][i]
    BY <1>1, <1>3
  <2>2. \A m \in DOMAIN archive, j \in Item : archive'[m][j] = archive[m][j]
    BY <1>1, <2>1
  <2>3. \A q \in Runs, j \in Item : Archived(q, j)' <=> Archived(q, j)
    BY <1>1, <2>2 DEF Archived
  <2>4. \A j \in Item : active'[j] = active[j]
    BY <1>1, <1>3
  <2>5. QED
    BY <2>3, <2>4, SilentStep
<1>4. CASE active[i] # {}
  <2>1. PICK q \in Runs : active[i] = {q}
    BY <1>4 DEF IInv, TypeOK, ActiveInv
  <2>2. ASSUME NEW p \in Runs \ {q} PROVE Place(p, i)' = Place(p, i)
    <3>1. \A m \in DOMAIN archive : p \in archive'[m][i] <=> p \in archive[m][i]
      BY <1>1, <2>1
    <3>2. p \notin active[i] /\ p \notin active'[i]
      BY <1>1, <2>1
    <3>3. QED
      BY <1>1, <3>1, <3>2 DEF Place
  <2>3. Place(q, i) = "active" /\ Place(q, i)' = "archived"
    BY <1>1, <2>1 DEF Place
  <2>4. Places' = [Places EXCEPT ![q][i] = "archived"]
    BY <1>2, <2>2, <2>3, OneChanges
  <2>5. Promise!Retire(q, i)
    BY <2>3, <2>4 DEF Promise!Retire, Places
  <2>6. QED
    BY <2>5 DEF Promise!Next
<1>5. QED
  BY <1>3, <1>4

LEMMA PrepareRefines ==
  ASSUME IInv, NEW r \in Runs, Prepare(r) PROVE Places' = Places
<1>1. active' = active
  BY DEF Prepare
<1>2. CASE archive' = archive
  BY <1>1, <1>2, SilentStep DEF Archived
<1>3. CASE archive' # archive
  <2>1. PICK n \in Names :
          /\ n \notin DOMAIN archive
          /\ archive' = [m \in DOMAIN archive \cup {n} |->
                           IF m \in DOMAIN archive THEN archive[m] ELSE Nothing]
    BY <1>3 DEF Prepare, Fresh
  <2>2. /\ DOMAIN archive' = DOMAIN archive \cup {n}
        /\ \A m \in DOMAIN archive : archive'[m] = archive[m]
        /\ \A j \in Item : archive'[n][j] = {}
    BY <2>1 DEF Nothing
  <2>3. \A q \in Runs, j \in Item : Archived(q, j)' <=> Archived(q, j)
    BY <2>2 DEF Archived
  <2>4. QED
    BY <1>1, <2>3, SilentStep
<1>4. QED
  BY <1>2, <1>3

LEMMA StepRefines == IInv /\ [Next]_vars => [Promise!Next]_Places
<1> SUFFICES ASSUME IInv, [Next]_vars PROVE [Promise!Next]_Places
  OBVIOUS
<1>1. ASSUME NEW r \in Runs, Step(r) PROVE [Promise!Next]_Places
  <2>1. CASE Lock(r) \/ EndPrepare(r)
    BY <2>1, SilentStep DEF Lock, EndPrepare, fileVars, Archived
  <2>2. CASE Prepare(r) \/ MoveItem(r)
    BY <2>2, PrepareRefines, MoveRefines
  <2>3. CASE Collect(r) \/ Checkpoint(r) \/ Work(r) \/ Publish(r) \/ Summarise(r) \/ Finish(r)
    BY <2>3, StepWrites, WriteRefines
  <2>4. QED
    BY <1>1, <2>1, <2>2, <2>3 DEF Step
<1>2. ASSUME NEW r \in Runs, Die(r) PROVE [Promise!Next]_Places
  BY <1>2, SilentStep DEF Die, fileVars, Archived
<1>3. CASE UNCHANGED vars
  BY <1>3, SilentStep DEF vars, fileVars, Archived
<1>4. QED
  BY <1>1, <1>2, <1>3 DEF Next, Stop

LEMMA InitRefines == Init => Promise!Init
  BY DEF Init, Nothing, Promise!Init, Place

(* Nothing is lost, mixed or revived on the way to the archive: every      *)
(* behaviour of the workspace is one of ResultSets.                        *)
THEOREM KeptSound == Spec => KeptAsPromised
<1>1. IInv /\ [Next]_vars => [Promise!Next]_([r \in Runs |-> [i \in Item |-> Place(r, i)]])
  BY StepRefines DEF Places
<1>2. QED
  BY <1>1, InitRefines, Invariance, PTL DEF Spec, KeptAsPromised, Promise!Spec
=============================================================================
