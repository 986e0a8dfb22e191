------------------------ MODULE RetrievalIndexProofs ------------------------
(***************************************************************************)
(* Proofs about RetrievalIndex for any number of files, versions, searches *)
(* and edits: a stored hash speaks for the stored chunks, and a search     *)
(* that nothing disturbs answers from the present content of its files.    *)
(* Both hold as long as no search ends between the two deletions of a      *)
(* prune.                                                                  *)
(***************************************************************************)
EXTENDS RetrievalIndex, TLAPS

UndisturbedIsAlone ==
    \A s, u \in Searches :
        search[s].alone /\ u # s => search[u].phase = "idle"

Current(f) == disk[f] \in Versions => chunks[f] = ChunksOf(disk[f])

(* What an undisturbed search has done so far: the files behind it are     *)
(* current, and what it knows of those ahead of it is what is stored.      *)
ProgressOf(task) ==
    /\ task.phase = "indexing" =>
         /\ \A f \in task.listed \ task.todo : Current(f)
         /\ \A f \in task.todo : task.existing[f] = hashes[f]
    /\ task.phase = "embedding" =>
         /\ \A f \in task.listed \ (task.todo \cup {task.file}) : Current(f)
         /\ \A f \in task.todo : task.existing[f] = hashes[f]
         /\ task.file \notin task.todo
         /\ task.text = disk[task.file]
    /\ task.phase \in {"selecting", "pruning", "forgetting", "querying"} =>
         \A f \in task.listed : Current(f)
    /\ task.phase \in {"pruning", "forgetting"} => task.doomed \cap task.listed = {}
    /\ task.phase = "forgetting" => task.file \notin task.listed

AloneProgress == \A s \in Searches : search[s].alone => ProgressOf(search[s])

(* The phases that have a file at hand.                                    *)
AtHand ==
    \A s \in Searches :
        search[s].phase \in {"embedding", "forgetting"} => search[s].file \in Files

TextAtHand ==
    \A s \in Searches : search[s].phase = "embedding" => search[s].text \in Versions

Types == TypeOK /\ AtHand /\ TextAtHand

Inv == Types /\ HashHonest /\ UndisturbedIsAlone /\ AloneProgress

-----------------------------------------------------------------------------
(* Types.                                                                  *)

LEMMA CollectedAreFiles == collect_files \subseteq Files
BY DEF collect_files

LEMMA IdleIsATask == Idle \in SearchTask
BY DEF Idle, SearchTask, Phases

(* The initial state has the right types.                                  *)
LEMMA InitTypes == Init => Types
<1> SUFFICES ASSUME Init PROVE Types
  OBVIOUS
<1>1. TypeOK
  BY BoundsAssumption, IdleIsATask DEF Init, TypeOK
<1>2. AtHand /\ TextAtHand
  BY DEF Init, AtHand, TextAtHand, Idle
<1> QED
  BY <1>1, <1>2 DEF Types

(* A step that rewrites the record of one search keeps the types.          *)
LEMMA TaskTyped ==
    ASSUME Types, NEW s \in Searches, NEW task \in SearchTask,
           search' = [search EXCEPT ![s] = task],
           task.phase \in {"embedding", "forgetting"} => task.file \in Files,
           task.phase = "embedding" => task.text \in Versions,
           hashes' \in [Files -> Versions \cup {None}],
           chunks' \in [Files -> Versions \cup {None}],
           UNCHANGED <<disk, edits>>
    PROVE  Types'
<1>1. /\ search'[s] = task
      /\ \A u \in Searches : u # s => search'[u] = search[u]
      /\ search' \in [Searches -> SearchTask]
  BY DEF Types, TypeOK
<1>2. TypeOK'
  BY <1>1 DEF Types, TypeOK
<1>3. AtHand'
  BY <1>1 DEF Types, AtHand
<1>4. TextAtHand'
  BY <1>1 DEF Types, TextAtHand
<1> QED
  BY <1>2, <1>3, <1>4 DEF Types

(* Every step keeps the types.                                             *)
LEMMA NextTypes == Types /\ [Next]_vars => Types'
<1> SUFFICES ASSUME Types, [Next]_vars PROVE Types'
  OBVIOUS
<1>s. ASSUME NEW s \in Searches PROVE search[s] \in SearchTask
  BY DEF Types, TypeOK
<1>1. ASSUME NEW s \in Searches, file_hashes(s) PROVE Types'
  <2> DEFINE task == [search[s] EXCEPT !.phase = "indexing", !.existing = hashes,
                                  !.todo = search[s].listed]
  <2>1. search' = [search EXCEPT ![s] = task]
    BY <1>1, <1>s DEF file_hashes, SearchTask
  <2>2. task \in SearchTask
    BY <1>1, <1>s, ZenonT(60) DEF file_hashes, SearchTask, Phases, Types, TypeOK
  <2>3. /\ hashes' \in [Files -> Versions \cup {None}]
        /\ chunks' \in [Files -> Versions \cup {None}]
        /\ UNCHANGED <<disk, edits>>
    BY <1>1, <1>s DEF file_hashes, Types, TypeOK, AtHand, TextAtHand, SearchTask
  <2>4. /\ task.phase \in {"embedding", "forgetting"} => task.file \in Files
        /\ task.phase = "embedding" => task.text \in Versions
    BY <1>1, <1>s, <2>2 DEF file_hashes, SearchTask, Types, TypeOK
  <2> HIDE DEF task
  <2> QED
    BY <2>1, <2>2, <2>3, <2>4, TaskTyped
<1>2. ASSUME NEW s \in Searches, replace_file(s) PROVE Types'
  <2> DEFINE task == [search[s] EXCEPT !.phase = "indexing", !.file = 0, !.text = None]
  <2>1. search' = [search EXCEPT ![s] = task]
    BY <1>2, <1>s DEF replace_file, SearchTask
  <2>2. task \in SearchTask
    BY <1>2, <1>s, ZenonT(60) DEF replace_file, SearchTask, Phases, Types, TypeOK
  <2>3. /\ hashes' \in [Files -> Versions \cup {None}]
        /\ chunks' \in [Files -> Versions \cup {None}]
        /\ UNCHANGED <<disk, edits>>
    BY <1>2, <1>s DEF replace_file, Types, TypeOK, AtHand, TextAtHand, SearchTask, ChunksOf
  <2>4. /\ task.phase \in {"embedding", "forgetting"} => task.file \in Files
        /\ task.phase = "embedding" => task.text \in Versions
    BY <1>2, <1>s, <2>2 DEF replace_file, SearchTask, Types, TypeOK
  <2> HIDE DEF task
  <2> QED
    BY <2>1, <2>2, <2>3, <2>4, TaskTyped
<1>3. ASSUME NEW s \in Searches, Indexed(s) PROVE Types'
  <2> DEFINE task == [search[s] EXCEPT
                   !.phase = IF search[s].listed = {} THEN "querying" ELSE "selecting",
                   !.existing = [f \in Files |-> None]]
  <2>1. search' = [search EXCEPT ![s] = task]
    BY <1>3, <1>s DEF Indexed, SearchTask
  <2>2. task \in SearchTask
    BY <1>3, <1>s, ZenonT(60) DEF Indexed, SearchTask, Phases, Types, TypeOK
  <2>3. /\ hashes' \in [Files -> Versions \cup {None}]
        /\ chunks' \in [Files -> Versions \cup {None}]
        /\ UNCHANGED <<disk, edits>>
    BY <1>3, <1>s DEF Indexed, Types, TypeOK, AtHand, TextAtHand, SearchTask
  <2>4. /\ task.phase \in {"embedding", "forgetting"} => task.file \in Files
        /\ task.phase = "embedding" => task.text \in Versions
    BY <1>3, <1>s, <2>2 DEF Indexed, SearchTask, Types, TypeOK
  <2> HIDE DEF task
  <2> QED
    BY <2>1, <2>2, <2>3, <2>4, TaskTyped
<1>4. ASSUME NEW s \in Searches, SelectStored(s) PROVE Types'
  <2> DEFINE task == [search[s] EXCEPT !.phase = "pruning",
                   !.doomed = {f \in Files : hashes[f] # None} \ search[s].listed]
  <2>1. search' = [search EXCEPT ![s] = task]
    BY <1>4, <1>s DEF SelectStored, SearchTask
  <2>2. task \in SearchTask
    BY <1>4, <1>s, ZenonT(60) DEF SelectStored, SearchTask, Phases, Types, TypeOK
  <2>3. /\ hashes' \in [Files -> Versions \cup {None}]
        /\ chunks' \in [Files -> Versions \cup {None}]
        /\ UNCHANGED <<disk, edits>>
    BY <1>4, <1>s DEF SelectStored, Types, TypeOK, AtHand, TextAtHand, SearchTask
  <2>4. /\ task.phase \in {"embedding", "forgetting"} => task.file \in Files
        /\ task.phase = "embedding" => task.text \in Versions
    BY <1>4, <1>s, <2>2 DEF SelectStored, SearchTask, Types, TypeOK
  <2> HIDE DEF task
  <2> QED
    BY <2>1, <2>2, <2>3, <2>4, TaskTyped
<1>5. ASSUME NEW s \in Searches, DeleteFile(s) PROVE Types'
  <2> DEFINE task == [search[s] EXCEPT !.phase = "pruning", !.file = 0]
  <2>1. search' = [search EXCEPT ![s] = task]
    BY <1>5, <1>s DEF DeleteFile, SearchTask
  <2>2. task \in SearchTask
    BY <1>5, <1>s, ZenonT(60) DEF DeleteFile, SearchTask, Phases, Types, TypeOK
  <2>3. /\ hashes' \in [Files -> Versions \cup {None}]
        /\ chunks' \in [Files -> Versions \cup {None}]
        /\ UNCHANGED <<disk, edits>>
    BY <1>5, <1>s DEF DeleteFile, Types, TypeOK, AtHand, TextAtHand, SearchTask
  <2>4. /\ task.phase \in {"embedding", "forgetting"} => task.file \in Files
        /\ task.phase = "embedding" => task.text \in Versions
    BY <1>5, <1>s, <2>2 DEF DeleteFile, SearchTask, Types, TypeOK
  <2> HIDE DEF task
  <2> QED
    BY <2>1, <2>2, <2>3, <2>4, TaskTyped
<1>6. ASSUME NEW s \in Searches, Pruned(s) PROVE Types'
  <2> DEFINE task == [search[s] EXCEPT !.phase = "querying"]
  <2>1. search' = [search EXCEPT ![s] = task]
    BY <1>6, <1>s DEF Pruned, SearchTask
  <2>2. task \in SearchTask
    BY <1>6, <1>s, ZenonT(60) DEF Pruned, SearchTask, Phases, Types, TypeOK
  <2>3. /\ hashes' \in [Files -> Versions \cup {None}]
        /\ chunks' \in [Files -> Versions \cup {None}]
        /\ UNCHANGED <<disk, edits>>
    BY <1>6, <1>s DEF Pruned, Types, TypeOK, AtHand, TextAtHand, SearchTask
  <2>4. /\ task.phase \in {"embedding", "forgetting"} => task.file \in Files
        /\ task.phase = "embedding" => task.text \in Versions
    BY <1>6, <1>s, <2>2 DEF Pruned, SearchTask, Types, TypeOK
  <2> HIDE DEF task
  <2> QED
    BY <2>1, <2>2, <2>3, <2>4, TaskTyped
<1>7. ASSUME NEW s \in Searches, Query(s) PROVE Types'
  <2> DEFINE task == Idle
  <2>1. search' = [search EXCEPT ![s] = task]
    BY <1>7, <1>s DEF Query, SearchTask
  <2>2. task \in SearchTask /\ task.phase = "idle"
    BY IdleIsATask DEF Idle
  <2>3. /\ hashes' \in [Files -> Versions \cup {None}]
        /\ chunks' \in [Files -> Versions \cup {None}]
        /\ UNCHANGED <<disk, edits>>
    BY <1>7, <1>s DEF Query, Types, TypeOK, AtHand, TextAtHand, SearchTask
  <2>4. /\ task.phase \in {"embedding", "forgetting"} => task.file \in Files
        /\ task.phase = "embedding" => task.text \in Versions
    BY <1>7, <1>s, <2>2 DEF Query, SearchTask, Types, TypeOK
  <2> HIDE DEF task
  <2> QED
    BY <2>1, <2>2, <2>3, <2>4, TaskTyped
<1>8. ASSUME NEW s \in Searches, Fails(s) PROVE Types'
  <2> DEFINE task == Idle
  <2>1. search' = [search EXCEPT ![s] = task]
    BY <1>8, <1>s DEF Fails, SearchTask
  <2>2. task \in SearchTask /\ task.phase = "idle"
    BY IdleIsATask DEF Idle
  <2>3. /\ hashes' \in [Files -> Versions \cup {None}]
        /\ chunks' \in [Files -> Versions \cup {None}]
        /\ UNCHANGED <<disk, edits>>
    BY <1>8, <1>s DEF Fails, Types, TypeOK, AtHand, TextAtHand, SearchTask
  <2>4. /\ task.phase \in {"embedding", "forgetting"} => task.file \in Files
        /\ task.phase = "embedding" => task.text \in Versions
    BY <1>8, <1>s, <2>2 DEF Fails, SearchTask, Types, TypeOK
  <2> HIDE DEF task
  <2> QED
    BY <2>1, <2>2, <2>3, <2>4, TaskTyped
<1>9. ASSUME NEW s \in Searches, NEW f \in Files, Pass(s, f) PROVE Types'
  <2> DEFINE task == [search[s] EXCEPT !.todo = @ \ {f}]
  <2>1. search' = [search EXCEPT ![s] = task]
    BY <1>9, <1>s DEF Pass, IsNext, SearchTask
  <2>2. task \in SearchTask
    BY <1>9, <1>s, SMTT(30) DEF Pass, IsNext, SearchTask, Phases, Types, TypeOK
  <2>3. /\ hashes' \in [Files -> Versions \cup {None}]
        /\ chunks' \in [Files -> Versions \cup {None}]
        /\ UNCHANGED <<disk, edits>>
    BY <1>9, <1>s DEF Pass, Types, TypeOK, AtHand, TextAtHand, SearchTask
  <2>4. /\ task.phase \in {"embedding", "forgetting"} => task.file \in Files
        /\ task.phase = "embedding" => task.text \in Versions
    BY <1>9, <1>s, <2>2 DEF Pass, IsNext, SearchTask, Types, TypeOK
  <2> HIDE DEF task
  <2> QED
    BY <2>1, <2>2, <2>3, <2>4, TaskTyped
<1>10. ASSUME NEW s \in Searches, NEW f \in Files, Read(s, f) PROVE Types'
  <2> DEFINE task == [search[s] EXCEPT !.phase = "embedding", !.todo = @ \ {f},
                                  !.file = f, !.text = disk[f]]
  <2>1. search' = [search EXCEPT ![s] = task]
    BY <1>10, <1>s DEF Read, IsNext, SearchTask
  <2>2. task \in SearchTask
    BY <1>10, <1>s, ZenonT(60) DEF Read, IsNext, SearchTask, Phases, Types, TypeOK
  <2>3. /\ hashes' \in [Files -> Versions \cup {None}]
        /\ chunks' \in [Files -> Versions \cup {None}]
        /\ UNCHANGED <<disk, edits>>
    BY <1>10, <1>s DEF Read, Types, TypeOK, AtHand, TextAtHand, SearchTask
  <2>4. /\ task.phase \in {"embedding", "forgetting"} => task.file \in Files
        /\ task.phase = "embedding" => task.text \in Versions
    BY <1>10, <1>s, <2>2 DEF Read, IsNext, SearchTask, Types, TypeOK
  <2> HIDE DEF task
  <2> QED
    BY <2>1, <2>2, <2>3, <2>4, TaskTyped
<1>11. ASSUME NEW s \in Searches, NEW f \in Files, DeleteChunks(s, f) PROVE Types'
  <2> DEFINE task == [search[s] EXCEPT !.phase = "forgetting", !.file = f,
                                  !.doomed = @ \ {f}]
  <2>1. search' = [search EXCEPT ![s] = task]
    BY <1>11, <1>s DEF DeleteChunks, SearchTask
  <2>2. task \in SearchTask
    BY <1>11, <1>s, ZenonT(60) DEF DeleteChunks, SearchTask, Phases, Types, TypeOK
  <2>3. /\ hashes' \in [Files -> Versions \cup {None}]
        /\ chunks' \in [Files -> Versions \cup {None}]
        /\ UNCHANGED <<disk, edits>>
    BY <1>11, <1>s DEF DeleteChunks, Types, TypeOK, AtHand, TextAtHand, SearchTask
  <2>4. /\ task.phase \in {"embedding", "forgetting"} => task.file \in Files
        /\ task.phase = "embedding" => task.text \in Versions
    BY <1>11, <1>s, <2>2 DEF DeleteChunks, SearchTask, Types, TypeOK
  <2> HIDE DEF task
  <2> QED
    BY <2>1, <2>2, <2>3, <2>4, TaskTyped
<1>12. ASSUME NEW s \in Searches, Begin(s) PROVE Types'
  <2>1. search' \in [Searches -> SearchTask]
    <3>1. [Idle EXCEPT !.phase = "opening", !.listed = collect_files,
                       !.alone = \A r \in Searches : search[r].phase = "idle"]
             \in SearchTask
      BY CollectedAreFiles DEF Idle, SearchTask, Phases
    <3>2. ASSUME NEW u \in Searches PROVE [search[u] EXCEPT !.alone = FALSE] \in SearchTask
      BY <1>s, <3>2 DEF SearchTask
    <3> QED
      BY <1>12, <3>1, <3>2 DEF Begin
  <2>2. ASSUME NEW u \in Searches
        PROVE  /\ u = s => search'[u].phase = "opening"
               /\ u # s => /\ search'[u].phase = search[u].phase
                           /\ search'[u].file = search[u].file
                           /\ search'[u].text = search[u].text
    BY <1>12, <1>s, <2>2 DEF Begin, SearchTask, Idle
  <2>3. UNCHANGED <<disk, hashes, chunks, edits>>
    BY <1>12 DEF Begin
  <2> QED
    BY <2>1, <2>2, <2>3 DEF Types, TypeOK, AtHand, TextAtHand
<1>13. ASSUME NEW f \in Files, NEW c \in Versions \cup {Absent, Unfit}, Edit(f, c)
      PROVE  Types'
  <2>1. ASSUME NEW u \in Searches
        PROVE  /\ [search[u] EXCEPT !.alone = FALSE] \in SearchTask
               /\ search'[u] = [search[u] EXCEPT !.alone = FALSE]
               /\ search'[u].phase = search[u].phase
               /\ search'[u].file = search[u].file
               /\ search'[u].text = search[u].text
    BY <1>13, <1>s, <2>1 DEF Edit, SearchTask
  <2>2. search' \in [Searches -> SearchTask]
    BY <1>13, <2>1 DEF Edit
  <2>3. /\ disk' \in [Files -> Versions \cup {Absent, Unfit}]
        /\ edits' \in 0..MaxEdits
        /\ UNCHANGED <<hashes, chunks>>
    BY BoundsAssumption, <1>13 DEF Edit, Types, TypeOK
  <2> QED
    BY <2>1, <2>2, <2>3 DEF Types, TypeOK, AtHand, TextAtHand
<1>14. CASE UNCHANGED vars
  BY <1>14 DEF vars, Types, TypeOK, AtHand, TextAtHand
<1> QED
  BY <1>1, <1>2, <1>3, <1>4, <1>5, <1>6, <1>7, <1>8, <1>9, <1>10, <1>11, <1>12, <1>13, <1>14 DEF Next, Progress

-----------------------------------------------------------------------------
(* Hashes and undisturbed searches.                                        *)

LEMMA InitInv == Init => Inv
<1> SUFFICES ASSUME Init PROVE Inv
  OBVIOUS
<1>1. HashHonest
  BY DEF Init, HashHonest
<1>2. UndisturbedIsAlone /\ AloneProgress
  BY DEF Init, UndisturbedIsAlone, AloneProgress, Idle
<1> QED
  BY <1>1, <1>2, InitTypes DEF Inv

(* A step of one search under way: any other search is either disturbed or *)
(* not under way.                                                          *)
LEMMA OwnStep ==
    ASSUME Inv, NEW s \in Searches, search[s].phase # "idle",
           \A u \in Searches : u # s => search'[u] = search[u],
           search'[s].alone => search[s].alone /\ ProgressOf(search[s])'
    PROVE  UndisturbedIsAlone' /\ AloneProgress'
<1>1. ASSUME NEW u \in Searches, search'[u].alone PROVE u = s
  BY <1>1 DEF Inv, UndisturbedIsAlone
<1>2. UndisturbedIsAlone'
  BY <1>1 DEF Inv, UndisturbedIsAlone
<1>3. AloneProgress'
  BY <1>1 DEF AloneProgress
<1> QED
  BY <1>2, <1>3

(* A step that leaves the tables alone and ends no deletion.               *)
LEMMA TablesUntouched ==
    ASSUME HashHonest, UNCHANGED <<hashes, chunks>>,
           \A u \in Searches : search[u].phase = "forgetting" =>
               search'[u].phase = "forgetting" /\ search'[u].file = search[u].file
    PROVE  HashHonest'
BY DEF HashHonest

(* While a search is undisturbed and not itself between two deletions, a   *)
(* hash speaks for its chunks without exception.                           *)
LEMMA HashSpeaks ==
    ASSUME Inv, NEW s \in Searches, search[s].alone, search[s].phase # "forgetting",
           NEW f \in Files, hashes[f] # None
    PROVE  chunks[f] = ChunksOf(hashes[f])
BY DEF Inv, HashHonest, UndisturbedIsAlone

(* Every step keeps the invariant.                                         *)
LEMMA NextInv == ASSUME PruneFails = FALSE PROVE Inv /\ [Next]_vars => Inv'
<1> SUFFICES ASSUME Inv, [Next]_vars PROVE Inv'
  OBVIOUS
<1>t. Types /\ Types' /\ HashHonest
  BY NextTypes DEF Inv
<1>s. ASSUME NEW s \in Searches
      PROVE  search[s] \in SearchTask /\ (search[s].alone => ProgressOf(search[s]))
  BY DEF Inv, Types, TypeOK, AloneProgress
<1>1. ASSUME NEW s \in Searches, file_hashes(s) PROVE Inv'
  <2>1. /\ search[s].phase # "idle"
        /\ \A u \in Searches : u # s => search'[u] = search[u]
        /\ search'[s] = [search[s] EXCEPT !.phase = "indexing", !.existing = hashes,
                                    !.todo = search[s].listed]
    BY <1>1, <1>s, <1>t DEF file_hashes, SearchTask, Types, TypeOK
  <2>2. search'[s].alone => search[s].alone /\ ProgressOf(search[s])'
    <3> SUFFICES ASSUME search'[s].alone PROVE search[s].alone /\ ProgressOf(search[s])'
      OBVIOUS
    <3>1. search[s].alone /\ ProgressOf(search[s])
      BY <1>s, <2>1 DEF SearchTask
    <3> QED
      BY <1>1, <1>s, <1>t, <2>1, <3>1 DEF file_hashes, ProgressOf, Current, SearchTask, Types, TypeOK
  <2>3. HashHonest'
    BY <1>1, <1>s, <1>t, <2>1, TablesUntouched DEF file_hashes, SearchTask
  <2>4. UndisturbedIsAlone' /\ AloneProgress'
    BY <2>1, <2>2, OwnStep
  <2> QED
    BY <1>t, <2>3, <2>4 DEF Inv
<1>2. ASSUME NEW s \in Searches, replace_file(s) PROVE Inv'
  <2>1. /\ search[s].phase # "idle"
        /\ \A u \in Searches : u # s => search'[u] = search[u]
        /\ search'[s] = [search[s] EXCEPT !.phase = "indexing", !.file = 0, !.text = None]
    BY <1>2, <1>s, <1>t DEF replace_file, SearchTask, Types, TypeOK
  <2>2. search'[s].alone => search[s].alone /\ ProgressOf(search[s])'
    <3> SUFFICES ASSUME search'[s].alone PROVE search[s].alone /\ ProgressOf(search[s])'
      OBVIOUS
    <3>1. search[s].alone /\ ProgressOf(search[s])
      BY <1>s, <2>1 DEF SearchTask
    <3> QED
      BY <1>2, <1>s, <1>t, <2>1, <3>1, ContentsAssumption DEF replace_file, ProgressOf, Current, SearchTask, Types, TypeOK, AtHand
  <2>3. HashHonest'
    BY <1>2, <1>s, <1>t, <2>1 DEF replace_file, HashHonest, SearchTask, Types, TypeOK, AtHand
  <2>4. UndisturbedIsAlone' /\ AloneProgress'
    BY <2>1, <2>2, OwnStep
  <2> QED
    BY <1>t, <2>3, <2>4 DEF Inv
<1>3. ASSUME NEW s \in Searches, Indexed(s) PROVE Inv'
  <2>1. /\ search[s].phase # "idle"
        /\ \A u \in Searches : u # s => search'[u] = search[u]
        /\ search'[s] = [search[s] EXCEPT
                     !.phase = IF search[s].listed = {} THEN "querying" ELSE "selecting",
                     !.existing = [f \in Files |-> None]]
    BY <1>3, <1>s, <1>t DEF Indexed, SearchTask, Types, TypeOK
  <2>2. search'[s].alone => search[s].alone /\ ProgressOf(search[s])'
    <3> SUFFICES ASSUME search'[s].alone PROVE search[s].alone /\ ProgressOf(search[s])'
      OBVIOUS
    <3>1. search[s].alone /\ ProgressOf(search[s])
      BY <1>s, <2>1 DEF SearchTask
    <3>2. /\ search[s].phase = "indexing" /\ search[s].todo = {}
          /\ UNCHANGED <<disk, chunks>>
      BY <1>3 DEF Indexed
    <3>3. /\ search'[s].phase \in {"querying", "selecting"}
          /\ search'[s].listed = search[s].listed
      BY <1>s, <2>1 DEF SearchTask
    <3>4. \A f \in search[s].listed : Current(f)
      BY <3>1, <3>2 DEF ProgressOf
    <3> QED
      BY <3>1, <3>2, <3>3, <3>4 DEF ProgressOf, Current
  <2>3. HashHonest'
    BY <1>3, <1>s, <1>t, <2>1, TablesUntouched DEF Indexed, SearchTask
  <2>4. UndisturbedIsAlone' /\ AloneProgress'
    BY <2>1, <2>2, OwnStep
  <2> QED
    BY <1>t, <2>3, <2>4 DEF Inv
<1>4. ASSUME NEW s \in Searches, SelectStored(s) PROVE Inv'
  <2>1. /\ search[s].phase # "idle"
        /\ \A u \in Searches : u # s => search'[u] = search[u]
        /\ search'[s] = [search[s] EXCEPT !.phase = "pruning",
                     !.doomed = {f \in Files : hashes[f] # None} \ search[s].listed]
    BY <1>4, <1>s, <1>t DEF SelectStored, SearchTask, Types, TypeOK
  <2>2. search'[s].alone => search[s].alone /\ ProgressOf(search[s])'
    <3> SUFFICES ASSUME search'[s].alone PROVE search[s].alone /\ ProgressOf(search[s])'
      OBVIOUS
    <3>1. search[s].alone /\ ProgressOf(search[s])
      BY <1>s, <2>1 DEF SearchTask
    <3>2. search[s].phase = "selecting" /\ UNCHANGED <<disk, chunks>>
      BY <1>4 DEF SelectStored
    <3>3. /\ search'[s].phase = "pruning"
          /\ search'[s].listed = search[s].listed
          /\ search'[s].doomed \cap search[s].listed = {}
      BY <1>s, <2>1 DEF SearchTask
    <3>4. \A f \in search[s].listed : Current(f)
      BY <3>1, <3>2 DEF ProgressOf
    <3> QED
      BY <3>1, <3>2, <3>3, <3>4 DEF ProgressOf, Current
  <2>3. HashHonest'
    BY <1>4, <1>s, <1>t, <2>1, TablesUntouched DEF SelectStored, SearchTask
  <2>4. UndisturbedIsAlone' /\ AloneProgress'
    BY <2>1, <2>2, OwnStep
  <2> QED
    BY <1>t, <2>3, <2>4 DEF Inv
<1>5. ASSUME NEW s \in Searches, DeleteFile(s) PROVE Inv'
  <2>1. /\ search[s].phase # "idle"
        /\ \A u \in Searches : u # s => search'[u] = search[u]
        /\ search'[s] = [search[s] EXCEPT !.phase = "pruning", !.file = 0]
    BY <1>5, <1>s, <1>t DEF DeleteFile, SearchTask, Types, TypeOK
  <2>2. search'[s].alone => search[s].alone /\ ProgressOf(search[s])'
    <3> SUFFICES ASSUME search'[s].alone PROVE search[s].alone /\ ProgressOf(search[s])'
      OBVIOUS
    <3>1. search[s].alone /\ ProgressOf(search[s])
      BY <1>s, <2>1 DEF SearchTask
    <3> QED
      BY <1>5, <1>s, <1>t, <2>1, <3>1 DEF DeleteFile, ProgressOf, Current, SearchTask, Types, TypeOK
  <2>3. HashHonest'
    <3>1. /\ search[s].phase = "forgetting" /\ search[s].file \in Files
          /\ hashes'[search[s].file] = None
          /\ \A f \in Files : f # search[s].file => hashes'[f] = hashes[f]
          /\ chunks' = chunks
      BY <1>5, <1>t DEF DeleteFile, Types, TypeOK, AtHand
    <3>2. ASSUME NEW f \in Files, f # search[s].file, NEW u \in Searches,
                 search[u].phase = "forgetting", search[u].file = f
          PROVE  search'[u].phase = "forgetting" /\ search'[u].file = f
      BY <2>1, <3>2
    <3> QED
      BY <1>t, <3>1, <3>2 DEF HashHonest
  <2>4. UndisturbedIsAlone' /\ AloneProgress'
    BY <2>1, <2>2, OwnStep
  <2> QED
    BY <1>t, <2>3, <2>4 DEF Inv
<1>6. ASSUME NEW s \in Searches, Pruned(s) PROVE Inv'
  <2>1. /\ search[s].phase # "idle"
        /\ \A u \in Searches : u # s => search'[u] = search[u]
        /\ search'[s] = [search[s] EXCEPT !.phase = "querying"]
    BY <1>6, <1>s, <1>t DEF Pruned, SearchTask, Types, TypeOK
  <2>2. search'[s].alone => search[s].alone /\ ProgressOf(search[s])'
    <3> SUFFICES ASSUME search'[s].alone PROVE search[s].alone /\ ProgressOf(search[s])'
      OBVIOUS
    <3>1. search[s].alone /\ ProgressOf(search[s])
      BY <1>s, <2>1 DEF SearchTask
    <3> QED
      BY <1>6, <1>s, <1>t, <2>1, <3>1 DEF Pruned, ProgressOf, Current, SearchTask, Types, TypeOK
  <2>3. HashHonest'
    BY <1>6, <1>s, <1>t, <2>1, TablesUntouched DEF Pruned, SearchTask
  <2>4. UndisturbedIsAlone' /\ AloneProgress'
    BY <2>1, <2>2, OwnStep
  <2> QED
    BY <1>t, <2>3, <2>4 DEF Inv
<1>7. ASSUME NEW s \in Searches, Query(s) PROVE Inv'
  <2>1. /\ search[s].phase # "idle"
        /\ \A u \in Searches : u # s => search'[u] = search[u]
        /\ search'[s] = Idle
    BY <1>7, <1>s, <1>t DEF Query, SearchTask, Types, TypeOK
  <2>2. ~search'[s].alone
    BY <2>1 DEF Idle
  <2>3. HashHonest'
    BY <1>7, <1>s, <1>t, <2>1, TablesUntouched DEF Query, SearchTask
  <2>4. UndisturbedIsAlone' /\ AloneProgress'
    BY <2>1, <2>2, OwnStep
  <2> QED
    BY <1>t, <2>3, <2>4 DEF Inv
<1>8. ASSUME NEW s \in Searches, Fails(s) PROVE Inv'
  <2>1. /\ search[s].phase # "idle"
        /\ \A u \in Searches : u # s => search'[u] = search[u]
        /\ search'[s] = Idle
    BY <1>8, <1>s, <1>t DEF Fails, SearchTask, Types, TypeOK
  <2>2. ~search'[s].alone
    BY <2>1 DEF Idle
  <2>3. HashHonest'
    BY <1>8, <1>s, <1>t, <2>1, TablesUntouched DEF Fails, SearchTask
  <2>4. UndisturbedIsAlone' /\ AloneProgress'
    BY <2>1, <2>2, OwnStep
  <2> QED
    BY <1>t, <2>3, <2>4 DEF Inv
<1>9. ASSUME NEW s \in Searches, NEW f \in Files, Pass(s, f) PROVE Inv'
  <2>1. /\ search[s].phase # "idle"
        /\ \A u \in Searches : u # s => search'[u] = search[u]
        /\ search'[s] = [search[s] EXCEPT !.todo = @ \ {f}]
    BY <1>9, <1>s, <1>t DEF Pass, IsNext, SearchTask, Types, TypeOK
  <2>2. search'[s].alone => search[s].alone /\ ProgressOf(search[s])'
    <3> SUFFICES ASSUME search'[s].alone PROVE search[s].alone /\ ProgressOf(search[s])'
      OBVIOUS
    <3>1. search[s].alone /\ ProgressOf(search[s])
      BY <1>s, <2>1 DEF SearchTask
    <3> QED
      BY <1>9, <1>s, <1>t, <2>1, <3>1, HashSpeaks, ContentsAssumption DEF Pass, IsNext, ProgressOf, Current, SearchTask, Types, TypeOK
  <2>3. HashHonest'
    BY <1>9, <1>s, <1>t, <2>1, TablesUntouched DEF Pass, IsNext, SearchTask
  <2>4. UndisturbedIsAlone' /\ AloneProgress'
    BY <2>1, <2>2, OwnStep
  <2> QED
    BY <1>t, <2>3, <2>4 DEF Inv
<1>10. ASSUME NEW s \in Searches, NEW f \in Files, Read(s, f) PROVE Inv'
  <2>1. /\ search[s].phase # "idle"
        /\ \A u \in Searches : u # s => search'[u] = search[u]
        /\ search'[s] = [search[s] EXCEPT !.phase = "embedding", !.todo = @ \ {f},
                                    !.file = f, !.text = disk[f]]
    BY <1>10, <1>s, <1>t DEF Read, IsNext, SearchTask, Types, TypeOK
  <2>2. search'[s].alone => search[s].alone /\ ProgressOf(search[s])'
    <3> SUFFICES ASSUME search'[s].alone PROVE search[s].alone /\ ProgressOf(search[s])'
      OBVIOUS
    <3>1. search[s].alone /\ ProgressOf(search[s])
      BY <1>s, <2>1 DEF SearchTask
    <3> QED
      BY <1>10, <1>s, <1>t, <2>1, <3>1 DEF Read, IsNext, ProgressOf, Current, SearchTask, Types, TypeOK
  <2>3. HashHonest'
    BY <1>10, <1>s, <1>t, <2>1, TablesUntouched DEF Read, IsNext, SearchTask
  <2>4. UndisturbedIsAlone' /\ AloneProgress'
    BY <2>1, <2>2, OwnStep
  <2> QED
    BY <1>t, <2>3, <2>4 DEF Inv
<1>11. ASSUME NEW s \in Searches, NEW f \in Files, DeleteChunks(s, f) PROVE Inv'
  <2>1. /\ search[s].phase # "idle"
        /\ \A u \in Searches : u # s => search'[u] = search[u]
        /\ search'[s] = [search[s] EXCEPT !.phase = "forgetting", !.file = f,
                                    !.doomed = @ \ {f}]
    BY <1>11, <1>s, <1>t DEF DeleteChunks, SearchTask, Types, TypeOK
  <2>2. search'[s].alone => search[s].alone /\ ProgressOf(search[s])'
    <3> SUFFICES ASSUME search'[s].alone PROVE search[s].alone /\ ProgressOf(search[s])'
      OBVIOUS
    <3>1. search[s].alone /\ ProgressOf(search[s])
      BY <1>s, <2>1 DEF SearchTask
    <3> QED
      BY <1>11, <1>s, <1>t, <2>1, <3>1 DEF DeleteChunks, ProgressOf, Current, SearchTask, Types, TypeOK
  <2>3. HashHonest'
    BY <1>11, <1>s, <1>t, <2>1 DEF DeleteChunks, HashHonest, SearchTask, Types, TypeOK, AtHand
  <2>4. UndisturbedIsAlone' /\ AloneProgress'
    BY <2>1, <2>2, OwnStep
  <2> QED
    BY <1>t, <2>3, <2>4 DEF Inv
<1>12. ASSUME NEW s \in Searches, Begin(s) PROVE Inv'
  <2>1. /\ search'[s].phase = "opening"
        /\ search'[s].alone = (\A r \in Searches : search[r].phase = "idle")
        /\ \A u \in Searches : u # s =>
             /\ ~search'[u].alone
             /\ search'[u].phase = search[u].phase
             /\ search'[u].file = search[u].file
    BY <1>12, <1>s DEF Begin, SearchTask, Idle
  <2>2. HashHonest'
    BY <1>12, <1>t, <2>1, TablesUntouched DEF Begin
  <2>3. UndisturbedIsAlone'
    BY <2>1 DEF UndisturbedIsAlone
  <2>4. AloneProgress'
    BY <2>1 DEF AloneProgress, ProgressOf
  <2> QED
    BY <1>t, <2>2, <2>3, <2>4 DEF Inv
<1>13. ASSUME NEW f \in Files, NEW c \in Versions \cup {Absent, Unfit}, Edit(f, c)
      PROVE  Inv'
  <2>1. \A u \in Searches : /\ ~search'[u].alone
                            /\ search'[u].phase = search[u].phase
                            /\ search'[u].file = search[u].file
    BY <1>13, <1>s DEF Edit, SearchTask
  <2>2. HashHonest'
    BY <1>13, <1>t, <2>1, TablesUntouched DEF Edit
  <2> QED
    BY <1>t, <2>1, <2>2 DEF Inv, UndisturbedIsAlone, AloneProgress
<1>14. CASE UNCHANGED vars
  <2>1. HashHonest' /\ UndisturbedIsAlone'
    BY <1>14 DEF vars, Inv, HashHonest, UndisturbedIsAlone
  <2>2. AloneProgress'
    BY <1>14 DEF vars, Inv, AloneProgress, ProgressOf, Current
  <2> QED
    BY <1>t, <2>1, <2>2 DEF Inv
<1> QED
  BY <1>1, <1>2, <1>3, <1>4, <1>5, <1>6, <1>7, <1>8, <1>9, <1>10, <1>11, <1>12, <1>13, <1>14 DEF Next, Progress

-----------------------------------------------------------------------------
(* TypeOK holds of the index, its searches and the files, whatever fails.  *)
THEOREM TypeCorrect == Spec => []TypeOK
<1>1. Types => TypeOK
  BY DEF Types
<1> QED
  BY <1>1, InitTypes, NextTypes, PTL DEF Spec

(* HashHonest: in every store that replace_file and prune_missing of any   *)
(* number of overlapping searches leave, a hash that a later search would  *)
(* trust was stored with the chunks that are there.                        *)
THEOREM HashHonestCorrect == ASSUME PruneFails = FALSE PROVE Spec => []HashHonest
<1>1. Inv => HashHonest
  BY DEF Inv
<1> QED
  BY <1>1, InitInv, NextInv, PTL DEF Spec

(* AloneComplete: whatever the searches before it left behind, a search    *)
(* that neither another search nor an edit disturbs brings every file it   *)
(* lists up to date before it queries.                                     *)
THEOREM AloneCompleteCorrect == ASSUME PruneFails = FALSE PROVE Spec => []AloneComplete
<1>1. Inv => AloneComplete
  BY DEF Inv, AloneProgress, ProgressOf, Current, AloneComplete
<1> QED
  BY <1>1, InitInv, NextInv, PTL DEF Spec
=============================================================================
