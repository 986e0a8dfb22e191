--------------------------- MODULE RetrievalIndex ---------------------------
(***************************************************************************)
(* The semantic search of one project: every search first brings a shared  *)
(* index up to date, file by file, and then queries it.                    *)
(*                                                                         *)
(* Source: crates/paddleboard_rag/src/paddleboard_rag.rs (search,          *)
(* collect_files, index_and_search) and store.rs (LocalStore, the default  *)
(* store: two SQLite tables that all searches of all windows share).  Only *)
(* replace_file is a transaction, so searches that overlap meet each       *)
(* other's half-done work, and files change while they are indexed.        *)
(*                                                                         *)
(* One worktree root is modelled.  The text of a file is a version, which  *)
(* also stands for its hash and for the chunks and embeddings made of it.  *)
(***************************************************************************)
EXTENDS Integers, FiniteSets

CONSTANTS
    FileCount,   \* the paths of the worktree, in its order
    Versions,    \* what a file may contain
    Blank,       \* the versions that have no chunk, white space only
    None,        \* no row
    Absent,      \* there is no such file
    Unfit,       \* too large, not UTF-8, or not readable
    Searches,    \* the semantic_search calls that can be under way at once
    MaxFiles,    \* MAX_FILES
    MaxEdits,    \* bound: changes of files
    PruneFails   \* may a search end between the two deletions of a prune?

Files == 1..FileCount

ASSUME ContentsAssumption ==
    /\ Blank \subseteq Versions
    /\ {None, Absent, Unfit} \cap Versions = {}
    /\ None \notin {Absent, Unfit}

ASSUME BoundsAssumption ==
    FileCount \in Nat /\ MaxFiles \in Nat /\ MaxEdits \in Nat /\ PruneFails \in BOOLEAN

VARIABLES
    disk,    \* the files
    hashes,  \* rag_files: the content_hash of a file, or None
    chunks,  \* rag_chunks: the version whose chunks are stored, or None
    search,  \* the searches
    edits    \* changes of files so far

vars == <<disk, hashes, chunks, search, edits>>

Phases == {"idle", "opening", "indexing", "embedding", "selecting", "pruning",
           "forgetting", "querying"}
SearchTask ==
    [phase    : Phases,
     listed   : SUBSET Files,                    \* the files, and `present`
     todo     : SUBSET Files,                    \* files still to look at
     existing : [Files -> Versions \cup {None}], \* file_hashes
     file     : Files \cup {0},                  \* the file at hand
     text     : Versions \cup {None},            \* its text, as it was read
     doomed   : SUBSET Files,                    \* stored, and not present
     alone    : BOOLEAN]   \* ghost: no other search and no edit since it began

Idle == [phase |-> "idle", listed |-> {}, todo |-> {},
         existing |-> [f \in Files |-> None], file |-> 0, text |-> None,
         doomed |-> {}, alone |-> FALSE]

Init ==
    /\ disk \in [Files -> Versions \cup {Absent}]
    /\ hashes = [f \in Files |-> None]
    /\ chunks = [f \in Files |-> None]
    /\ search = [s \in Searches |-> Idle]
    /\ edits = 0

-----------------------------------------------------------------------------
ChunksOf(v) == IF v \in Blank THEN None ELSE v

(* A file is created, changed, removed, or grows too large.                *)
Edit(f, content) ==
    /\ edits < MaxEdits
    /\ content # disk[f]
    /\ edits' = edits + 1
    /\ disk' = [disk EXCEPT ![f] = content]
    /\ search' = [s \in Searches |-> [search[s] EXCEPT !.alone = FALSE]]
    /\ UNCHANGED <<hashes, chunks>>

(* The first MAX_FILES of the files there are.                             *)
collect_files ==
    LET there == {f \in Files : disk[f] # Absent}
    IN  {f \in there : Cardinality({g \in there : g < f}) < MaxFiles}

Begin(s) ==
    /\ search[s].phase = "idle"
    /\ search' = [u \in Searches |->
         IF u = s
         THEN [Idle EXCEPT !.phase = "opening", !.listed = collect_files,
                           !.alone = \A r \in Searches : search[r].phase = "idle"]
         ELSE [search[u] EXCEPT !.alone = FALSE]]
    /\ UNCHANGED <<disk, hashes, chunks, edits>>

file_hashes(s) ==
    /\ search[s].phase = "opening"
    /\ search' = [search EXCEPT ![s] = [@ EXCEPT !.phase = "indexing", !.existing = hashes,
                                                 !.todo = search[s].listed]]
    /\ UNCHANGED <<disk, hashes, chunks, edits>>

IsNext(s, f) ==
    /\ search[s].phase = "indexing"
    /\ f \in search[s].todo
    /\ \A g \in search[s].todo : f <= g

(* Mutant: any stored hash will do. *)
PassAnyHash(s, f) ==
    /\ IsNext(s, f)
    /\ disk[f] \in {Absent, Unfit} \/ search[s].existing[f] # None
    /\ search' = [search EXCEPT ![s].todo = @ \ {f}]
    /\ UNCHANGED <<disk, hashes, chunks, edits>>

(* Mutant: a file that another search is at is left to that search. *)
PassTaken(s, f) ==
    /\ IsNext(s, f)
    /\ \/ disk[f] \in {Absent, Unfit, search[s].existing[f]}
       \/ \E u \in Searches \ {s} : search[u].phase = "embedding" /\ search[u].file = f
    /\ search' = [search EXCEPT ![s].todo = @ \ {f}]
    /\ UNCHANGED <<disk, hashes, chunks, edits>>

(* The file is gone or unfit by now, or its hash is the one stored.        *)
Pass(s, f) ==
    /\ IsNext(s, f)
    /\ disk[f] \in {Absent, Unfit, search[s].existing[f]}
    /\ search' = [search EXCEPT ![s].todo = @ \ {f}]
    /\ UNCHANGED <<disk, hashes, chunks, edits>>

(* Mutant: what cannot be read as text is indexed as well. *)
ReadUnfit(s, f) ==
    /\ IsNext(s, f)
    /\ disk[f] \notin {Absent, search[s].existing[f]}
    /\ search' = [search EXCEPT ![s] = [@ EXCEPT !.phase = "embedding",
                                                 !.todo = search[s].todo \ {f},
                                                 !.file = f, !.text = disk[f]]]
    /\ UNCHANGED <<disk, hashes, chunks, edits>>

(* The text is read; its chunks go to the embedding server.                *)
Read(s, f) ==
    /\ IsNext(s, f)
    /\ disk[f] \notin {Absent, Unfit, search[s].existing[f]}
    /\ search' = [search EXCEPT ![s] = [@ EXCEPT !.phase = "embedding",
                                                 !.todo = search[s].todo \ {f},
                                                 !.file = f, !.text = disk[f]]]
    /\ UNCHANGED <<disk, hashes, chunks, edits>>

(* Mutant: the hash of the file as it is now is stored with the chunks. *)
replace_fileRehashed(s) ==
    /\ search[s].phase = "embedding"
    /\ hashes' = [hashes EXCEPT ![search[s].file] =
                    IF disk[search[s].file] \in Versions THEN disk[search[s].file]
                    ELSE search[s].text]
    /\ chunks' = [chunks EXCEPT ![search[s].file] = ChunksOf(search[s].text)]
    /\ search' = [search EXCEPT ![s] = [@ EXCEPT !.phase = "indexing",
                                                 !.file = 0, !.text = None]]
    /\ UNCHANGED <<disk, edits>>

(* Delete the file's chunks, store its hash, insert its chunks: one        *)
(* transaction.                                                            *)
replace_file(s) ==
    /\ search[s].phase = "embedding"
    /\ hashes' = [hashes EXCEPT ![search[s].file] = search[s].text]
    /\ chunks' = [chunks EXCEPT ![search[s].file] = ChunksOf(search[s].text)]
    /\ search' = [search EXCEPT ![s] = [@ EXCEPT !.phase = "indexing",
                                                 !.file = 0, !.text = None]]
    /\ UNCHANGED <<disk, edits>>

(* A root none of whose files is listed is neither pruned nor searched.    *)
Indexed(s) ==
    /\ search[s].phase = "indexing"
    /\ search[s].todo = {}
    /\ search' = [search EXCEPT
         ![s] = [@ EXCEPT !.phase = IF search[s].listed = {} THEN "querying" ELSE "selecting",
                          !.existing = [f \in Files |-> None]]]
    /\ UNCHANGED <<disk, hashes, chunks, edits>>

-----------------------------------------------------------------------------
(* prune_missing.                                                          *)

SelectStored(s) ==
    /\ search[s].phase = "selecting"
    /\ search' = [search EXCEPT ![s] = [@ EXCEPT !.phase = "pruning",
         !.doomed = {f \in Files : hashes[f] # None} \ search[s].listed]]
    /\ UNCHANGED <<disk, hashes, chunks, edits>>

DeleteChunks(s, f) ==
    /\ search[s].phase = "pruning"
    /\ f \in search[s].doomed
    /\ chunks' = [chunks EXCEPT ![f] = None]
    /\ search' = [search EXCEPT ![s] = [@ EXCEPT !.phase = "forgetting", !.file = f,
                                                 !.doomed = search[s].doomed \ {f}]]
    /\ UNCHANGED <<disk, hashes, edits>>

DeleteFile(s) ==
    /\ search[s].phase = "forgetting"
    /\ hashes' = [hashes EXCEPT ![search[s].file] = None]
    /\ search' = [search EXCEPT ![s] = [@ EXCEPT !.phase = "pruning", !.file = 0]]
    /\ UNCHANGED <<disk, chunks, edits>>

Pruned(s) ==
    /\ search[s].phase = "pruning"
    /\ search[s].doomed = {}
    /\ search' = [search EXCEPT ![s].phase = "querying"]
    /\ UNCHANGED <<disk, hashes, chunks, edits>>

(* The query's own embedding, and the hits: every chunk there is.          *)
Query(s) ==
    /\ search[s].phase = "querying"
    /\ search' = [search EXCEPT ![s] = Idle]
    /\ UNCHANGED <<disk, hashes, chunks, edits>>

(* An error of the embedding server or of the store, or a tool call that   *)
(* was cancelled, or the end of the process.                               *)
Fails(s) ==
    /\ search[s].phase # "idle"
    /\ search[s].phase = "forgetting" => PruneFails
    /\ search' = [search EXCEPT ![s] = Idle]
    /\ UNCHANGED <<disk, hashes, chunks, edits>>

-----------------------------------------------------------------------------
Progress(s) ==
    \/ file_hashes(s) \/ replace_file(s) \/ Indexed(s)
    \/ SelectStored(s) \/ DeleteFile(s) \/ Pruned(s) \/ Query(s)
    \/ \E f \in Files : Pass(s, f) \/ Read(s, f) \/ DeleteChunks(s, f)

Next ==
    \/ \E s \in Searches : Begin(s) \/ Progress(s) \/ Fails(s)
    \/ \E f \in Files, c \in Versions \cup {Absent, Unfit} : Edit(f, c)

Spec == Init /\ [][Next]_vars

(* A search that has begun is not abandoned by the executor; it may fail,  *)
(* and nothing makes anyone search.                                        *)
FairSpec == Spec /\ \A s \in Searches : WF_vars(Progress(s))

-----------------------------------------------------------------------------
TypeOK ==
    /\ disk \in [Files -> Versions \cup {Absent, Unfit}]
    /\ hashes \in [Files -> Versions \cup {None}]
    /\ chunks \in [Files -> Versions \cup {None}]
    /\ search \in [Searches -> SearchTask]
    /\ edits \in 0..MaxEdits

(* "Indexing is incremental (keyed on a per-file content hash)": a stored  *)
(* hash speaks for the chunks that are stored, whoever wrote them, except  *)
(* between the two deletions of a prune.  A hash that lies is for ever: it *)
(* keeps every later search from indexing the file.                        *)
HashHonest ==
    \A f \in Files :
        \/ hashes[f] = None
        \/ chunks[f] = ChunksOf(hashes[f])
        \/ \E s \in Searches : search[s].phase = "forgetting" /\ search[s].file = f

(* Whatever searches that overlapped, failed or indexed files in mid-edit  *)
(* left behind, a search during which nothing else happens answers from    *)
(* the present content of every file it lists and can read.                *)
AloneComplete ==
    \A s \in Searches :
        search[s].phase = "querying" /\ search[s].alone =>
            \A f \in search[s].listed :
                disk[f] \in Versions => chunks[f] = ChunksOf(disk[f])

(* Once files stop changing the index becomes current and stays so, if     *)
(* searches go on being answered, however they overlap.                    *)
IndexCurrent ==
    \A f \in collect_files :
        disk[f] \in Versions => hashes[f] = disk[f] /\ chunks[f] = ChunksOf(disk[f])
Converges == []<><<\E s \in Searches : Query(s)>>_vars => <>[]IndexCurrent

(* "Delete every file (and its chunks) under `root` whose `rel_path` is    *)
(* not in `present`": a search during which nothing else happens finds     *)
(* nothing of a file it does not list.                                     *)
NoGhosts ==
    \A s \in Searches :
        search[s].phase = "querying" /\ search[s].alone =>
            \A f \in Files \ search[s].listed :
                search[s].listed # {} => chunks[f] = None
=============================================================================
