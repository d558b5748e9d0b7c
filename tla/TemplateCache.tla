---------------------------- MODULE TemplateCache ----------------------------
(***************************************************************************)
(* cache_rec_manager (core/recmanager.cpp): events merge templates, others *)
(* flush the cache, files come and change.  A merge goes on under the lock *)
(* it began under.  The read-write lock (scopira's) lets readers in unless *)
(* somebody writes.                                                        *)
(***************************************************************************)
EXTENDS Integers, Sequences

CONSTANTS
  Mergers, NoMerger,      \* threads that merge templates or flush the cache
  Files, Directories,     \* templates; the number of directories, searched in order
  MaxChanges, MaxFlushes  \* bounds on what happens to the files and the cache

TemplateCacheAssumption ==
  NoMerger \notin Mergers /\ {Directories, MaxChanges, MaxFlushes} \subseteq Nat

VARIABLES
  disk,     \* the files in each directory
  changes,  \* number of changes of the disk
  readers, writer,  \* m_cacherw
  cache,    \* m_cache, token trees by file; those in it are alive
  job,      \* what each thread is in
  flushes,  \* history: number of flushes, and
  flushed,  \* the changes there had been at the last
  loads     \* history: how often each file was loaded since

templatevars == <<disk, changes, readers, writer, cache, job, flushes, flushed, loads>>

NoTree == [file |-> "none"]
Idle == [at |-> "idle"]

TemplateCacheInit ==
  /\ disk = [d \in 1 .. Directories |-> {}] /\ changes = 0
  /\ readers = {} /\ writer = NoMerger
  /\ cache = [f \in Files |-> NoTree]
  /\ job = [t \in Mergers |-> Idle]
  /\ flushes = 0 /\ flushed = 0 /\ loads = [f \in Files |-> 0]

\* find_token_tree: the first directory that has the file.  A tree is told from others by
\* its file and the state of the disk and the number of flushes when it was made.
FindTokenTree(f) ==
  IF \E d \in DOMAIN disk : f \in disk[d]
  THEN [file |-> f, made |-> changes, era |-> flushes,
        from |-> CHOOSE d \in DOMAIN disk : f \in disk[d] /\ \A e \in 1 .. d - 1 : f \notin disk[e]]
  ELSE NoTree

Merge(at, f, since, tree) == [at |-> at, file |-> f, since |-> since, tree |-> tree]
GoesOn(merge, at, tree) == Merge(at, merge.file, merge.since, tree)

MergeTemplate(t, f) ==
  /\ job[t] = Idle
  /\ job' = [job EXCEPT ![t] = Merge("lookup", f, flushed, NoTree)]
  /\ UNCHANGED <<disk, changes, readers, writer, cache, flushes, flushed, loads>>

(* Mutant: the read lock is held for the look-up alone. *)
LookUpUnlocked(t) ==
  /\ job[t].at = "lookup" /\ writer = NoMerger
  /\ LET tree == cache[job[t].file] IN
     job' = [job EXCEPT ![t] = GoesOn(@, IF tree = NoTree THEN "miss" ELSE "merging", tree)]
  /\ UNCHANGED <<disk, changes, readers, writer, cache, flushes, flushed, loads>>

\* The look-up under the read lock, which a hit keeps.
LookUp(t) ==
  /\ job[t].at = "lookup" /\ writer = NoMerger
  /\ LET tree == cache[job[t].file] IN
     /\ job' = [job EXCEPT ![t] = GoesOn(@, IF tree = NoTree THEN "miss" ELSE "merging", tree)]
     /\ readers' = IF tree = NoTree THEN readers ELSE readers \cup {t}
  /\ UNCHANGED <<disk, changes, writer, cache, flushes, flushed, loads>>

\* The write lock after a miss: another look, the file, the merge.
Load(t) ==
  /\ job[t].at = "miss" /\ writer = NoMerger /\ readers = {}
  /\ LET f == job[t].file
         found == IF cache[f] # NoTree THEN cache[f] ELSE FindTokenTree(f) IN
     /\ cache' = IF found = NoTree THEN cache ELSE [cache EXCEPT ![f] = found]
     /\ loads' = IF found # NoTree /\ cache[f] = NoTree THEN [loads EXCEPT ![f] = @ + 1] ELSE loads
     /\ job' = [job EXCEPT ![t] = IF found = NoTree THEN Idle ELSE GoesOn(@, "merging", found)]
     /\ writer' = IF found = NoTree THEN NoMerger ELSE t
  /\ UNCHANGED <<disk, changes, readers, flushes, flushed>>

MergeEnds(t) ==
  /\ job[t].at = "merging"
  /\ job' = [job EXCEPT ![t] = Idle]
  /\ readers' = readers \ {t}
  /\ writer' = IF writer = t THEN NoMerger ELSE writer
  /\ UNCHANGED <<disk, changes, cache, flushes, flushed, loads>>

\* flush, which deletes the trees.
Flush(t) ==
  /\ job[t] = Idle /\ writer = NoMerger /\ readers = {}
  /\ flushes < MaxFlushes
  /\ cache' = [f \in Files |-> NoTree]
  /\ flushes' = flushes + 1 /\ flushed' = changes
  /\ loads' = [f \in Files |-> 0]
  /\ UNCHANGED <<disk, changes, readers, writer, job>>

\* A file is written, in place or anew, or removed.
FileChanges ==
  /\ changes < MaxChanges
  /\ \E d \in DOMAIN disk, f \in Files :
       disk' \in {[disk EXCEPT ![d] = @ \cup {f}], [disk EXCEPT ![d] = @ \ {f}]}
  /\ changes' = changes + 1
  /\ UNCHANGED <<readers, writer, cache, job, flushes, flushed, loads>>

TemplateCacheNext ==
  \/ FileChanges
  \/ \E t \in Mergers :
       \/ \E f \in Files : MergeTemplate(t, f)
       \/ LookUp(t) \/ Load(t) \/ MergeEnds(t) \/ Flush(t)

TemplateCacheSpec == TemplateCacheInit /\ [][TemplateCacheNext]_templatevars

-----------------------------------------------------------------------------
\* A template that is being merged is in the cache all the while, so that nobody deletes
\* it, is the one that was asked for, and was read no earlier than the last flush before the
\* merge was asked for; and between two flushes a file is read once, however many events
\* miss it at a time.
TemplatesStay ==
  /\ \A t \in Mergers : job[t].at = "merging" =>
       /\ cache[job[t].file] = job[t].tree
       /\ job[t].tree.file = job[t].file
       /\ job[t].tree.made >= job[t].since
  /\ \A f \in Files : loads[f] <= 1
=============================================================================
