------------------------------ MODULE PartsProofs ------------------------------
(***************************************************************************)
(* Parts that share nothing with another, each for any value of its        *)
(* constants: the template cache, the ticker thread, the directories that  *)
(* wxmake looks after, a statement with the records made of it, and the    *)
(* mails of an smtp session.                                               *)
(***************************************************************************)
EXTENDS SmtpSession, Statement, TemplateCache, TickManager, WxProject, SequenceTheorems,
        WellFoundedInduction, TLAPS

-----------------------------------------------------------------------------
(* Of TemplateCache. *)

(* A merge is a record of these fields, wherever its token tree comes from. *)
IsMerge(j) ==
  /\ j = Merge(j.at, j.file, j.since, j.tree)
  /\ j.at \in {"lookup", "miss", "merging"} /\ j.file \in Files /\ j.since \in Nat

IsTreeOf(tree, f) == tree # NoTree /\ tree.file = f /\ tree.made \in Nat

TemplateTypeOK ==
  /\ changes \in Nat /\ flushed \in Nat /\ flushed <= changes
  /\ readers \subseteq Mergers /\ writer \in Mergers \cup {NoMerger}
  /\ DOMAIN cache = Files /\ cache = [f \in Files |-> cache[f]]
  /\ \A f \in Files : cache[f] = NoTree \/ IsTreeOf(cache[f], f)
  /\ DOMAIN job = Mergers /\ job = [t \in Mergers |-> job[t]]
  /\ \A t \in Mergers : job[t] = Idle \/ IsMerge(job[t])
  /\ loads \in [Files -> Nat]

(* The lock is held by those who merge and by nobody else: by one who      *)
(* loaded the tree, or by readers that found it.                           *)
LockedWhileMerging ==
  /\ \A t \in Mergers : job[t].at = "merging" <=> (t \in readers \/ t = writer)
  /\ writer # NoMerger => readers = {}

(* What is in the cache was read after the last flush, and loads counts it. *)
CacheIsRecent ==
  \A f \in Files : /\ cache[f] # NoTree => cache[f].made >= flushed
                   /\ loads[f] = IF cache[f] = NoTree THEN 0 ELSE 1

(* No merge was asked for after more changes than the last flush saw. *)
AskedBefore == \A t \in Mergers : job[t] # Idle => job[t].since <= flushed

(* The first half of TemplatesStay, spelt with the tree that is not missing. *)
MergesCached ==
  \A t \in Mergers : job[t].at = "merging" =>
    /\ cache[job[t].file] = job[t].tree
    /\ job[t].tree # NoTree /\ job[t].tree.made >= job[t].since

TemplateInv ==
  TemplateTypeOK /\ LockedWhileMerging /\ CacheIsRecent /\ AskedBefore /\ MergesCached

-----------------------------------------------------------------------------
(* find_token_tree answers with a tree of the file, as the disk is now, or with none. *)
LEMMA FoundTree ==
  ASSUME changes \in Nat, NEW f \in Files
  PROVE  \/ FindTokenTree(f) = NoTree
         \/ IsTreeOf(FindTokenTree(f), f) /\ FindTokenTree(f).made = changes
  <1> DEFINE Tree(d) == [file |-> f, made |-> changes, era |-> flushes, from |-> d]
  <1>1. ASSUME NEW d PROVE Tree(d) # NoTree
    <2>1. "made" \in DOMAIN Tree(d) /\ "made" \notin DOMAIN NoTree
      BY DEF NoTree
    <2>2. QED
      BY <2>1
  <1>2. CASE \E d \in DOMAIN disk : f \in disk[d]
    <2>1. PICK d : FindTokenTree(f) = Tree(d)
      BY <1>2 DEF FindTokenTree
    <2>2. QED
      BY <1>1, <2>1 DEF IsTreeOf
  <1>3. CASE ~ \E d \in DOMAIN disk : f \in disk[d]
    BY <1>3 DEF FindTokenTree
  <1>4. QED
    BY <1>2, <1>3

LEMMA IdleIsNoMerge == ~IsMerge(Idle) /\ Idle.at = "idle"
  BY DEF IsMerge, Merge, Idle

LEMMA TemplateInit ==
  ASSUME TemplateCacheAssumption, TemplateCacheInit
  PROVE  TemplateInv
  BY IdleIsNoMerge
  DEF TemplateCacheAssumption, TemplateCacheInit, TemplateInv, TemplateTypeOK, LockedWhileMerging,
      CacheIsRecent, AskedBefore, MergesCached

(* merge_template begins. *)
LEMMA MergeTemplateKeepsInv ==
  ASSUME TemplateCacheAssumption, TemplateInv, NEW t \in Mergers, NEW f \in Files,
         MergeTemplate(t, f)
  PROVE  TemplateInv'
  <1> DEFINE j == Merge("lookup", f, flushed, NoTree)
  <1> USE DEF TemplateInv
  <1>1. IsMerge(j) /\ j.at = "lookup" /\ j.since = flushed
    BY DEF IsMerge, Merge, TemplateTypeOK
  <1>2. /\ job' = [job EXCEPT ![t] = j] /\ job[t] = Idle
        /\ UNCHANGED <<disk, changes, readers, writer, cache, flushes, flushed, loads>>
    BY DEF MergeTemplate
  <1> HIDE DEF j
  <1>3. TemplateTypeOK'
    BY <1>1, <1>2 DEF TemplateTypeOK, IsMerge, IsTreeOf
  <1>4. LockedWhileMerging' /\ CacheIsRecent'
    BY <1>1, <1>2, IdleIsNoMerge DEF TemplateTypeOK, LockedWhileMerging, CacheIsRecent
  <1>5. AskedBefore' /\ MergesCached'
    BY <1>1, <1>2 DEF TemplateTypeOK, AskedBefore, MergesCached
  <1>6. QED
    BY <1>3, <1>4, <1>5

(* The look-up under the read lock. *)
LEMMA LookUpKeepsInv ==
  ASSUME TemplateCacheAssumption, TemplateInv, NEW t \in Mergers, LookUp(t)
  PROVE  TemplateInv'
  <1> DEFINE f    == job[t].file
             tree == cache[f]
             j    == GoesOn(job[t], IF tree = NoTree THEN "miss" ELSE "merging", tree)
  <1> USE DEF TemplateInv
  <1>1. IsMerge(job[t]) /\ job[t].at = "lookup" /\ f \in Files
    BY IdleIsNoMerge DEF LookUp, TemplateTypeOK, IsMerge
  <1>2. /\ job' = [job EXCEPT ![t] = j] /\ writer = NoMerger
        /\ readers' = IF tree = NoTree THEN readers ELSE readers \cup {t}
        /\ UNCHANGED <<disk, changes, writer, cache, flushes, flushed, loads>>
    BY DEF LookUp
  <1>3. /\ IsMerge(j) /\ j.since = job[t].since /\ j.file = f /\ j.tree = tree
        /\ j.at = "merging" <=> tree # NoTree
    BY <1>1 DEF IsMerge, GoesOn, Merge
  <1>4. job[t].since <= flushed
    BY <1>1, IdleIsNoMerge DEF AskedBefore
  <1>5. tree # NoTree => tree.made >= flushed /\ tree.made \in Nat
    BY <1>1 DEF CacheIsRecent, TemplateTypeOK, IsTreeOf
  <1> HIDE DEF j
  <1>6. TemplateTypeOK'
    BY <1>2, <1>3 DEF TemplateTypeOK, IsMerge, IsTreeOf
  <1>7. LockedWhileMerging' /\ CacheIsRecent'
    BY <1>1, <1>2, <1>3
    DEF TemplateCacheAssumption, TemplateTypeOK, LockedWhileMerging, CacheIsRecent
  <1>8. AskedBefore' /\ MergesCached'
    BY <1>1, <1>2, <1>3, <1>4, <1>5 DEF TemplateTypeOK, IsMerge, AskedBefore, MergesCached
  <1>9. QED
    BY <1>6, <1>7, <1>8

(* The second look-up, under the write lock, and the load. *)
LEMMA LoadKeepsInv ==
  ASSUME TemplateCacheAssumption, TemplateInv, NEW t \in Mergers, Load(t)
  PROVE  TemplateInv'
  <1> DEFINE f     == job[t].file
             found == IF cache[f] # NoTree THEN cache[f] ELSE FindTokenTree(f)
             j     == GoesOn(job[t], "merging", found)
  <1> USE DEF TemplateInv
  <1>1. IsMerge(job[t]) /\ job[t].at = "miss" /\ f \in Files /\ job[t].since \in Nat
    BY IdleIsNoMerge DEF Load, TemplateTypeOK, IsMerge
  <1>2. /\ writer = NoMerger /\ readers = {} /\ \A u \in Mergers : job[u].at # "merging"
        /\ UNCHANGED <<disk, changes, readers, flushes, flushed>>
    BY DEF Load, LockedWhileMerging, TemplateCacheAssumption
  <1>3. /\ job[t].since <= flushed /\ flushed \in Nat /\ changes \in Nat /\ flushed <= changes
    BY <1>1, IdleIsNoMerge DEF AskedBefore, TemplateTypeOK
  <1>4. found # NoTree => IsTreeOf(found, f) /\ found.made >= flushed
    BY <1>1, <1>3, FoundTree DEF TemplateTypeOK, CacheIsRecent, IsTreeOf
  <1>5. CASE found = NoTree
    <2>1. /\ cache' = cache /\ loads' = loads /\ job' = [job EXCEPT ![t] = Idle]
          /\ writer' = NoMerger
      BY <1>5 DEF Load
    <2>2. TemplateTypeOK'
      BY <1>2, <2>1 DEF TemplateTypeOK, IsMerge, IsTreeOf
    <2>3. LockedWhileMerging' /\ CacheIsRecent'
      BY <1>1, <1>2, <2>1, IdleIsNoMerge
      DEF TemplateCacheAssumption, TemplateTypeOK, LockedWhileMerging, CacheIsRecent
    <2>4. AskedBefore' /\ MergesCached'
      BY <1>2, <2>1, IdleIsNoMerge DEF TemplateTypeOK, AskedBefore, MergesCached
    <2>5. QED
      BY <2>2, <2>3, <2>4
  <1>6. CASE found # NoTree
    <2>1. /\ cache' = [cache EXCEPT ![f] = found] /\ writer' = t
          /\ job' = [job EXCEPT ![t] = j]
          /\ loads' = IF cache[f] = NoTree THEN [loads EXCEPT ![f] = @ + 1] ELSE loads
      BY <1>6 DEF Load
    <2>2. IsMerge(j) /\ j.at = "merging" /\ j.file = f /\ j.since = job[t].since /\ j.tree = found
      BY <1>1 DEF IsMerge, GoesOn, Merge
    <2> HIDE DEF j, found
    <2>3. TemplateTypeOK'
      BY <1>1, <1>2, <1>4, <1>6, <2>1, <2>2 DEF TemplateTypeOK, IsTreeOf
    <2>4. LockedWhileMerging'
      BY <1>1, <1>2, <2>1, <2>2 DEF TemplateCacheAssumption, TemplateTypeOK, LockedWhileMerging
    <2>5. CacheIsRecent'
      BY <1>1, <1>2, <1>4, <1>6, <2>1 DEF TemplateTypeOK, CacheIsRecent
    <2>6. AskedBefore' /\ MergesCached'
      BY <1>1, <1>2, <1>3, <1>4, <1>6, <2>1, <2>2
      DEF TemplateTypeOK, AskedBefore, MergesCached, IsTreeOf
    <2>7. QED
      BY <2>3, <2>4, <2>5, <2>6
  <1>7. QED
    BY <1>5, <1>6

(* The end of a merge gives up the lock it was under. *)
LEMMA MergeEndsKeepsInv ==
  ASSUME TemplateCacheAssumption, TemplateInv, NEW t \in Mergers, MergeEnds(t)
  PROVE  TemplateInv'
  <1> USE DEF TemplateInv
  <1>1. /\ job' = [job EXCEPT ![t] = Idle] /\ readers' = readers \ {t}
        /\ writer' = IF writer = t THEN NoMerger ELSE writer
        /\ UNCHANGED <<disk, changes, cache, flushes, flushed, loads>>
    BY DEF MergeEnds
  <1>2. TemplateTypeOK'
    BY <1>1 DEF TemplateTypeOK, IsMerge, IsTreeOf
  <1>3. LockedWhileMerging' /\ CacheIsRecent'
    BY <1>1, IdleIsNoMerge
    DEF TemplateCacheAssumption, TemplateTypeOK, LockedWhileMerging, CacheIsRecent
  <1>4. AskedBefore' /\ MergesCached'
    BY <1>1, IdleIsNoMerge DEF TemplateTypeOK, AskedBefore, MergesCached
  <1>5. QED
    BY <1>2, <1>3, <1>4

(* A flush finds nobody merging. *)
LEMMA FlushKeepsInv ==
  ASSUME TemplateCacheAssumption, TemplateInv, NEW t \in Mergers, Flush(t)
  PROVE  TemplateInv'
  <1> USE DEF TemplateInv
  <1>1. /\ writer = NoMerger /\ readers = {} /\ cache' = [f \in Files |-> NoTree]
        /\ flushed' = changes /\ loads' = [f \in Files |-> 0]
        /\ UNCHANGED <<disk, changes, readers, writer, job>>
    BY DEF Flush
  <1>2. \A u \in Mergers : job[u].at # "merging"
    BY <1>1 DEF LockedWhileMerging, TemplateCacheAssumption
  <1>3. TemplateTypeOK' /\ LockedWhileMerging' /\ CacheIsRecent' /\ MergesCached'
    BY <1>1, <1>2
    DEF TemplateTypeOK, IsMerge, IsTreeOf, LockedWhileMerging, CacheIsRecent, MergesCached
  <1>4. AskedBefore'
    BY <1>1 DEF AskedBefore, TemplateTypeOK, IsMerge
  <1>5. QED
    BY <1>3, <1>4

LEMMA TemplateInvHolds ==
  ASSUME TemplateCacheAssumption
  PROVE  TemplateCacheSpec => []TemplateInv
  <1>1. TemplateCacheInit => TemplateInv
    BY TemplateInit
  <1>2. TemplateInv /\ [TemplateCacheNext]_templatevars => TemplateInv'
    <2> SUFFICES ASSUME TemplateInv, [TemplateCacheNext]_templatevars PROVE TemplateInv'
      OBVIOUS
    <2>1. CASE FileChanges
      <3>1. changes' = changes + 1
            /\ UNCHANGED <<readers, writer, cache, job, flushes, flushed, loads>>
        BY <2>1 DEF FileChanges
      <3>2. TemplateTypeOK'
        BY <3>1 DEF TemplateInv, TemplateTypeOK, IsMerge, IsTreeOf
      <3>3. LockedWhileMerging' /\ CacheIsRecent' /\ AskedBefore' /\ MergesCached'
        BY <3>1 DEF TemplateInv, LockedWhileMerging, CacheIsRecent, AskedBefore, MergesCached
      <3>4. QED
        BY <3>2, <3>3 DEF TemplateInv
    <2>2. ASSUME NEW t \in Mergers, NEW f \in Files, MergeTemplate(t, f)
          PROVE  TemplateInv'
      BY <2>2, MergeTemplateKeepsInv
    <2>3. ASSUME NEW t \in Mergers, LookUp(t) \/ Load(t) \/ MergeEnds(t) \/ Flush(t)
          PROVE  TemplateInv'
      BY <2>3, LookUpKeepsInv, LoadKeepsInv, MergeEndsKeepsInv, FlushKeepsInv
    <2>4. CASE UNCHANGED templatevars
      BY <2>4
      DEF templatevars, TemplateInv, TemplateTypeOK, IsMerge, IsTreeOf, LockedWhileMerging,
          CacheIsRecent, AskedBefore, MergesCached
    <2>5. QED
      BY <2>1, <2>2, <2>3, <2>4 DEF TemplateCacheNext
  <1>3. QED
    BY <1>1, <1>2, PTL DEF TemplateCacheSpec

(* A token tree that is being merged stays in the cache, is of the file asked for and was   *)
(* read after the last flush before; and no file is read twice between two flushes, however *)
(* many events miss it at once.                                                             *)
THEOREM TemplatesStayAlive ==
  ASSUME TemplateCacheAssumption
  PROVE  TemplateCacheSpec => []TemplatesStay
  <1>1. TemplateInv => TemplatesStay
    <2> SUFFICES ASSUME TemplateInv PROVE TemplatesStay
      OBVIOUS
    <2>1. ASSUME NEW t \in Mergers, job[t].at = "merging"
          PROVE  /\ cache[job[t].file] = job[t].tree /\ job[t].tree.file = job[t].file
                 /\ job[t].tree.made >= job[t].since
      BY <2>1, IdleIsNoMerge DEF TemplateInv, TemplateTypeOK, IsMerge, IsTreeOf, MergesCached
    <2>2. \A f \in Files : loads[f] <= 1
      BY DEF TemplateInv, CacheIsRecent
    <2>3. QED
      BY <2>1, <2>2 DEF TemplatesStay
  <1>2. QED
    BY <1>1, TemplateInvHolds, PTL

-----------------------------------------------------------------------------
(* Of TickManager. *)

(* The calls a ticker of frequency n has had when m minutes have begun. *)
CallsDue(m, n) == (m + n - 1) \div n

(* The minutes ticker i has been looked at in. *)
Looked(i) == IF pc = "ticks" /\ i < ii THEN minute + 1 ELSE minute

TickInv ==
  /\ pc \in {"new", "sleep", "ticks", "returned"} /\ minute \in Nat /\ ii \in Nat \ {0}
  /\ pc = "new" => minute = 0
  /\ ticks \in Seq(Nat \ {0}) /\ called \in Seq(Nat) /\ Len(called) = Len(ticks)
  /\ \A i \in 1 .. Len(ticks) : called[i] = CallsDue(Looked(i), ticks[i])
  /\ asleep \in {0, 1} /\ (asleep = 1 => pc = "returned")

-----------------------------------------------------------------------------
(* Quotient and remainder are the only such numbers. *)
LEMMA QuotientIsUnique ==
  ASSUME NEW n \in Nat \ {0}, NEW q \in Nat, NEW r \in 0 .. n - 1
  PROVE  (n * q + r) \div n = q
  OBVIOUS

LEMMA NothingDueAtFirst ==
  ASSUME NEW n \in Nat \ {0}
  PROVE  CallsDue(0, n) = 0
  <1>1. n - 1 \in 0 .. n - 1 /\ n * 0 + (n - 1) = 0 + n - 1
    OBVIOUS
  <1>2. QED
    BY <1>1, QuotientIsUnique DEF CallsDue

(* A minute is due for the ticker exactly if it is a multiple of its frequency. *)
LEMMA DueInItsMinutes ==
  ASSUME NEW n \in Nat \ {0}, NEW m \in Nat
  PROVE  CallsDue(m + 1, n) = IF m % n = 0 THEN CallsDue(m, n) + 1 ELSE CallsDue(m, n)
  <1> DEFINE q == m \div n
             r == m % n
  <1>1. q \in Nat /\ r \in 0 .. n - 1 /\ m = n * q + r
    OBVIOUS
  <1> HIDE DEF q, r
  <1>2. m + 1 + n - 1 = n * (q + 1) + r
    BY <1>1
  <1>3. CallsDue(m + 1, n) = q + 1
    BY <1>1, <1>2, QuotientIsUnique DEF CallsDue
  <1>4. CASE r = 0
    <2>1. n - 1 \in 0 .. n - 1 /\ m + n - 1 = n * q + (n - 1)
      BY <1>1, <1>4
    <2>2. CallsDue(m, n) = q
      BY <1>1, <2>1, QuotientIsUnique DEF CallsDue
    <2>3. QED
      BY <1>1, <1>3, <1>4, <2>2 DEF r
  <1>5. CASE r # 0
    <2>1. r - 1 \in 0 .. n - 1 /\ m + n - 1 = n * (q + 1) + (r - 1)
      BY <1>1, <1>5
    <2>2. CallsDue(m, n) = q + 1
      BY <1>1, <2>1, QuotientIsUnique DEF CallsDue
    <2>3. QED
      BY <1>3, <1>5, <2>2 DEF r
  <1>6. QED
    BY <1>4, <1>5

-----------------------------------------------------------------------------
LEMMA TickInvInit == TickManagerInit => TickInv
  <1> SUFFICES ASSUME TickManagerInit PROVE TickInv
    OBVIOUS
  <1>1. ticks = <<>> /\ ticks \in Seq(Nat \ {0}) /\ called = <<>> /\ called \in Seq(Nat)
    BY DEF TickManagerInit
  <1>2. QED
    BY <1>1 DEF TickManagerInit, TickInv

LEMMA TickInvStep ==
  ASSUME TickManagerAssumption, TickInv, [TickManagerNext]_tickvars
  PROVE  TickInv'
  <1> USE DEF TickInv, Looked
  <1>1. CASE AddTicker
    <2>1. PICK freq \in Frequencies :
            /\ ticks' = Append(ticks, freq) /\ called' = Append(called, 0)
            /\ pc = "new" /\ UNCHANGED <<alive, pc, minute, k, ii, asleep>>
      BY <1>1 DEF AddTicker
    <2>2. freq \in Nat \ {0} /\ minute = 0
      BY <2>1 DEF TickManagerAssumption
    <2>3. ticks' \in Seq(Nat \ {0}) /\ called' \in Seq(Nat) /\ Len(called') = Len(ticks')
      BY <2>1, <2>2
    <2>4. ASSUME NEW i \in 1 .. Len(ticks')
          PROVE  called'[i] = CallsDue(Looked(i)', ticks'[i])
      <3>1. Looked(i)' = 0
        BY <2>1, <2>2
      <3>2. CASE i = Len(ticks) + 1
        BY <2>1, <2>2, <3>1, <3>2, NothingDueAtFirst
      <3>3. CASE i # Len(ticks) + 1
        <4>1. i \in 1 .. Len(ticks) /\ ticks'[i] = ticks[i] /\ called'[i] = called[i]
          BY <2>1, <2>2, <3>3
        <4>2. Looked(i) = 0
          BY <2>1, <2>2
        <4>3. QED
          BY <3>1, <4>1, <4>2
      <3>4. QED
        BY <3>2, <3>3
    <2>5. QED
      BY <2>1, <2>2, <2>3, <2>4
  <1>2. CASE Tick
    <2>1. /\ pc = "ticks" /\ ii \in 1 .. Len(ticks) /\ ii' = ii + 1
          /\ called' = IF minute % ticks[ii] = 0 THEN [called EXCEPT ![ii] = @ + 1] ELSE called
          /\ UNCHANGED <<alive, pc, minute, k, ticks, asleep>>
      BY <1>2 DEF Tick
    <2>2. ticks[ii] \in Nat \ {0} /\ called[ii] \in Nat /\ called[ii] = CallsDue(minute, ticks[ii])
      BY <2>1
    <2>3. called' \in Seq(Nat) /\ Len(called') = Len(ticks)
      BY <2>1, <2>2
    <2>4. ASSUME NEW i \in 1 .. Len(ticks)
          PROVE  called'[i] = CallsDue(Looked(i)', ticks[i])
      <3>1. CASE i = ii
        <4>1. Looked(i)' = minute + 1
          BY <2>1, <3>1
        <4>2. called'[i] = IF minute % ticks[ii] = 0 THEN called[ii] + 1 ELSE called[ii]
          BY <2>1, <2>2, <3>1
        <4>3. called'[i] = CallsDue(minute + 1, ticks[i])
          BY <2>2, <3>1, <4>2, DueInItsMinutes
        <4>4. QED
          BY <4>1, <4>3 DEF CallsDue
      <3>2. CASE i # ii
        <4>1. called'[i] = called[i] /\ Looked(i)' = Looked(i)
          BY <2>1, <3>2
        <4>2. QED
          BY <4>1 DEF CallsDue
      <3>3. QED
        BY <3>1, <3>2
    <2>5. QED
      BY <2>1, <2>3, <2>4
  <1>3. CASE NotifyStop \/ Start \/ Sleep \/ NextMinute \/ UNCHANGED tickvars
    <2>1. /\ UNCHANGED <<ticks, called>> /\ minute' \in Nat /\ ii' \in Nat \ {0}
          /\ pc' \in {"new", "sleep", "ticks", "returned"} /\ (pc' = "new" => minute' = 0)
          /\ asleep' \in {0, 1} /\ (asleep' = 1 => pc' = "returned")
      BY <1>3 DEF NotifyStop, Start, Sleep, NextMinute, tickvars
    <2>2. ASSUME NEW i \in 1 .. Len(ticks)
          PROVE  Looked(i)' = Looked(i)
      BY <1>3 DEF NotifyStop, Start, Sleep, NextMinute, tickvars
    <2>3. QED
      BY <2>1, <2>2
  <1>4. QED
    BY <1>1, <1>2, <1>3 DEF TickManagerNext

(* Every ticker has been called once in each of its minutes that the thread has come to, and *)
(* the thread sleeps at most once after it is told to stop, however long it ran.             *)
THEOREM TickersOnTime ==
  ASSUME TickManagerAssumption
  PROVE  TickManagerSpec => []TicksOnTime
  <1>1. TickInv => TicksOnTime
    <2> SUFFICES ASSUME TickInv PROVE TicksOnTime
      OBVIOUS
    <2>1. DOMAIN ticks = 1 .. Len(ticks) /\ asleep <= 1
      BY DEF TickInv
    <2>2. QED
      BY <2>1 DEF TickInv, TicksOnTime, CallsDue, Looked
  <1>2. QED
    BY <1>1, TickInvInit, TickInvStep, PTL DEF TickManagerSpec

-----------------------------------------------------------------------------
(* Of WxProject. *)

(* The names there are sources of. *)
AllNames == Pages \cup OwnCode

(* A file that was written at a moment up to last. *)
IsFile(file, last) ==
  file = [text |-> file.text, time |-> file.time] /\ file.time \in Nat /\ file.time <= last

ProjectTypeOK ==
  /\ now \in Nat
  /\ DOMAIN files = Names /\ DOMAIN written = Names
  /\ \A f \in Names : Exists(f) => IsFile(files[f], now)
  /\ program # NoFile => program.time \in Nat /\ program.time <= now
  /\ makefile = [rules |-> makefile.rules, links |-> makefile.links]
  /\ making = [rules |-> making.rules, links |-> making.links,
               left |-> making.left, runs |-> making.runs]
  /\ making.left \subseteq DOMAIN making.rules

(* What a Makefile m may say: it has rules for names with a source only, those of all their  *)
(* targets, and leaves out no object that has been made.                                    *)
RulesRight(m) ==
  /\ m.links \in BOOLEAN
  /\ \A t \in DOMAIN m.rules :
       /\ t \in Names /\ Exists(Source(t[1]))
       /\ \/ t[2] = "cpp" /\ t[1] \in Pages /\ m.rules[t] = <<t[1], "wx">>
          \/ t[2] = "o" /\ m.links /\ m.rules[t] = <<t[1], "cpp">>
       /\ m.links => /\ <<t[1], "o">> \in DOMAIN m.rules
                     /\ t[1] \in Pages => <<t[1], "cpp">> \in DOMAIN m.rules
  /\ m.links => \A x \in AllNames : Exists(<<x, "o">>) => <<x, "o">> \in DOMAIN m.rules

(* What make has dealt with is there.  A Makefile that replaces the one it goes by has all  *)
(* of its targets: sources do not vanish.                                                   *)
MadeInOrder ==
  /\ \A t \in DOMAIN making.rules : t \notin making.left => Exists(t)
  /\ making.links /\ makefile.links => DOMAIN making.rules \subseteq DOMAIN makefile.rules

(* No target without what it is made from. *)
SourcesFirst ==
  \A x \in AllNames :
    /\ Exists(<<x, "o">>) => Exists(<<x, "cpp">>)
    /\ x \in Pages /\ Exists(<<x, "cpp">>) => Exists(<<x, "wx">>)
    /\ x \in OwnCode => ~Exists(<<x, "wx">>)

(* A target that is not older than what it is made from was made from what that still says. *)
MadeFrom ==
  \A x \in AllNames :
    /\ x \in Pages /\ Exists(<<x, "cpp">>) /\ files[<<x, "cpp">>].time >= files[<<x, "wx">>].time =>
         files[<<x, "cpp">>].text.page = files[<<x, "wx">>].text
    /\ Exists(<<x, "o">>) /\ files[<<x, "o">>].time >= files[<<x, "cpp">>].time =>
         files[<<x, "o">>].text = files[<<x, "cpp">>].text

(* The program has every object that is not newer, as it is: an object make left out, or    *)
(* made again, is newer.                                                                    *)
LinkedLast ==
  program # NoFile =>
    \A x \in AllNames :
      Exists(<<x, "o">>) /\ files[<<x, "o">>].time <= program.time =>
        /\ <<x, "o">> \in DOMAIN program.objects
        /\ program.objects[<<x, "o">>] = files[<<x, "o">>].text

(* A source says what was last written in it. *)
SourcesAsWritten == \A f \in Sources : Exists(f) => files[f].text = written[f]

ProjectInv ==
  /\ ProjectTypeOK /\ RulesRight(makefile) /\ RulesRight(making)
  /\ MadeInOrder /\ SourcesFirst /\ MadeFrom /\ LinkedLast /\ SourcesAsWritten

-----------------------------------------------------------------------------
(* What ProjectAssumption says of a name: it is a page's or the developer's, never both. *)
LEMMA SourceNames ==
  ASSUME ProjectAssumption, NEW x \in AllNames
  PROVE  /\ Source(x) \in Names /\ Source(x) \in Sources
         /\ x \in Pages => Source(x) = <<x, "wx">> /\ x \notin OwnCode
         /\ x \in OwnCode => Source(x) = <<x, "cpp">> /\ x \notin Pages
         /\ <<x, "wx">> \in Names /\ <<x, "cpp">> \in Names /\ <<x, "o">> \in Names
         /\ <<x, "o">> \notin Sources
         /\ x \in Pages => <<x, "cpp">> \notin Sources
  BY DEF ProjectAssumption, AllNames, Source, Sources, Names

LEMMA ASourceIs ==
  ASSUME ProjectAssumption, NEW f \in Sources
  PROVE  \E x \in AllNames : f = Source(x)
  BY DEF Sources, AllNames

(* A file written now is there, and newer than any. *)
LEMMA FileIsRecord ==
  ASSUME NEW text, now \in Nat
  PROVE  /\ File(text) = [text |-> File(text).text, time |-> File(text).time]
         /\ File(text) # NoFile
         /\ File(text).text = text /\ File(text).time = now + 1
  <1>1. "missing" \in DOMAIN NoFile /\ "missing" \notin DOMAIN File(text)
    BY DEF NoFile, File
  <1>2. File(text) # NoFile
    BY <1>1
  <1>3. QED
    BY <1>2 DEF File

LEMMA ProjectInitHolds ==
  ASSUME ProjectAssumption, ProjectInit
  PROVE  ProjectInv
  <1>1. \A f \in Names : ~Exists(f)
    BY DEF ProjectInit, Exists
  <1>2. ProjectTypeOK
    BY <1>1 DEF ProjectInit, ProjectTypeOK, NoMakefile, NotMaking
  <1>3. RulesRight(makefile) /\ RulesRight(making) /\ MadeInOrder
    BY DEF ProjectInit, RulesRight, MadeInOrder, NoMakefile, NotMaking
  <1>4. SourcesFirst /\ MadeFrom /\ SourcesAsWritten
    BY <1>1, SourceNames DEF SourcesFirst, MadeFrom, SourcesAsWritten, Sources, AllNames
  <1>5. LinkedLast
    BY DEF ProjectInit, LinkedLast
  <1>6. QED
    BY <1>2, <1>3, <1>4, <1>5 DEF ProjectInv

(* New sources, by hand or from a skeleton: the clock is past every target's time. *)
LEMMA SourcesKeepInv ==
  ASSUME ProjectAssumption, ProjectInv, NEW new \in SUBSET Sources,
         files' = [f \in Names |-> IF f \in new THEN File(now + 1) ELSE files[f]],
         now' = now + 1,
         DOMAIN written' = Names,
         \A f \in Sources : (f \in new => written'[f] = now + 1)
                            /\ (f \notin new => written'[f] = written[f]),
         UNCHANGED <<program, makefile, making>>
  PROVE  ProjectInv'
  <1> USE DEF ProjectInv
  <1>1. now \in Nat
    BY DEF ProjectTypeOK
  <1>2. \A f \in Names : f \notin new => files'[f] = files[f] /\ (Exists(f)' <=> Exists(f))
    BY DEF Exists, NoFile
  <1>3. \A f \in Names : f \in new => /\ files'[f] = File(now + 1) /\ Exists(f)'
                                      /\ files'[f].text = now + 1 /\ files'[f].time = now + 1
    BY <1>1, FileIsRecord DEF Exists, NoFile
  <1>4. ProjectTypeOK'
    <2>1. ASSUME NEW f \in Names, Exists(f)' PROVE IsFile(files'[f], now')
      <3>1. CASE f \in new
        BY <1>1, <1>3, <3>1, FileIsRecord DEF IsFile
      <3>2. CASE f \notin new
        BY <1>1, <1>2, <2>1, <3>2 DEF ProjectTypeOK, IsFile
      <3>3. QED
        BY <3>1, <3>2
    <2>2. QED
      BY <1>1, <2>1 DEF ProjectTypeOK, IsFile, NoFile
  <1>5. \A f \in Names : Exists(f) => Exists(f)'
    BY <1>2, <1>3
  <1>6. \A x \in AllNames : <<x, "o">> \notin new /\ (x \in Pages => <<x, "cpp">> \notin new)
    BY SourceNames
  <1>7. RulesRight(makefile)' /\ RulesRight(making)'
    <2>1. \A x \in AllNames : Exists(<<x, "o">>)' <=> Exists(<<x, "o">>)
      BY <1>2, <1>6, SourceNames
    <2>2. \A t \in Names : Source(t[1]) \in Names
      BY SourceNames DEF Names, AllNames
    <2>3. QED
      BY <1>5, <2>1, <2>2 DEF RulesRight
  <1>8. MadeInOrder'
    BY <1>5 DEF MadeInOrder, RulesRight
  <1>9. SourcesFirst' /\ MadeFrom' /\ LinkedLast'
    <2> SUFFICES ASSUME NEW x \in AllNames
                 PROVE  /\ Exists(<<x, "o">>)' => Exists(<<x, "cpp">>)'
                        /\ x \in Pages /\ Exists(<<x, "cpp">>)' => Exists(<<x, "wx">>)'
                        /\ x \in OwnCode => ~Exists(<<x, "wx">>)'
                        /\ x \in Pages /\ Exists(<<x, "cpp">>)'
                           /\ files'[<<x, "cpp">>].time >= files'[<<x, "wx">>].time =>
                             files'[<<x, "cpp">>].text.page = files'[<<x, "wx">>].text
                        /\ Exists(<<x, "o">>)'
                           /\ files'[<<x, "o">>].time >= files'[<<x, "cpp">>].time =>
                             files'[<<x, "o">>].text = files'[<<x, "cpp">>].text
                        /\ program # NoFile /\ Exists(<<x, "o">>)'
                           /\ files'[<<x, "o">>].time <= program.time =>
                             /\ <<x, "o">> \in DOMAIN program.objects
                             /\ program.objects[<<x, "o">>] = files'[<<x, "o">>].text
      BY DEF SourcesFirst, MadeFrom, LinkedLast, NoFile
    <2>1. <<x, "wx">> \in Names /\ <<x, "cpp">> \in Names /\ <<x, "o">> \in Names
      BY SourceNames
    <2>2. x \in OwnCode => <<x, "wx">> \notin new
      BY SourceNames DEF Sources, Source, AllNames
    <2>3. files'[<<x, "o">>] = files[<<x, "o">>] /\ (Exists(<<x, "o">>)' <=> Exists(<<x, "o">>))
      BY <1>2, <1>6, <2>1
    <2>4. \A f \in {<<x, "cpp">>, <<x, "o">>} :
            Exists(f) => files[f].time \in Nat /\ files[f].time <= now
      BY <2>1 DEF ProjectTypeOK, IsFile
    <2>5. /\ Exists(<<x, "o">>)' => Exists(<<x, "cpp">>)'
          /\ x \in Pages /\ Exists(<<x, "cpp">>)' => Exists(<<x, "wx">>)'
          /\ x \in OwnCode => ~Exists(<<x, "wx">>)'
      BY <1>2, <1>5, <1>6, <2>1, <2>2, <2>3 DEF SourcesFirst
    <2>6. x \in Pages /\ Exists(<<x, "cpp">>)'
             /\ files'[<<x, "cpp">>].time >= files'[<<x, "wx">>].time =>
            files'[<<x, "cpp">>].text.page = files'[<<x, "wx">>].text
      <3> SUFFICES ASSUME x \in Pages, Exists(<<x, "cpp">>)',
                          files'[<<x, "cpp">>].time >= files'[<<x, "wx">>].time
                   PROVE  files'[<<x, "cpp">>].text.page = files'[<<x, "wx">>].text
        OBVIOUS
      <3>1. files'[<<x, "cpp">>] = files[<<x, "cpp">>] /\ Exists(<<x, "cpp">>)
        BY <1>2, <1>6, <2>1
      <3>2. <<x, "wx">> \notin new
        BY <1>1, <1>3, <2>1, <2>4, <3>1
      <3>3. QED
        BY <1>2, <2>1, <3>1, <3>2 DEF MadeFrom
    <2>7. Exists(<<x, "o">>)' /\ files'[<<x, "o">>].time >= files'[<<x, "cpp">>].time =>
            files'[<<x, "o">>].text = files'[<<x, "cpp">>].text
      <3> SUFFICES ASSUME Exists(<<x, "o">>)',
                          files'[<<x, "o">>].time >= files'[<<x, "cpp">>].time
                   PROVE  files'[<<x, "o">>].text = files'[<<x, "cpp">>].text
        OBVIOUS
      <3>1. <<x, "cpp">> \notin new
        BY <1>1, <1>3, <2>1, <2>3, <2>4
      <3>2. QED
        BY <1>2, <2>1, <2>3, <3>1 DEF MadeFrom
    <2>8. program # NoFile /\ Exists(<<x, "o">>)' /\ files'[<<x, "o">>].time <= program.time =>
            /\ <<x, "o">> \in DOMAIN program.objects
            /\ program.objects[<<x, "o">>] = files'[<<x, "o">>].text
      BY <2>3 DEF LinkedLast
    <2>9. QED
      BY <2>5, <2>6, <2>7, <2>8
  <1>10. SourcesAsWritten'
    BY <1>2, <1>3, SourceNames, ASourceIs DEF SourcesAsWritten
  <1>11. QED
    BY <1>4, <1>7, <1>8, <1>9, <1>10

(* A source is written by hand. *)
LEMMA EditKeepsInv ==
  ASSUME ProjectAssumption, ProjectInv, NEW f \in Sources, Edit(f)
  PROVE  ProjectInv'
  <1>1. f \in Names /\ DOMAIN files = Names /\ DOMAIN written = Names
    BY SourceNames, ASourceIs DEF ProjectInv, ProjectTypeOK
  <1>2. files' = [g \in Names |-> IF g \in {f} THEN File(now + 1) ELSE files[g]]
    BY <1>1 DEF Edit
  <1>3. \A g \in Sources : g \in Names
    BY SourceNames, ASourceIs
  <1>4. /\ DOMAIN written' = Names
        /\ \A g \in Sources : (g \in {f} => written'[g] = now + 1)
                              /\ (g \notin {f} => written'[g] = written[g])
    BY <1>1, <1>3 DEF Edit
  <1>5. now' = now + 1 /\ UNCHANGED <<program, makefile, making>>
    BY DEF Edit
  <1>6. {f} \in SUBSET Sources
    OBVIOUS
  <1>7. QED
    BY <1>2, <1>4, <1>5, <1>6, SourcesKeepInv

(* A skeleton writes the sources that are missing, up to one that cannot be opened. *)
LEMMA ScaffoldKeepsInv ==
  ASSUME ProjectAssumption, ProjectInv, NEW list \in Skeletons, Scaffold(list)
  PROVE  ProjectInv'
  <1>1. list \in Seq(Sources)
    BY DEF ProjectAssumption
  <1>2. PICK n \in 0 .. Len(list) :
          /\ files' = [f \in Names |-> IF f \in Missing(SubSeq(list, 1, n)) THEN File(now + 1)
                                       ELSE files[f]]
          /\ written' = [f \in Names |->
                           IF f \in Missing(SubSeq(list, 1, n)) /\ ~Exists(f) THEN now + 1
                           ELSE written[f]]
    BY DEF Scaffold
  <1> DEFINE new == Missing(SubSeq(list, 1, n))
  <1>3. SubSeq(list, 1, n) \in Seq(Sources)
    BY <1>1
  <1>4. new \in SUBSET Sources /\ \A f \in new : ~Exists(f)
    BY <1>3 DEF Missing
  <1>5. \A g \in Sources : g \in Names
    BY SourceNames, ASourceIs
  <1>6. now' = now + 1 /\ UNCHANGED <<program, makefile, making>>
    BY DEF Scaffold
  <1> HIDE DEF new
  <1>7. /\ DOMAIN written' = Names
        /\ \A g \in Sources : (g \in new => written'[g] = now + 1)
                              /\ (g \notin new => written'[g] = written[g])
    BY <1>2, <1>4, <1>5 DEF new
  <1>8. QED
    BY <1>2, <1>4, <1>6, <1>7, SourcesKeepInv DEF new

(* What build_make finds for one name: its rules, if there is a source. *)
LEMMA RulesOfOne ==
  ASSUME ProjectAssumption, SourcesFirst, NEW x \in AllNames
  PROVE  /\ DOMAIN Rules(x) \subseteq {<<x, "cpp">>, <<x, "o">>}
         /\ <<x, "cpp">> \in DOMAIN Rules(x) <=> x \in Pages /\ Exists(Source(x))
         /\ <<x, "o">> \in DOMAIN Rules(x) <=> Exists(Source(x))
         /\ \A t \in DOMAIN Rules(x) :
              Rules(x)[t] = IF t[2] = "cpp" THEN <<x, "wx">> ELSE <<x, "cpp">>
  <1>1. Exists(<<x, "wx">>) <=> x \in Pages /\ Exists(Source(x))
    BY SourceNames DEF SourcesFirst, AllNames
  <1>2. Exists(<<x, "wx">>) \/ Exists(<<x, "cpp">>) <=> Exists(Source(x))
    BY SourceNames DEF SourcesFirst, AllNames
  <1>3. QED
    BY <1>1, <1>2 DEF Rules

(* The Makefile has just the targets of the names with a source. *)
LEMMA AllRules ==
  ASSUME ProjectAssumption, SourcesFirst, NEW links \in BOOLEAN,
         NEW rules, rules = RulesOfAll(IF links THEN {"cpp", "o"} ELSE {"cpp"})
  PROVE  /\ \A t \in DOMAIN rules :
              /\ t \in Names /\ Exists(Source(t[1])) /\ t[1] \in AllNames
              /\ \/ t[2] = "cpp" /\ t[1] \in Pages /\ rules[t] = <<t[1], "wx">>
                 \/ t[2] = "o" /\ links /\ rules[t] = <<t[1], "cpp">>
         /\ \A x \in AllNames : Exists(Source(x)) /\ links => <<x, "o">> \in DOMAIN rules
         /\ \A x \in Pages : Exists(Source(x)) => <<x, "cpp">> \in DOMAIN rules
  <1> DEFINE kinds == IF links THEN {"cpp", "o"} ELSE {"cpp"}
             targets == UNION {DOMAIN Rules(x) : x \in Pages \cup OwnCode}
  <1>1. /\ DOMAIN rules = {u \in targets : u[2] \in kinds}
        /\ \A t \in DOMAIN rules : rules[t] = Rules(t[1])[t]
    BY DEF RulesOfAll
  <1>2. \A t : t \in targets <=> \E x \in AllNames : t \in DOMAIN Rules(x)
    BY DEF AllNames
  <1> HIDE DEF targets
  <1>3. ASSUME NEW t \in DOMAIN rules
        PROVE  /\ t \in Names /\ Exists(Source(t[1])) /\ t[1] \in AllNames
               /\ \/ t[2] = "cpp" /\ t[1] \in Pages /\ rules[t] = <<t[1], "wx">>
                  \/ t[2] = "o" /\ links /\ rules[t] = <<t[1], "cpp">>
    <2>1. PICK x \in AllNames : t \in DOMAIN Rules(x)
      BY <1>1, <1>2
    <2>2. t = <<x, "cpp">> \/ t = <<x, "o">>
      BY <2>1, RulesOfOne
    <2>3. t[1] = x /\ t \in Names
      BY <2>2 DEF Names, AllNames
    <2>4. rules[t] = IF t[2] = "cpp" THEN <<x, "wx">> ELSE <<x, "cpp">>
      BY <1>1, <2>1, <2>3, RulesOfOne
    <2>5. t[2] \in kinds
      BY <1>1
    <2>6. QED
      BY <2>1, <2>2, <2>3, <2>4, <2>5, RulesOfOne
  <1>4. ASSUME NEW x \in AllNames, Exists(Source(x))
        PROVE  /\ links => <<x, "o">> \in DOMAIN rules
               /\ x \in Pages => <<x, "cpp">> \in DOMAIN rules
    BY <1>1, <1>2, <1>4, RulesOfOne
  <1>5. QED
    BY <1>3, <1>4 DEF AllNames

(* A new Makefile has every target the old one had, if both link. *)
LEMMA MakeMakefileKeepsInv ==
  ASSUME ProjectAssumption, ProjectInv, NEW links \in BOOLEAN, MakeMakefile(links)
  PROVE  ProjectInv'
  <1> USE DEF ProjectInv
  <1> DEFINE rules == RulesOfAll(IF links THEN {"cpp", "o"} ELSE {"cpp"})
  <1>1. /\ makefile' = [rules |-> rules, links |-> links]
        /\ UNCHANGED <<files, program, making, now, written>>
    BY DEF MakeMakefile
  <1>2. /\ \A t \in DOMAIN rules :
              /\ t \in Names /\ Exists(Source(t[1])) /\ t[1] \in AllNames
              /\ \/ t[2] = "cpp" /\ t[1] \in Pages /\ rules[t] = <<t[1], "wx">>
                 \/ t[2] = "o" /\ links /\ rules[t] = <<t[1], "cpp">>
        /\ \A x \in AllNames : Exists(Source(x)) /\ links => <<x, "o">> \in DOMAIN rules
        /\ \A x \in Pages : Exists(Source(x)) => <<x, "cpp">> \in DOMAIN rules
    BY AllRules
  <1> HIDE DEF rules
  <1>3. \A f : Exists(f)' <=> Exists(f)
    BY <1>1 DEF Exists, NoFile
  <1>4. makefile'.rules = rules /\ makefile'.links = links
    BY <1>1
  <1>5. ProjectTypeOK'
    BY <1>1, <1>3, <1>4 DEF ProjectTypeOK, IsFile, NoFile
  <1>6. \A x \in AllNames : Exists(<<x, "o">>) => Exists(Source(x))
    BY SourceNames DEF SourcesFirst, AllNames
  <1>7. RulesRight(makefile)'
    BY <1>2, <1>3, <1>4, <1>6 DEF RulesRight
  <1>8. RulesRight(making)'
    BY <1>1, <1>3 DEF RulesRight
  <1>9. MadeInOrder'
    <2>1. ASSUME making.links, links, NEW t \in DOMAIN making.rules
          PROVE  t \in DOMAIN rules
      <3>1. t \in Names /\ Exists(Source(t[1]))
            /\ (t[2] = "cpp" => t[1] \in Pages) /\ t[2] \in {"cpp", "o"}
        BY DEF RulesRight
      <3>2. t = <<t[1], t[2]>> /\ t[1] \in AllNames
        BY <3>1 DEF Names, AllNames
      <3>3. QED
        BY <1>2, <2>1, <3>1, <3>2
    <2>2. QED
      BY <1>1, <1>3, <1>4, <2>1 DEF MadeInOrder
  <1>10. SourcesFirst' /\ MadeFrom' /\ LinkedLast' /\ SourcesAsWritten'
    BY <1>1, <1>3 DEF SourcesFirst, MadeFrom, LinkedLast, SourcesAsWritten, NoFile
  <1>11. QED
    BY <1>5, <1>7, <1>8, <1>9, <1>10

(* make reads the Makefile. *)
LEMMA StartMakeKeepsInv ==
  ASSUME ProjectInv, StartMake
  PROVE  ProjectInv'
  <1> USE DEF ProjectInv
  <1>1. /\ making' = [rules |-> makefile.rules, links |-> makefile.links,
                      left |-> DOMAIN makefile.rules, runs |-> TRUE]
        /\ UNCHANGED <<files, program, makefile, now, written>>
    BY DEF StartMake
  <1>2. making'.rules = makefile.rules /\ making'.links = makefile.links
        /\ making'.left = DOMAIN makefile.rules
    BY <1>1
  <1>3. \A f : Exists(f)' <=> Exists(f)
    BY <1>1 DEF Exists, NoFile
  <1>4. ProjectTypeOK'
    BY <1>1, <1>3 DEF ProjectTypeOK, IsFile, NoFile
  <1>5. RulesRight(makefile)' /\ RulesRight(making)' /\ MadeInOrder'
    BY <1>1, <1>2, <1>3 DEF RulesRight, MadeInOrder
  <1>6. SourcesFirst' /\ MadeFrom' /\ LinkedLast' /\ SourcesAsWritten'
    BY <1>1, <1>3 DEF SourcesFirst, MadeFrom, LinkedLast, SourcesAsWritten, NoFile
  <1>7. QED
    BY <1>4, <1>5, <1>6

(* When make comes to a target, its source is there: written or made before. *)
LEMMA TargetHasSource ==
  ASSUME ProjectAssumption, ProjectInv, NEW t \in Names, MakeTarget(t)
  PROVE  /\ t \in making.left /\ t \in DOMAIN making.rules /\ t \notin Sources
         /\ t[1] \in AllNames
         /\ \/ t = <<t[1], "cpp">> /\ t[1] \in Pages /\ making.rules[t] = <<t[1], "wx">>
            \/ t = <<t[1], "o">> /\ making.links /\ making.rules[t] = <<t[1], "cpp">>
         /\ making.rules[t] \in Names /\ making.rules[t] # t /\ Exists(making.rules[t])
  <1> USE DEF ProjectInv
  <1>1. t \in making.left /\ making.rules[t] \notin making.left
    BY DEF MakeTarget
  <1>2. t \in DOMAIN making.rules
    BY <1>1 DEF ProjectTypeOK
  <1>3. t = <<t[1], t[2]>> /\ t[1] \in AllNames
    BY DEF Names, AllNames
  <1>4. /\ Exists(Source(t[1]))
        /\ \/ t[2] = "cpp" /\ t[1] \in Pages /\ making.rules[t] = <<t[1], "wx">>
           \/ t[2] = "o" /\ making.links /\ making.rules[t] = <<t[1], "cpp">>
        /\ making.links /\ t[1] \in Pages => <<t[1], "cpp">> \in DOMAIN making.rules
    BY <1>2 DEF RulesRight
  <1>5. CASE t[2] = "cpp"
    BY <1>1, <1>2, <1>3, <1>4, <1>5, SourceNames
  <1>6. CASE t[2] = "o"
    <2>1. making.links /\ making.rules[t] = <<t[1], "cpp">>
      BY <1>4, <1>6
    <2>2. Exists(<<t[1], "cpp">>)
      <3>1. CASE t[1] \in Pages
        BY <1>1, <1>4, <2>1, <3>1 DEF MadeInOrder
      <3>2. CASE t[1] \in OwnCode
        BY <1>3, <1>4, <3>2, SourceNames
      <3>3. QED
        BY <1>3, <3>1, <3>2 DEF AllNames
    <2>3. <<t[1], "cpp">> # t
      BY <1>3, <1>6
    <2>4. QED
      BY <1>1, <1>2, <1>3, <1>6, <2>1, <2>2, <2>3, SourceNames
  <1>7. QED
    BY <1>4, <1>5, <1>6

(* Make goes on, or stops: its rules and the Makefile's know every object there is. *)
LEMMA MakeGoesOn ==
  ASSUME ProjectAssumption, ProjectInv, NEW t \in DOMAIN making.rules,
         \/ making' = [making EXCEPT !.left = @ \ {t}] /\ Exists(t)'
         \/ making' = NotMaking,
         \A f \in Names : Exists(f) => Exists(f)',
         \A f \in Names : Exists(f)' => Exists(f) \/ f = t,
         UNCHANGED makefile
  PROVE  /\ RulesRight(makefile)' /\ RulesRight(making)' /\ MadeInOrder'
         /\ (making = [rules |-> making.rules, links |-> making.links,
                       left |-> making.left, runs |-> making.runs])'
         /\ (making.left \subseteq DOMAIN making.rules)'
  <1> USE DEF ProjectInv
  <1>1. \A u \in Names : Source(u[1]) \in Names
    BY SourceNames DEF Names, AllNames
  <1>2. \A x \in AllNames : <<x, "o">> \in Names
    BY SourceNames
  <1>3. RulesRight(makefile)'
    <2>1. ASSUME makefile.links, NEW x \in AllNames, Exists(<<x, "o">>)'
          PROVE  <<x, "o">> \in DOMAIN makefile.rules
      <3>1. CASE Exists(<<x, "o">>)
        BY <2>1, <3>1 DEF RulesRight
      <3>2. CASE <<x, "o">> = t
        <4>1. making.links
          BY <3>2 DEF RulesRight
        <4>2. QED
          BY <2>1, <3>2, <4>1 DEF MadeInOrder
      <3>3. QED
        BY <1>2, <2>1, <3>1, <3>2
    <2>2. QED
      BY <1>1, <2>1 DEF RulesRight
  <1>4. CASE making' = [making EXCEPT !.left = @ \ {t}] /\ Exists(t)'
    <2>1. /\ making'.rules = making.rules /\ making'.links = making.links
          /\ making'.left = making.left \ {t} /\ making'.runs = making.runs
          /\ making' = [rules |-> making'.rules, links |-> making'.links,
                        left |-> making'.left, runs |-> making'.runs]
      BY <1>4 DEF ProjectTypeOK
    <2>2. \A x \in AllNames :
            Exists(<<x, "o">>)' /\ making.links => <<x, "o">> \in DOMAIN making.rules
      BY <1>2 DEF RulesRight
    <2>3. RulesRight(making)'
      BY <1>1, <2>1, <2>2 DEF RulesRight
    <2>4. MadeInOrder'
      BY <1>4, <2>1 DEF MadeInOrder, RulesRight
    <2>5. QED
      BY <1>3, <2>1, <2>3, <2>4 DEF ProjectTypeOK
  <1>5. CASE making' = NotMaking
    <2>1. /\ DOMAIN making'.rules = {} /\ making'.links = FALSE /\ making'.left = {}
          /\ making' = [rules |-> making'.rules, links |-> making'.links,
                        left |-> making'.left, runs |-> making'.runs]
      BY <1>5 DEF NotMaking
    <2>2. RulesRight(making)' /\ MadeInOrder'
      BY <2>1 DEF RulesRight, MadeInOrder
    <2>3. QED
      BY <1>3, <2>1, <2>2
  <1>6. QED
    BY <1>4, <1>5

(* A target is written: its time is past every other's, so what it is made from is older,  *)
(* and what is made from it, and the program, are older than it.                           *)
LEMMA TargetKeepsInv ==
  ASSUME ProjectAssumption, ProjectInv, NEW t \in Names, MakeTarget(t), NEW text,
         files' = [files EXCEPT ![t] = File(text)], now' = now + 1,
         t[2] = "cpp" => text.page = files[making.rules[t]].text,
         t[2] = "o" => text = files[making.rules[t]].text,
         \/ making' = [making EXCEPT !.left = @ \ {t}]
         \/ making' = NotMaking,
         UNCHANGED <<program, makefile, written>>
  PROVE  ProjectInv'
  <1> USE DEF ProjectInv
  <1> DEFINE source == making.rules[t]
  <1>1. now \in Nat /\ DOMAIN files = Names
    BY DEF ProjectTypeOK
  <1>2. /\ t \in DOMAIN making.rules /\ t \notin Sources /\ t[1] \in AllNames
        /\ \/ t = <<t[1], "cpp">> /\ t[1] \in Pages /\ source = <<t[1], "wx">>
           \/ t = <<t[1], "o">> /\ making.links /\ source = <<t[1], "cpp">>
        /\ source \in Names /\ source # t /\ Exists(source)
    BY TargetHasSource
  <1>3. \A f \in Names : f # t => files'[f] = files[f] /\ (Exists(f)' <=> Exists(f))
    BY <1>1 DEF Exists, NoFile
  <1>4. /\ files'[t] = File(text) /\ Exists(t)'
        /\ files'[t].text = text /\ files'[t].time = now + 1
    BY <1>1, FileIsRecord DEF Exists, NoFile
  <1>5. \A f \in Names : Exists(f) => files[f].time \in Nat /\ files[f].time <= now
    BY DEF ProjectTypeOK, IsFile
  <1>6. /\ RulesRight(makefile)' /\ RulesRight(making)' /\ MadeInOrder'
        /\ (making = [rules |-> making.rules, links |-> making.links,
                      left |-> making.left, runs |-> making.runs])'
        /\ (making.left \subseteq DOMAIN making.rules)'
    BY <1>2, <1>3, <1>4, MakeGoesOn
  <1>7. ProjectTypeOK'
    <2>1. ASSUME NEW f \in Names, Exists(f)' PROVE IsFile(files'[f], now')
      <3>1. CASE f = t
        BY <1>1, <1>4, <3>1, FileIsRecord DEF IsFile
      <3>2. CASE f # t
        BY <1>1, <1>3, <2>1, <3>2 DEF ProjectTypeOK, IsFile
      <3>3. QED
        BY <3>1, <3>2
    <2>2. QED
      BY <1>1, <1>6, <2>1 DEF ProjectTypeOK, NoFile
  <1>8. SourcesFirst'
    <2> SUFFICES ASSUME NEW x \in AllNames
                 PROVE  /\ Exists(<<x, "o">>)' => Exists(<<x, "cpp">>)'
                        /\ x \in Pages /\ Exists(<<x, "cpp">>)' => Exists(<<x, "wx">>)'
                        /\ x \in OwnCode => ~Exists(<<x, "wx">>)'
      BY DEF SourcesFirst
    <2>1. <<x, "wx">> \in Names /\ <<x, "cpp">> \in Names /\ <<x, "o">> \in Names
      BY SourceNames
    <2>2. t # <<x, "wx">>
      BY <1>2
    <2>3. x \in OwnCode => ~Exists(<<x, "wx">>)
      BY DEF SourcesFirst
    <2>4. Exists(<<x, "o">>)' => Exists(<<x, "cpp">>)'
      <3>1. CASE t = <<x, "o">>
        BY <1>2, <1>3, <2>1, <3>1
      <3>2. CASE t # <<x, "o">>
        BY <1>3, <1>4, <2>1, <3>2 DEF SourcesFirst
      <3>3. QED
        BY <3>1, <3>2
    <2>5. x \in Pages /\ Exists(<<x, "cpp">>)' => Exists(<<x, "wx">>)'
      <3>1. CASE t = <<x, "cpp">>
        BY <1>2, <1>3, <2>1, <3>1
      <3>2. CASE t # <<x, "cpp">>
        BY <1>3, <2>1, <2>2, <3>2 DEF SourcesFirst
      <3>3. QED
        BY <3>1, <3>2
    <2>6. QED
      BY <1>3, <2>1, <2>2, <2>4, <2>5, <2>3
  <1>9. MadeFrom'
    <2> SUFFICES ASSUME NEW x \in AllNames
                 PROVE  /\ x \in Pages /\ Exists(<<x, "cpp">>)'
                           /\ files'[<<x, "cpp">>].time >= files'[<<x, "wx">>].time =>
                             files'[<<x, "cpp">>].text.page = files'[<<x, "wx">>].text
                        /\ Exists(<<x, "o">>)'
                           /\ files'[<<x, "o">>].time >= files'[<<x, "cpp">>].time =>
                             files'[<<x, "o">>].text = files'[<<x, "cpp">>].text
      BY DEF MadeFrom
    <2>1. <<x, "wx">> \in Names /\ <<x, "cpp">> \in Names /\ <<x, "o">> \in Names
      BY SourceNames
    <2>2. t # <<x, "wx">>
      BY <1>2
    <2>3. CASE t = <<x, "cpp">>
      <3>1. x \in Pages /\ source = <<x, "wx">> /\ t[2] = "cpp"
        BY <1>2, <2>3
      <3>2. files'[<<x, "cpp">>].text.page = files'[<<x, "wx">>].text
        BY <1>3, <1>4, <2>1, <2>2, <2>3, <3>1
      <3>3. ~(Exists(<<x, "o">>)' /\ files'[<<x, "o">>].time >= files'[<<x, "cpp">>].time)
        BY <1>1, <1>3, <1>4, <1>5, <2>1, <2>3
      <3>4. QED
        BY <3>2, <3>3
    <2>4. CASE t = <<x, "o">>
      <3>1. source = <<x, "cpp">> /\ t[2] = "o"
        BY <1>2, <2>4
      <3>2. files'[<<x, "o">>].text = files'[<<x, "cpp">>].text
        BY <1>3, <1>4, <2>1, <2>4, <3>1
      <3>3. x \in Pages /\ Exists(<<x, "cpp">>)'
            /\ files'[<<x, "cpp">>].time >= files'[<<x, "wx">>].time =>
              files'[<<x, "cpp">>].text.page = files'[<<x, "wx">>].text
        BY <1>3, <2>1, <2>2, <2>4 DEF MadeFrom
      <3>4. QED
        BY <3>2, <3>3
    <2>5. CASE t # <<x, "cpp">> /\ t # <<x, "o">>
      BY <1>3, <2>1, <2>2, <2>5 DEF MadeFrom
    <2>6. QED
      BY <2>3, <2>4, <2>5
  <1>10. LinkedLast'
    <2> SUFFICES ASSUME program # NoFile, NEW x \in AllNames, Exists(<<x, "o">>)',
                        files'[<<x, "o">>].time <= program.time
                 PROVE  /\ <<x, "o">> \in DOMAIN program.objects
                        /\ program.objects[<<x, "o">>] = files'[<<x, "o">>].text
      BY DEF LinkedLast, NoFile
    <2>1. program.time \in Nat /\ program.time <= now
      BY DEF ProjectTypeOK
    <2>2. <<x, "o">> \in Names
      BY SourceNames
    <2>3. t # <<x, "o">>
      <3> SUFFICES ASSUME t = <<x, "o">> PROVE FALSE
        OBVIOUS
      <3>1. files'[<<x, "o">>].time = now + 1
        BY <1>4
      <3>2. QED
        BY <1>1, <2>1, <3>1
    <2>4. QED
      BY <1>3, <2>2, <2>3 DEF LinkedLast
  <1>11. SourcesAsWritten'
    BY <1>2, <1>3, SourceNames, ASourceIs DEF SourcesAsWritten
  <1>12. QED
    BY <1>6, <1>7, <1>8, <1>9, <1>10, <1>11

(* A target is up to date, is made, or cannot be made. *)
LEMMA MakeTargetKeepsInv ==
  ASSUME ProjectAssumption, ProjectInv, NEW t \in Names, MakeTarget(t)
  PROVE  ProjectInv'
  <1> DEFINE text == files[making.rules[t]].text
  <1>1. UNCHANGED <<program, makefile, written>>
    BY DEF MakeTarget
  <1>2. t \in DOMAIN making.rules /\ (t[2] = "cpp" \/ t[2] = "o")
    BY TargetHasSource
  <1>3. \/ ~Older(t, making.rules[t]) /\ Done(t) /\ UNCHANGED <<files, now>>
        \/ \E ok \in BOOLEAN : t[2] = "cpp" /\ Translate(t, ok)
        \/ \E ok \in BOOLEAN : t[2] # "cpp" /\ Compile(t, ok)
    BY DEF MakeTarget
  <1>4. ASSUME UNCHANGED <<files, now>>, (Done(t) /\ Exists(t)) \/ Stop
        PROVE  ProjectInv'
    <2>1. \A f : Exists(f)' <=> Exists(f)
      BY <1>4 DEF Exists, NoFile
    <2>2. \/ making' = [making EXCEPT !.left = @ \ {t}] /\ Exists(t)'
          \/ making' = NotMaking
      BY <1>4, <2>1 DEF Done, Stop
    <2>3. /\ RulesRight(makefile)' /\ RulesRight(making)' /\ MadeInOrder'
          /\ (making = [rules |-> making.rules, links |-> making.links,
                        left |-> making.left, runs |-> making.runs])'
          /\ (making.left \subseteq DOMAIN making.rules)'
      BY <1>1, <1>2, <2>1, <2>2, MakeGoesOn
    <2>4. ProjectTypeOK'
      BY <1>1, <1>4, <2>1, <2>3 DEF ProjectInv, ProjectTypeOK, IsFile, NoFile
    <2>5. SourcesFirst' /\ MadeFrom' /\ LinkedLast' /\ SourcesAsWritten'
      BY <1>1, <1>4, <2>1
      DEF ProjectInv, SourcesFirst, MadeFrom, LinkedLast, SourcesAsWritten, NoFile
    <2>6. QED
      BY <2>3, <2>4, <2>5 DEF ProjectInv
  <1>5. CASE ~Older(t, making.rules[t]) /\ Done(t) /\ UNCHANGED <<files, now>>
    BY <1>4, <1>5 DEF Older
  <1>6. ASSUME NEW ok \in BOOLEAN, t[2] = "cpp", Translate(t, ok)
        PROVE  ProjectInv'
    <2> DEFINE made == [page |-> text, whole |-> ok]
    <2>1. made.page = text
      OBVIOUS
    <2>2. /\ files' = [files EXCEPT ![t] = File(made)] /\ now' = now + 1
          /\ making' = [making EXCEPT !.left = @ \ {t}] \/ making' = NotMaking
      BY <1>6 DEF Translate, Done, Stop
    <2> HIDE DEF made
    <2>3. QED
      BY <1>1, <1>6, <2>1, <2>2, TargetKeepsInv
  <1>7. ASSUME NEW ok \in BOOLEAN, t[2] # "cpp", Compile(t, ok)
        PROVE  ProjectInv'
    <2>1. CASE ok
      BY <1>1, <1>2, <1>7, <2>1, TargetKeepsInv DEF Compile, Done
    <2>2. CASE ~ok
      BY <1>4, <1>7, <2>2 DEF Compile
    <2>3. QED
      BY <2>1, <2>2
  <1>8. QED
    BY <1>3, <1>5, <1>6, <1>7

(* make links what is left to link: the program then has every object there is. *)
LEMMA FinishMakeKeepsInv ==
  ASSUME ProjectInv, FinishMake
  PROVE  ProjectInv'
  <1> USE DEF ProjectInv
  <1>1. making' = NotMaking /\ UNCHANGED <<files, makefile, written>>
    BY DEF FinishMake, Stop
  <1>2. \A f : Exists(f)' <=> Exists(f)
    BY <1>1 DEF Exists, NoFile
  <1>3. now \in Nat
    BY DEF ProjectTypeOK
  <1>4. /\ DOMAIN making'.rules = {} /\ making'.links = FALSE /\ making'.left = {}
        /\ making' = [rules |-> making'.rules, links |-> making'.links,
                      left |-> making'.left, runs |-> making'.runs]
    BY <1>1 DEF NotMaking
  <1>5. RulesRight(makefile)' /\ RulesRight(making)' /\ MadeInOrder'
    BY <1>1, <1>2, <1>4 DEF RulesRight, MadeInOrder
  <1>6. SourcesFirst' /\ MadeFrom' /\ SourcesAsWritten'
    BY <1>1, <1>2 DEF SourcesFirst, MadeFrom, SourcesAsWritten
  <1> DEFINE objects == [t \in {u \in DOMAIN making.rules : u[2] = "o"} |-> files[t].text]
  <1>7. \/ /\ making.links /\ now' = now + 1
           /\ program' = [time |-> now + 1, objects |-> objects]
        \/ UNCHANGED <<program, now>>
    BY DEF FinishMake
  <1>8. CASE UNCHANGED <<program, now>>
    <2>1. ProjectTypeOK' /\ LinkedLast'
      BY <1>1, <1>2, <1>4, <1>8 DEF ProjectTypeOK, LinkedLast, IsFile, NoFile
    <2>2. QED
      BY <1>5, <1>6, <2>1
  <1>9. CASE making.links /\ now' = now + 1
             /\ program' = [time |-> now + 1, objects |-> objects]
    <2>1. program'.time = now + 1 /\ program'.objects = objects
      BY <1>9
    <2>2. \A x \in AllNames : Exists(<<x, "o">>) =>
            <<x, "o">> \in DOMAIN objects /\ objects[<<x, "o">>] = files[<<x, "o">>].text
      BY <1>9 DEF RulesRight
    <2>3. LinkedLast'
      BY <1>1, <1>2, <2>1, <2>2 DEF LinkedLast
    <2> HIDE DEF objects
    <2>4. ProjectTypeOK'
      BY <1>1, <1>2, <1>3, <1>4, <1>9, <2>1 DEF ProjectTypeOK, IsFile, NoFile
    <2>5. QED
      BY <1>5, <1>6, <2>3, <2>4
  <1>10. QED
    BY <1>7, <1>8, <1>9

LEMMA ProjectInvHolds ==
  ASSUME ProjectAssumption
  PROVE  ProjectSpec => []ProjectInv
  <1>1. ProjectInit => ProjectInv
    BY ProjectInitHolds
  <1>2. ProjectInv /\ [ProjectNext]_projectvars => ProjectInv'
    <2> SUFFICES ASSUME ProjectInv, [ProjectNext]_projectvars PROVE ProjectInv'
      OBVIOUS
    <2>1. CASE \E f \in Sources : Edit(f)
      BY <2>1, EditKeepsInv
    <2>2. CASE \E list \in Skeletons : Scaffold(list)
      BY <2>2, ScaffoldKeepsInv
    <2>3. CASE \E links \in BOOLEAN : MakeMakefile(links)
      BY <2>3, MakeMakefileKeepsInv
    <2>4. CASE StartMake \/ FinishMake
      BY <2>4, StartMakeKeepsInv, FinishMakeKeepsInv
    <2>5. CASE \E t \in Names : MakeTarget(t)
      BY <2>5, MakeTargetKeepsInv
    <2>6. CASE UNCHANGED projectvars
      <3>1. UNCHANGED <<files, program, makefile, making, now, written>>
        BY <2>6 DEF projectvars
      <3>2. \A f : Exists(f)' <=> Exists(f)
        BY <3>1 DEF Exists, NoFile
      <3>3. ProjectTypeOK' /\ RulesRight(makefile)' /\ RulesRight(making)' /\ MadeInOrder'
        BY <3>1, <3>2 DEF ProjectInv, ProjectTypeOK, RulesRight, MadeInOrder, IsFile, NoFile
      <3>4. SourcesFirst' /\ MadeFrom' /\ LinkedLast' /\ SourcesAsWritten'
        BY <3>1, <3>2
        DEF ProjectInv, SourcesFirst, MadeFrom, LinkedLast, SourcesAsWritten, NoFile
      <3>5. QED
        BY <3>3, <3>4 DEF ProjectInv
    <2>7. QED
      BY <2>1, <2>2, <2>3, <2>4, <2>5, <2>6 DEF ProjectNext
  <1>3. QED
    BY <1>1, <1>2, PTL DEF ProjectSpec

(* Whatever is written, added, half made or failed between two runs of make, and whichever   *)
(* Makefile it began with: once it has nothing to do by a Makefile of mkmakefile, the        *)
(* program has the object of every source there, made from what the source now says; and a   *)
(* skeleton asked for again leaves what the developer wrote.                                 *)
THEOREM ProgramIsUpToDate ==
  ASSUME ProjectAssumption
  PROVE  ProjectSpec => []ProgramFollowsSources
  <1>1. ProjectInv => ProgramFollowsSources
    <2> SUFFICES ASSUME ProjectInv PROVE ProgramFollowsSources
      OBVIOUS
    <2> USE DEF ProjectInv
    <2>1. ASSUME UpToDate, NEW t \in DOMAIN makefile.rules
          PROVE  LET source == files[Source(t[1])].text
                     object == <<t[1], "o">> IN
                 /\ object \in DOMAIN program.objects
                 /\ IF t[1] \in Pages THEN program.objects[object].page = source
                    ELSE program.objects[object] = source
      <3> DEFINE x == t[1]
                 o == <<x, "o">>
                 cpp == <<x, "cpp">>
      <3>1. makefile.links /\ program # NoFile
            /\ \A u \in DOMAIN makefile.rules :
                 ~Older(u, makefile.rules[u]) /\ files[u].time <= program.time
        BY <2>1 DEF UpToDate
      <3>2. t \in Names /\ Exists(Source(x)) /\ x \in AllNames
        BY DEF RulesRight, Names, AllNames
      <3>3. o \in DOMAIN makefile.rules /\ (x \in Pages => cpp \in DOMAIN makefile.rules)
        BY <3>1 DEF RulesRight
      <3>4. makefile.rules[o] = cpp
        BY <3>3 DEF RulesRight
      <3>5. Exists(o) /\ ~(files[o].time < files[cpp].time) /\ files[o].time <= program.time
        BY <3>1, <3>3, <3>4 DEF Older
      <3>6. Exists(cpp) /\ o \in Names /\ cpp \in Names /\ <<x, "wx">> \in Names
        BY <3>2, <3>5, SourceNames DEF SourcesFirst
      <3>7. files[o].time \in Nat /\ files[cpp].time \in Nat
        BY <3>5, <3>6 DEF ProjectTypeOK, IsFile
      <3>8. files[o].text = files[cpp].text
        <4>1. files[o].time >= files[cpp].time
          BY <3>5, <3>7
        <4>2. Exists(o) /\ files[o].time >= files[cpp].time => files[o].text = files[cpp].text
          BY <3>2 DEF MadeFrom
        <4>3. QED
          BY <3>5, <4>1, <4>2
      <3>9. o \in DOMAIN program.objects /\ program.objects[o] = files[o].text
        BY <3>1, <3>2, <3>5 DEF LinkedLast
      <3>10. CASE x \in Pages
        <4>1. Source(x) = <<x, "wx">> /\ makefile.rules[cpp] = <<x, "wx">>
          BY <3>2, <3>3, <3>10, SourceNames DEF RulesRight
        <4>2. ~(files[cpp].time < files[<<x, "wx">>].time)
          BY <3>1, <3>3, <3>10, <4>1 DEF Older
        <4>3. files[<<x, "wx">>].time \in Nat
          BY <3>2, <3>6, <4>1 DEF ProjectTypeOK, IsFile
        <4>4. files[cpp].text.page = files[<<x, "wx">>].text
          BY <3>2, <3>6, <3>7, <3>10, <4>2, <4>3 DEF MadeFrom
        <4>5. QED
          BY <3>8, <3>9, <3>10, <4>1, <4>4
      <3>11. CASE x \notin Pages
        <4>1. Source(x) = cpp
          BY <3>2, <3>11, SourceNames DEF AllNames
        <4>2. QED
          BY <3>8, <3>9, <3>11, <4>1
      <3>12. QED
        BY <3>10, <3>11
    <2>2. QED
      BY <2>1 DEF ProgramFollowsSources, SourcesAsWritten
  <1>2. QED
    BY <1>1, ProjectInvHolds, PTL

-----------------------------------------------------------------------------
(* Numbers: every set of them has a least one, which is all the induction  *)
(* over data needs.                                                        *)

LEMMA LeastNumber ==
  ASSUME NEW T \in SUBSET Nat, T # {}
  PROVE  \E x \in T : \A y \in T : x <= y
  <1>1. PICK R : R = OpToRel(<, Nat)
    OBVIOUS
  <1>2. IsWellFoundedOn(R, Nat)
    BY <1>1, NatLessThanWellFounded
  <1>3. PICK x \in T : \A y \in T : <<y, x>> \notin R
    BY <1>2, WFMin
  <1>4. \A y \in T : ~(y < x)
    BY <1>1, <1>3 DEF OpToRel
  <1>5. \A y \in T : x <= y
    BY <1>4
  <1>6. QED
    BY <1>5

LEMMA GreatestNumber ==
  ASSUME NEW bound \in Nat, NEW T \in SUBSET (0 .. bound), T # {}
  PROVE  \E x \in T : \A y \in T : y <= x
  <1>1. PICK D : D = {d \in Nat : bound - d \in T}
    OBVIOUS
  <1>2. \A y \in T : bound - y \in D
    <2>1. ASSUME NEW y \in T PROVE bound - y \in Nat /\ bound - (bound - y) = y
      OBVIOUS
    <2>2. QED
      BY <1>1, <2>1
  <1>3. D \in SUBSET Nat /\ D # {}
    BY <1>1, <1>2
  <1>4. PICK d \in D : \A e \in D : d <= e
    BY <1>3, LeastNumber
  <1>5. ASSUME NEW y \in T PROVE y <= bound - d
    <2>1. d <= bound - y
      BY <1>2, <1>4
    <2>2. d \in Nat /\ y \in Nat
      BY <1>1
    <2>3. QED
      BY <2>1, <2>2
  <1>6. QED
    BY <1>1, <1>4, <1>5

\* A set of numbers with zero and what follows each of its members has them all.
LEMMA AllNumbers ==
  ASSUME NEW T \in SUBSET Nat, 0 \in T, \A n \in T : n + 1 \in T
  PROVE  \A n \in Nat : n \in T
  <1>1. SUFFICES ASSUME Nat \ T # {} PROVE FALSE
    OBVIOUS
  <1>2. PICK n \in Nat \ T : \A m \in Nat \ T : n <= m
    BY <1>1, LeastNumber
  <1>3. n - 1 \in Nat
    BY <1>2
  <1>4. n - 1 \in T
    BY <1>2, <1>3
  <1>5. (n - 1) + 1 \in T
    BY <1>4
  <1>6. QED
    BY <1>2, <1>5

\* What is done again and again to something has a result after each time.
LEMMA Iterates ==
  ASSUME NEW S, NEW start \in S, NEW F \in [S -> S]
  PROVE  \E h \in [Nat -> S] : h[0] = start /\ \A n \in Nat : h[n + 1] = F[h[n]]
  <1> DEFINE Upto(g, n) == /\ g \in [0 .. n -> S] /\ g[0] = start
                           /\ \A i \in 0 .. n - 1 : g[i + 1] = F[g[i]]
             Some == {n \in Nat : \E g : Upto(g, n)}
  <1>1. 0 \in Some
    <2>1. Upto([i \in 0 .. 0 |-> start], 0)
      OBVIOUS
    <2>2. QED
      BY <2>1
  <1>2. ASSUME NEW n \in Some PROVE n + 1 \in Some
    <2>1. PICK g : Upto(g, n)
      OBVIOUS
    <2>2. n \in Nat
      OBVIOUS
    <2>3. PICK more : more = [i \in 0 .. n + 1 |-> IF i <= n THEN g[i] ELSE F[g[n]]]
      OBVIOUS
    <2>4. more \in [0 .. n + 1 -> S] /\ more[0] = start
      BY <2>1, <2>2, <2>3
    <2>5. ASSUME NEW i \in 0 .. (n + 1) - 1 PROVE more[i + 1] = F[more[i]]
      <3>1. CASE i + 1 <= n
        <4>1. i \in 0 .. n - 1 /\ i <= n
          BY <2>2, <3>1
        <4>2. QED
          BY <2>1, <2>2, <2>3, <3>1, <4>1
      <3>2. CASE ~(i + 1 <= n)
        <4>1. i = n
          BY <2>2, <3>2
        <4>2. QED
          BY <2>2, <2>3, <4>1
      <3>3. QED
        BY <3>1, <3>2
    <2>6. Upto(more, n + 1)
      BY <2>4, <2>5
    <2>7. QED
      BY <2>2, <2>6
  <1>3. \A n \in Nat : n \in Some
    <2> HIDE DEF Some
    <2>1. Some \in SUBSET Nat
      BY DEF Some
    <2>2. QED
      BY <1>1, <1>2, <2>1, AllNumbers
  <1>4. ASSUME NEW n \in Nat, NEW m \in Nat, NEW g, NEW other, Upto(g, n), Upto(other, m)
        PROVE  \A i \in Nat : i <= n /\ i <= m => g[i] = other[i]
    <2> DEFINE Same == {i \in Nat : i <= n /\ i <= m => g[i] = other[i]}
    <2>1. 0 \in Same
      BY <1>4
    <2>2. ASSUME NEW i \in Same PROVE i + 1 \in Same
      <3>1. SUFFICES ASSUME i + 1 <= n, i + 1 <= m PROVE g[i + 1] = other[i + 1]
        OBVIOUS
      <3>2. i \in 0 .. n - 1 /\ i \in 0 .. m - 1 /\ g[i] = other[i]
        BY <3>1
      <3>3. QED
        BY <1>4, <3>2
    <2>3. \A i \in Nat : i \in Same
      <3> HIDE DEF Same
      <3>1. Same \in SUBSET Nat
        BY DEF Same
      <3>2. QED
        BY <2>1, <2>2, <3>1, AllNumbers
    <2>4. QED
      BY <2>3
  <1>5. PICK G : G = [n \in Nat |-> CHOOSE g : Upto(g, n)]
    OBVIOUS
  <1>6. \A n \in Nat : Upto(G[n], n)
    BY <1>3, <1>5
  <1>7. PICK h : h = [n \in Nat |-> G[n][n]]
    OBVIOUS
  <1>8. ASSUME NEW n \in Nat PROVE h[n] \in S /\ h[n + 1] = F[h[n]]
    <2>1. h[n] = G[n][n] /\ h[n + 1] = G[n + 1][n + 1]
      BY <1>7
    <2>2. Upto(G[n], n) /\ Upto(G[n + 1], n + 1)
      BY <1>6
    <2>3. G[n][n] = G[n + 1][n]
      <3> HIDE DEF Upto
      <3>1. \A i \in Nat : i <= n /\ i <= n + 1 => G[n][i] = G[n + 1][i]
        BY <1>4, <2>2
      <3>2. QED
        BY <3>1
    <2>4. h[n] \in S
      <3>1. G[n] \in [0 .. n -> S] /\ n \in 0 .. n
        BY <2>2
      <3>2. QED
        BY <2>1, <3>1
    <2>5. G[n + 1][n + 1] = F[G[n + 1][n]]
      <3>1. n \in 0 .. (n + 1) - 1
        OBVIOUS
      <3>2. QED
        BY <2>2, <3>1
    <2> HIDE DEF Upto
    <2>6. QED
      BY <2>1, <2>3, <2>4, <2>5
  <1>9. h[0] = start
    BY <1>6, <1>7
  <1>10. QED
    BY <1>7, <1>8, <1>9

-----------------------------------------------------------------------------
(* Of Statement.                                                           *)

(* A column of a row once it has been read. *)
Whole(value) ==
  [fetched |-> TRUE, isnull |-> value = Null, value |-> IF value = Null THEN <<>> ELSE value]

NamesOf(q) == [c \in DOMAIN Results[q].columns |-> Lowercase[Results[q].columns[c]]]

Texts == DOMAIN Results \cup {BadText}
Cells == [fetched : BOOLEAN, isnull : BOOLEAN, value : Seq(Nat)]

StatementType ==
  [query : Seq(Texts \cup {Mark}), fresh : BOOLEAN, params : Seq(Variables), outs : Seq(Variables),
   names : {<<>>} \cup {NamesOf(q) : q \in DOMAIN Results}, row : Seq(Cells), valid : BOOLEAN,
   prepared : DOMAIN Results \cup {NoQuery}, marks : Nat, open : BOOLEAN, pos : Nat, col : Nat,
   ok : BOOLEAN]

(* A cursor is of a query, whose names are known or are asked for again. *)
CursorKnown(s) ==
  s.open => s.prepared \in DOMAIN Results /\ s.names \in {<<>>, NamesOf(s.prepared)}

(* What has been read of the row the cursor is on: its columns up to col. *)
RowRead(s) ==
  OnRow(s) =>
    /\ \A c \in DOMAIN s.row :
         IF c <= s.col THEN s.row[c] = Whole(Rows(s)[s.pos][c]) ELSE ~s.row[c].fetched
    /\ s.col # 0 => Len(s.row) = Len(Columns(s)) /\ s.col <= Len(s.row)

(* Variables are bound one for each mark of a query that is being streamed. *)
Streamed(s) ==
  /\ s.query # <<>> => s.query[1] \in Texts
  /\ s.fresh => /\ s.query # <<>> => ~s.open /\ Len(s.params) = Len(s.query) - 1
                /\ s.query = <<>> => s.params = <<>>

StatementOK(s) == s \in StatementType /\ CursorKnown(s) /\ RowRead(s) /\ Streamed(s)

SizeOf(q) == LET sizes == ToSet(Results[q].sizes) IN
             CHOOSE n \in sizes : \A m \in sizes : m <= n
Shows(strings, q, n) ==
  n \in DOMAIN Results[q].rows /\ ShownAs(Results[q].rows[n], strings, SizeOf(q))

IsDbRec(r) ==
  /\ r = [kind |-> "db", empty |-> r.empty, iterating |-> r.iterating, first |-> r.first,
          current |-> r.current, valid |-> r.valid]
  /\ r.valid => r.iterating

(* A mem_db_rec has the rows from where its statement was, a db_rec's statement *)
(* stays on the row it shows.                                                   *)
RecordOK ==
  \/ rec = NoRecord
  \/ /\ rec.kind = "mem"
     /\ rec.query \in DOMAIN Results
     /\ Len(rec.rows) = Len(Results[rec.query].rows) - rec.from + 1
     /\ \A n \in DOMAIN rec.rows : Shows(rec.rows[n], rec.query, rec.from + n - 1)
  \/ /\ IsDbRec(rec)
     /\ ~rec.iterating /\ ~rec.empty => OnRow(st) /\ Shows(rec.first, st.prepared, st.pos)
     /\ rec.valid => OnRow(st) /\ Shows(rec.current, st.prepared, st.pos)

StatementInv == StatementOK(st) /\ RecordOK

-----------------------------------------------------------------------------
\* The blocks row_load reads, put together, are the value.
LEMMA AssembledWhole ==
  ASSUME StatementAssumption, NEW value \in Seq(Nat)
  PROVE  Assembled(value) = value
  <1> DEFINE Rest(at) == SubSeq(value, at, Len(value))
             Left(at) == IF at <= Len(value) THEN Len(value) - at + 1 ELSE 0
             Got(at)  == IF Left(at) >= BufSize THEN BufSize - 1 ELSE Left(at)
             Read(h)  == [at \in Nat \ {0} |->
               LET got == SQLGetData(Rest(at), BufSize)
                   len == IF got.outlen >= BufSize THEN BufSize - 1 ELSE got.outlen IN
               SubSeq(got.buf, 1, len) \o (IF got.more THEN h[at + len] ELSE <<>>)]
  <1> HIDE DEF Rest, Left, Got, Read
  <1>1. BufSize \in Nat /\ BufSize >= 2 /\ Len(value) \in Nat
    BY LenProperties DEF StatementAssumption
  <1>2. ASSUME NEW at \in Nat \ {0}
        PROVE  /\ Rest(at) \in Seq(Nat) /\ Len(Rest(at)) = Left(at)
               /\ Left(at) \in Nat /\ Got(at) \in Nat /\ Got(at) <= Left(at)
               /\ \A i \in 1 .. Left(at) : Rest(at)[i] = value[at + i - 1]
    <2>1. \A i \in at .. Len(value) : value[i] \in Nat
      BY <1>1, ElementOfSeq
    <2>2. Rest(at) \in Seq(Nat) /\ Len(Rest(at)) = Left(at)
          /\ \A i \in 1 .. Len(value) - at + 1 : Rest(at)[i] = value[at + i - 1]
      BY <1>1, <2>1, SubSeqProperties DEF Rest, Left
    <2>3. QED
      BY <1>1, <2>2 DEF Left, Got
  <1>3. ASSUME NEW at \in Nat \ {0}
        PROVE  /\ SQLGetData(Rest(at), BufSize).outlen = Left(at)
               /\ SQLGetData(Rest(at), BufSize).more = (Left(at) >= BufSize)
               /\ SubSeq(SQLGetData(Rest(at), BufSize).buf, 1, Got(at))
                    = SubSeq(value, at, at + Got(at) - 1)
    <2>1. PICK rest \in Seq(Nat) : rest = Rest(at)
      BY <1>2
    <2>2. PICK n \in Nat : n = IF BufSize - 1 < Len(rest) THEN BufSize - 1 ELSE Len(rest)
      BY <1>1, <1>2, <2>1
    <2>3. n = Got(at) /\ n <= Len(rest) /\ Len(rest) = Left(at)
      <3>1. Len(rest) = Left(at) /\ Left(at) \in Nat
        BY <1>2, <2>1
      <3>2. QED
        BY <1>1, <2>2, <3>1 DEF Got
    <2>4. PICK buf : buf = SubSeq(rest, 1, n) \o <<0>>
      OBVIOUS
    <2>5. SQLGetData(Rest(at), BufSize).buf = buf
      BY <2>1, <2>2, <2>4 DEF SQLGetData, Shortened
    <2>6. SubSeq(rest, 1, n) \in Seq(Nat) /\ Len(SubSeq(rest, 1, n)) = n
          /\ \A i \in 1 .. n : SubSeq(rest, 1, n)[i] = rest[i]
      <3>1. \A i \in 1 .. n : rest[i] \in Nat
        <4>1. Len(rest) \in Nat
          BY LenProperties
        <4>2. QED
          BY <2>3, <4>1, ElementOfSeq
      <3>2. QED
        BY <3>1, SubSeqProperties
    <2>7. buf \in Seq(Nat) /\ Len(buf) = n + 1 /\ \A i \in 1 .. n : buf[i] = rest[i]
      <3>1. <<0>> \in Seq(Nat) /\ Len(<<0>>) = 1
        OBVIOUS
      <3>2. QED
        BY <2>4, <2>6, <3>1, ConcatProperties
    <2>8. SubSeq(buf, 1, n) \in Seq(Nat) /\ Len(SubSeq(buf, 1, n)) = n
          /\ \A i \in 1 .. n : SubSeq(buf, 1, n)[i] = buf[i]
      <3>1. \A i \in 1 .. n : buf[i] \in Nat
        BY <2>7, ElementOfSeq
      <3>2. QED
        BY <3>1, SubSeqProperties
    <2>9. /\ SubSeq(value, at, at + n - 1) \in Seq(Nat)
          /\ Len(SubSeq(value, at, at + n - 1)) = n
          /\ \A i \in 1 .. n : SubSeq(value, at, at + n - 1)[i] = value[at + i - 1]
      <3>1. at + n - 1 \in Int /\ (n > 0 => at + n - 1 <= Len(value))
        BY <1>1, <2>3 DEF Left
      <3>2. \A i \in at .. at + n - 1 : value[i] \in Nat
        BY <1>1, <3>1, ElementOfSeq
      <3>3. QED
        BY <3>1, <3>2, SubSeqProperties
    <2>10. \A i \in 1 .. n : SubSeq(buf, 1, n)[i] = SubSeq(value, at, at + n - 1)[i]
      <3>1. ASSUME NEW i \in 1 .. n PROVE rest[i] = value[at + i - 1]
        <4>1. i \in 1 .. Left(at)
          BY <1>2, <2>3
        <4>2. QED
          BY <1>2, <2>1, <4>1
      <3>2. QED
        BY <2>7, <2>8, <2>9, <3>1
    <2>11. SubSeq(buf, 1, n) = SubSeq(value, at, at + n - 1)
      BY <2>8, <2>9, <2>10, SeqEqual
    <2>12. QED
      BY <2>1, <2>3, <2>5, <2>11 DEF SQLGetData
  <1>4. ASSUME NEW h, NEW at \in Nat \ {0}
        PROVE  Read(h)[at] = SubSeq(value, at, at + Got(at) - 1)
                 \o (IF Left(at) >= BufSize THEN h[at + Got(at)] ELSE <<>>)
    BY <1>2, <1>3 DEF Read, Got
  <1>5. ASSUME NEW at \in Nat \ {0}, Left(at) >= BufSize
        PROVE  /\ at + Got(at) \in Nat \ {0} /\ Left(at + Got(at)) < Left(at)
               /\ SubSeq(value, at, at + Got(at) - 1) \o Rest(at + Got(at)) = Rest(at)
    <2>1. PICK end \in Nat : end = at + Got(at) - 1
      <3>1. Got(at) = BufSize - 1
        BY <1>5 DEF Got
      <3>2. QED
        BY <1>1, <3>1
    <2>2. /\ at \in 1 .. Len(value) + 1 /\ end \in at - 1 .. Len(value)
          /\ Len(value) \in end .. Len(value) /\ at + Got(at) = end + 1
          /\ Left(end + 1) < Left(at)
      <3>1. Got(at) = BufSize - 1
        BY <1>5 DEF Got
      <3>2. at <= Len(value) /\ Left(at) = Len(value) - at + 1
        BY <1>1, <1>5 DEF Left
      <3>3. end = at + BufSize - 2 /\ end <= Len(value) /\ end >= at
        BY <1>1, <1>5, <2>1, <3>1, <3>2
      <3>4. Left(end + 1) < Left(at)
        BY <1>1, <3>2, <3>3 DEF Left
      <3>5. QED
        BY <1>1, <2>1, <3>1, <3>2, <3>3, <3>4
    <2>3. SubSeq(value, at, end) \o SubSeq(value, end + 1, Len(value))
            = SubSeq(value, at, Len(value))
      BY <2>2, ConcatAdjacentSubSeq
    <2>4. QED
      <3>1. at + Got(at) = end + 1 /\ end + 1 \in Nat \ {0}
        BY <2>1, <2>2
      <3>2. SubSeq(value, at, end) \o Rest(end + 1) = Rest(at)
        BY <2>3 DEF Rest
      <3>3. QED
        BY <2>1, <2>2, <3>1, <3>2
  <1>6. ASSUME NEW at \in Nat \ {0}, ~(Left(at) >= BufSize)
        PROVE  SubSeq(value, at, at + Got(at) - 1) \o <<>> = Rest(at)
    <2>1. CASE at <= Len(value)
      <3>1. at + Got(at) - 1 = Len(value)
        BY <1>1, <1>6, <2>1 DEF Left, Got
      <3>2. QED
        BY <1>2, <3>1, ConcatEmptySeq DEF Rest
    <2>2. CASE ~(at <= Len(value))
      <3>1. at + Got(at) - 1 \in Int /\ at + Got(at) - 1 < at /\ Len(value) < at
        BY <1>1, <1>6, <2>2 DEF Left, Got
      <3>2. SubSeq(value, at, at + Got(at) - 1) = <<>> /\ Rest(at) = <<>>
        BY <1>1, <3>1, SubSeqEmpty DEF Rest
      <3>3. QED
        BY <3>2
    <2>3. QED
      BY <2>1, <2>2
  <1>7. PICK whole : whole = [at \in Nat \ {0} |-> Rest(at)]
    OBVIOUS
  <1>8. whole = Read(whole)
    <2>1. ASSUME NEW at \in Nat \ {0} PROVE Read(whole)[at] = whole[at]
      <3>1. CASE Left(at) >= BufSize
        BY <1>4, <1>5, <1>7, <3>1
      <3>2. CASE ~(Left(at) >= BufSize)
        BY <1>4, <1>6, <1>7, <3>2
      <3>3. QED
        BY <3>1, <3>2
    <2>2. QED
      BY <1>7, <2>1 DEF Read
  <1>9. PICK from : from = CHOOSE h : h = Read(h)
    OBVIOUS
  <1>10. from = Read(from)
    BY <1>8, <1>9
  <1>11. ASSUME NEW at \in Nat \ {0} PROVE from[at] = Rest(at)
    <2> DEFINE Wrong == {n \in Nat : \E a \in Nat \ {0} : n = Left(a) /\ from[a] # Rest(a)}
    <2> HIDE DEF Wrong
    <2>1. SUFFICES Wrong = {}
      BY <1>2, <2>1 DEF Wrong
    <2>2. SUFFICES ASSUME Wrong # {} PROVE FALSE
      OBVIOUS
    <2>3. PICK n \in Wrong : \A m \in Wrong : n <= m
      <3>1. Wrong \in SUBSET Nat
        BY DEF Wrong
      <3>2. QED
        BY <2>2, <3>1, LeastNumber
    <2>4. PICK a \in Nat \ {0} : n = Left(a) /\ from[a] # Rest(a)
      BY <2>3 DEF Wrong
    <2>5. CASE Left(a) >= BufSize
      <3>1. Left(a + Got(a)) \notin Wrong
        <4>1. Left(a + Got(a)) < n /\ n \in Nat /\ Left(a + Got(a)) \in Nat
          BY <1>2, <1>5, <2>4, <2>5
        <4>2. QED
          BY <2>3, <4>1
      <3>2. from[a + Got(a)] = Rest(a + Got(a))
        BY <1>2, <1>5, <2>5, <3>1 DEF Wrong
      <3>3. QED
        BY <1>4, <1>5, <1>10, <2>4, <2>5, <3>2
    <2>6. CASE ~(Left(a) >= BufSize)
      BY <1>4, <1>6, <1>10, <2>4, <2>6
    <2>7. QED
      BY <2>5, <2>6
  <1>12. Assembled(value) = from[1]
    BY <1>9 DEF Assembled, Read, Rest
  <1>13. QED
    <2>1. from[1] = Rest(1)
      BY <1>11
    <2>2. Rest(1) = value
      BY SubSeqFull DEF Rest
    <2>3. QED
      BY <1>12, <2>1, <2>2

LEMMA ResultsTyped ==
  ASSUME StatementAssumption, NEW q \in DOMAIN Results
  PROVE  /\ Results[q].columns \in Seq(DOMAIN Lowercase)
         /\ Results[q].sizes \in Seq(Nat) /\ Len(Results[q].sizes) = Len(Results[q].columns)
         /\ Results[q].rows \in Seq([DOMAIN Results[q].columns -> {Null} \cup Seq(Nat)])
         /\ q # NoQuery /\ q # BadText
  BY DEF StatementAssumption

\* fetch_next goes to the next row, of which nothing has been read.
LEMMA FetchNextKeeps ==
  ASSUME StatementAssumption, NEW s, StatementOK(s)
  PROVE  /\ StatementOK(FetchNext(s))
         /\ Rows(FetchNext(s)) = Rows(s)
         /\ FetchNext(s).pos = IF s.pos <= Len(Rows(s)) THEN s.pos + 1 ELSE s.pos
         /\ FetchNext(s).col = 0
         /\ \A c \in DOMAIN FetchNext(s).row : ~FetchNext(s).row[c].fetched
         /\ FetchNext(s).ok <=> OnRow(FetchNext(s))
         /\ FetchNext(s).open = s.open /\ FetchNext(s).prepared = s.prepared
         /\ FetchNext(s).names = s.names
         /\ FetchNext(s).query = s.query /\ FetchNext(s).fresh = s.fresh
  <1>1. s \in StatementType /\ s.pos \in Nat /\ s.row \in Seq(Cells)
    BY DEF StatementOK, StatementType
  <1>2. Rows(s) = <<>> \/ (s.open /\ Rows(s) = Results[s.prepared].rows)
    BY DEF Rows
  <1>3. Len(Rows(s)) \in Nat /\ DOMAIN Rows(s) = 1 .. Len(Rows(s))
    <2>1. CASE Rows(s) = <<>>
      BY <2>1
    <2>2. CASE s.open /\ Rows(s) = Results[s.prepared].rows
      <3>1. s.prepared \in DOMAIN Results
        BY <2>2 DEF StatementOK, CursorKnown
      <3>2. QED
        BY <2>2, <3>1, ResultsTyped, LenProperties
    <2>3. QED
      BY <1>2, <2>1, <2>2
  <1>4. PICK next \in Nat : next = IF s.pos <= Len(Rows(s)) THEN s.pos + 1 ELSE s.pos
    BY <1>1, <1>3
  <1>5. PICK there \in BOOLEAN : there <=> next \in DOMAIN Rows(s)
    <2>1. CASE next \in DOMAIN Rows(s)
      BY <2>1
    <2>2. CASE next \notin DOMAIN Rows(s)
      BY <2>2
    <2>3. QED
      BY <2>1, <2>2
  <1>6. PICK row \in Seq(Cells) : row = [c \in DOMAIN s.row |-> Unread]
    <2>1. DOMAIN s.row = 1 .. Len(s.row) /\ Len(s.row) \in Nat
      BY <1>1, LenProperties
    <2>2. Unread \in Cells
      <3>1. <<>> \in Seq(Nat)
        BY EmptySeq
      <3>2. QED
        BY <3>1 DEF Unread, Cells
    <2>3. [c \in 1 .. Len(s.row) |-> Unread] \in Seq(Cells)
      BY <2>1, <2>2, IsASeq
    <2>4. QED
      BY <2>1, <2>3
  <1>7. PICK f : f = FetchNext(s)
    OBVIOUS
  <1>8. f = [s EXCEPT !.pos = next, !.col = 0, !.ok = there, !.row = row, !.valid = there]
    BY <1>1, <1>4, <1>5, <1>6, <1>7 DEF FetchNext, SQLFetch, StatementType
  <1>9. f \in StatementType
    BY <1>1, <1>8 DEF StatementType
  <1>10. /\ f.pos = next /\ f.col = 0 /\ f.ok = there /\ f.row = row
         /\ f.open = s.open /\ f.prepared = s.prepared /\ f.names = s.names
         /\ f.query = s.query /\ f.fresh = s.fresh /\ f.params = s.params
    BY <1>1, <1>8 DEF StatementType
  <1>11. Rows(f) = Rows(s) /\ (OnRow(f) <=> there) /\ Columns(f) = Columns(s)
    BY <1>5, <1>10 DEF Rows, OnRow, Columns
  <1>12. \A c \in DOMAIN row : ~row[c].fetched
    BY <1>6 DEF Unread
  <1>13. RowRead(f)
    <2>1. ASSUME NEW c \in DOMAIN row PROVE ~(c <= 0)
      BY <1>6, LenProperties
    <2>2. QED
      BY <1>10, <1>12, <2>1 DEF RowRead
  <1>14. CursorKnown(f) /\ Streamed(f)
    BY <1>10 DEF StatementOK, CursorKnown, Streamed
  <1>15. QED
    BY <1>4, <1>7, <1>9, <1>10, <1>11, <1>12, <1>13, <1>14 DEF StatementOK

LEMMA NamesKnown ==
  ASSUME StatementAssumption, NEW q \in DOMAIN Results
  PROVE  /\ Len(Results[q].columns) \in Nat
         /\ DOMAIN Results[q].columns = 1 .. Len(Results[q].columns)
         /\ DOMAIN NamesOf(q) = 1 .. Len(Results[q].columns)
         /\ Len(NamesOf(q)) = Len(Results[q].columns)
  <1>1. PICK columns \in Seq(DOMAIN Lowercase) : columns = Results[q].columns
    BY ResultsTyped
  <1>2. PICK n \in Nat : n = Len(columns) /\ DOMAIN columns = 1 .. n
    BY LenProperties
  <1>3. PICK Lower : Lower = {Lowercase[name] : name \in DOMAIN Lowercase}
    OBVIOUS
  <1>4. \A i \in 1 .. n : Lowercase[columns[i]] \in Lower
    BY <1>2, <1>3, ElementOfSeq
  <1>5. [i \in 1 .. n |-> Lowercase[columns[i]]] \in Seq(Lower)
    BY <1>4, IsASeq
  <1>6. NamesOf(q) = [i \in 1 .. n |-> Lowercase[columns[i]]]
    BY <1>1, <1>2 DEF NamesOf
  <1>7. NamesOf(q) \in Seq(Lower) /\ DOMAIN NamesOf(q) = 1 .. n
    BY <1>5, <1>6
  <1>8. Len(NamesOf(q)) \in Nat /\ DOMAIN NamesOf(q) = 1 .. Len(NamesOf(q))
    BY <1>7, LenProperties
  <1>9. Len(NamesOf(q)) = n
    BY <1>7, <1>8
  <1>10. QED
    BY <1>1, <1>2, <1>7, <1>9

\* load_fieldnames leaves all but the names.
LEMMA WithNamesKeeps ==
  ASSUME StatementAssumption, NEW s, StatementOK(s), s.open
  PROVE  /\ StatementOK(WithNames(s))
         /\ WithNames(s).names = NamesOf(s.prepared)
         /\ s.prepared \in DOMAIN Results /\ Columns(s) = Results[s.prepared].columns
         /\ Rows(s) = Results[s.prepared].rows
         /\ WithNames(s).row = s.row /\ WithNames(s).col = s.col /\ WithNames(s).pos = s.pos
         /\ WithNames(s).open /\ WithNames(s).prepared = s.prepared
         /\ WithNames(s).query = s.query /\ WithNames(s).fresh = s.fresh
         /\ WithNames(s).ok = s.ok
  <1>1. s \in StatementType /\ s.prepared \in DOMAIN Results
        /\ s.names \in {<<>>, NamesOf(s.prepared)}
    BY DEF StatementOK, CursorKnown
  <1>2. Columns(s) = Results[s.prepared].columns /\ Rows(s) = Results[s.prepared].rows
    BY <1>1, ResultsTyped DEF Columns, Rows
  <1>3. PICK n : n = WithNames(s)
    OBVIOUS
  <1>4. n = [s EXCEPT !.names = NamesOf(s.prepared)]
    <2>1. CASE s.names # <<>>
      BY <1>1, <1>3, <2>1 DEF WithNames, StatementType
    <2>2. CASE s.names = <<>>
      BY <1>1, <1>2, <1>3, <2>2 DEF WithNames, StatementType, NamesOf
    <2>3. QED
      BY <2>1, <2>2
  <1>5. n \in StatementType
    <2>1. PICK names \in {<<>>} \cup {NamesOf(q) : q \in DOMAIN Results} :
            names = NamesOf(s.prepared)
      BY <1>1
    <2>2. QED
      BY <1>1, <1>4, <2>1 DEF StatementType
  <1>6. /\ n.names = NamesOf(s.prepared) /\ n.row = s.row /\ n.col = s.col /\ n.pos = s.pos
        /\ n.open = s.open /\ n.prepared = s.prepared /\ n.query = s.query
        /\ n.fresh = s.fresh /\ n.params = s.params /\ n.ok = s.ok
    BY <1>1, <1>4 DEF StatementType
  <1>7. Rows(n) = Rows(s) /\ Columns(n) = Columns(s) /\ (OnRow(n) <=> OnRow(s))
    BY <1>6 DEF Rows, Columns, OnRow
  <1>8. RowRead(n) /\ CursorKnown(n) /\ Streamed(n)
    BY <1>1, <1>6, <1>7 DEF StatementOK, RowRead, CursorKnown, Streamed
  <1>9. QED
    BY <1>1, <1>2, <1>3, <1>5, <1>6, <1>8 DEF StatementOK

\* A column of a row, as row_load reads it.
LEMMA CellRead ==
  ASSUME StatementAssumption, NEW s, StatementOK(s), s.open, NEW c \in 1 .. Len(Columns(s))
  PROVE  /\ Cell(s, c) \in Cells
         /\ OnRow(s) /\ c > s.col => Cell(s, c) = Whole(Rows(s)[s.pos][c])
         /\ OnRow(s) => Rows(s)[s.pos][c] \in {Null} \cup Seq(Nat)
  <1>1. s.prepared \in DOMAIN Results /\ Columns(s) = Results[s.prepared].columns
        /\ Rows(s) = Results[s.prepared].rows
    BY WithNamesKeeps
  <1>2. ASSUME OnRow(s) PROVE Rows(s)[s.pos][c] \in {Null} \cup Seq(Nat)
    <2>1. PICK rows \in Seq([DOMAIN Columns(s) -> {Null} \cup Seq(Nat)]) : rows = Rows(s)
      BY <1>1, ResultsTyped
    <2>2. rows[s.pos] \in [DOMAIN Columns(s) -> {Null} \cup Seq(Nat)]
      BY <1>2, <2>1, ElementOfSeq, LenProperties DEF OnRow
    <2>3. c \in DOMAIN Columns(s)
      BY <1>1, NamesKnown
    <2>4. QED
      BY <2>1, <2>2, <2>3
  <1>3. PICK value : value = IF OnRow(s) /\ c > s.col THEN Rows(s)[s.pos][c] ELSE Null
    OBVIOUS
  <1>4. value \in {Null} \cup Seq(Nat)
    BY <1>2, <1>3
  <1>5. Cell(s, c) = Whole(value)
    BY <1>3, <1>4, AssembledWhole DEF Cell, Whole
  <1>6. Whole(value) \in Cells
    <2>1. <<>> \in Seq(Nat)
      BY EmptySeq
    <2>2. PICK shown \in Seq(Nat) : shown = IF value = Null THEN <<>> ELSE value
      BY <1>4, <2>1
    <2>3. PICK isnull \in BOOLEAN : isnull <=> value = Null
      <3>1. CASE value = Null
        BY <3>1
      <3>2. CASE value # Null
        BY <3>2
      <3>3. QED
        BY <3>1, <3>2
    <2>4. Whole(value) = [fetched |-> TRUE, isnull |-> isnull, value |-> shown]
      BY <2>2, <2>3 DEF Whole
    <2>5. QED
      BY <2>4 DEF Cells
  <1>7. QED
    BY <1>2, <1>3, <1>5, <1>6

\* row_load reads the columns up to one, those that had not been read.
LEMMA RowLoadKeeps ==
  ASSUME StatementAssumption, NEW s, StatementOK(s), s.open, NEW col \in 0 .. Len(Columns(s))
  PROVE  /\ StatementOK(RowLoad(s, col))
         /\ RowLoad(s, col).names = NamesOf(s.prepared)
         /\ RowLoad(s, col).pos = s.pos /\ RowLoad(s, col).open
         /\ RowLoad(s, col).prepared = s.prepared
         /\ RowLoad(s, col).query = s.query /\ RowLoad(s, col).fresh = s.fresh
         /\ Len(RowLoad(s, col).row) = Len(Columns(s))
         /\ OnRow(s) => \A c \in 1 .. col : RowLoad(s, col).row[c] = Whole(Rows(s)[s.pos][c])
  <1>1. PICK n : n = WithNames(s)
    OBVIOUS
  <1>2. /\ StatementOK(n) /\ n.names = NamesOf(s.prepared)
        /\ s.prepared \in DOMAIN Results /\ Columns(s) = Results[s.prepared].columns
        /\ n.row = s.row /\ n.col = s.col /\ n.pos = s.pos /\ n.open /\ n.prepared = s.prepared
        /\ n.query = s.query /\ n.fresh = s.fresh
    BY <1>1, WithNamesKeeps
  <1>3. PICK width \in Nat : width = Len(Columns(s)) /\ DOMAIN n.names = 1 .. width
                             /\ Len(n.names) = width
    BY <1>2, NamesKnown
  <1>4. n \in StatementType /\ n.row \in Seq(Cells) /\ n.col \in Nat
    BY <1>2 DEF StatementOK, StatementType
  <1>5. PICK row : row = IF Len(n.row) = Len(n.names) THEN n.row
                         ELSE [c \in DOMAIN n.names |-> Unread]
    OBVIOUS
  <1>6. row \in Seq(Cells) /\ Len(row) = width /\ DOMAIN row = 1 .. width
    <2>1. CASE Len(n.row) = Len(n.names)
      BY <1>3, <1>4, <1>5, <2>1, LenProperties
    <2>2. CASE Len(n.row) # Len(n.names)
      <3>1. Unread \in Cells
        <4>1. <<>> \in Seq(Nat)
          BY EmptySeq
        <4>2. QED
          BY <4>1 DEF Unread, Cells
      <3>2. [c \in 1 .. width |-> Unread] \in Seq(Cells)
        BY <3>1, IsASeq
      <3>3. row = [c \in 1 .. width |-> Unread]
        BY <1>3, <1>5, <2>2
      <3>4. Len(row) \in Nat /\ DOMAIN row = 1 .. Len(row)
        BY <3>2, <3>3, LenProperties
      <3>5. Len(row) = width
        BY <3>3, <3>4
      <3>6. QED
        BY <3>2, <3>3, <3>5
    <2>3. QED
      BY <2>1, <2>2
  <1>7. PICK new : new = {c \in 1 .. col : ~row[c].fetched}
    OBVIOUS
  <1>8. PICK read : read = [c \in DOMAIN row |-> IF c \in new THEN Cell(s, c) ELSE row[c]]
    OBVIOUS
  <1>9. read \in Seq(Cells) /\ Len(read) = width /\ DOMAIN read = 1 .. width
        /\ \A c \in 1 .. width : read[c] = IF c \in new THEN Cell(s, c) ELSE row[c]
    <2>1. ASSUME NEW c \in 1 .. width PROVE (IF c \in new THEN Cell(s, c) ELSE row[c]) \in Cells
      <3>1. Cell(s, c) \in Cells
        BY <1>3, CellRead
      <3>2. row[c] \in Cells
        BY <1>6, ElementOfSeq
      <3>3. QED
        BY <3>1, <3>2
    <2>2. [c \in 1 .. width |-> IF c \in new THEN Cell(s, c) ELSE row[c]] \in Seq(Cells)
      BY <2>1, IsASeq
    <2>3. read = [c \in 1 .. width |-> IF c \in new THEN Cell(s, c) ELSE row[c]]
      BY <1>6, <1>8
    <2>4. Len(read) \in Nat /\ DOMAIN read = 1 .. Len(read)
      BY <2>2, <2>3, LenProperties
    <2>5. Len(read) = width
      BY <2>3, <2>4
    <2>6. QED
      BY <2>2, <2>3, <2>5
  <1>10. PICK last : last = IF new = {} THEN n.col
                            ELSE CHOOSE c \in new : \A d \in new : d <= c
    OBVIOUS
  <1>11. /\ last \in Nat
         /\ new # {} => last \in new /\ \A d \in new : d <= last
    <2>1. CASE new = {}
      BY <1>4, <1>10, <2>1
    <2>2. CASE new # {}
      <3>1. new \in SUBSET (0 .. width) /\ width \in Nat
        BY <1>3, <1>7
      <3>2. \E c \in new : \A d \in new : d <= c
        BY <2>2, <3>1, GreatestNumber
      <3>3. last \in new /\ \A d \in new : d <= last
        BY <1>10, <2>2, <3>2
      <3>4. QED
        BY <3>1, <3>3
    <2>3. QED
      BY <2>1, <2>2
  <1>12. PICK r : r = RowLoad(s, col)
    OBVIOUS
  <1>13. r = [n EXCEPT !.row = read, !.col = last]
    BY <1>1, <1>4, <1>5, <1>7, <1>8, <1>10, <1>12 DEF RowLoad, StatementType
  <1>14. r \in StatementType
    BY <1>4, <1>9, <1>11, <1>13 DEF StatementType
  <1>15. /\ r.names = n.names /\ r.row = read /\ r.col = last /\ r.pos = n.pos
         /\ r.open = n.open /\ r.prepared = n.prepared /\ r.query = n.query
         /\ r.fresh = n.fresh /\ r.params = n.params
    BY <1>4, <1>13 DEF StatementType
  <1>16. Rows(r) = Rows(s) /\ Columns(r) = Columns(s) /\ (OnRow(r) <=> OnRow(s))
    <2>1. s.open /\ r.open /\ r.prepared = s.prepared /\ r.pos = s.pos
      BY <1>2, <1>15
    <2>2. QED
      BY <2>1 DEF Rows, Columns, OnRow
  <1>17. ASSUME OnRow(s)
         PROVE  /\ \A c \in 1 .. width : IF c <= last THEN read[c] = Whole(Rows(s)[s.pos][c])
                                     ELSE ~read[c].fetched
                /\ col <= last /\ last <= width
    <2>1. RowRead(s) /\ RowRead(n)
      BY <1>2 DEF StatementOK
    <2>2. ASSUME NEW c \in 1 .. width
          PROVE  IF c <= s.col THEN row[c] = Whole(Rows(s)[s.pos][c]) ELSE ~row[c].fetched
      <3>1. CASE Len(n.row) = Len(n.names)
        BY <1>2, <1>5, <1>6, <1>17, <2>1, <3>1 DEF RowRead
      <3>2. CASE Len(n.row) # Len(n.names)
        <4>1. s.col = 0
          BY <1>2, <1>3, <1>17, <2>1, <3>2 DEF RowRead
        <4>2. ~row[c].fetched
          BY <1>3, <1>5, <3>2 DEF Unread
        <4>3. QED
          BY <4>1, <4>2
      <3>3. QED
        BY <3>1, <3>2
    <2>3. s.col <= width /\ s.col \in Nat
      <3>1. s.col # 0 => Len(s.row) = width /\ s.col <= Len(s.row)
        BY <1>3, <1>17, <2>1 DEF RowRead
      <3>2. QED
        BY <1>2, <1>3, <1>4, <3>1
    <2>4. \A v : Whole(v).fetched
      BY DEF Whole
    <2>5. \A c \in 1 .. col : c \in new <=> c > s.col
      BY <1>3, <1>7, <2>2, <2>3, <2>4
    <2>6. last = IF col > s.col THEN col ELSE s.col
      <3>1. CASE col > s.col
        <4>1. col \in new
          BY <1>3, <2>3, <2>5, <3>1
        <4>2. last \in 1 .. col /\ col <= last
          BY <1>7, <1>11, <4>1
        <4>3. QED
          BY <1>3, <3>1, <4>2
      <3>2. CASE ~(col > s.col)
        <4>1. new = {}
          BY <1>3, <1>7, <2>3, <2>5, <3>2
        <4>2. QED
          BY <1>2, <1>10, <3>2, <4>1
      <3>3. QED
        BY <3>1, <3>2
    <2>7. ASSUME NEW c \in 1 .. width
          PROVE  IF c <= last THEN read[c] = Whole(Rows(s)[s.pos][c]) ELSE ~read[c].fetched
      <3>1. CASE c \in new
        <4>1. c \in 1 .. col /\ c > s.col
          BY <1>7, <2>5, <3>1
        <4>2. c <= last
          BY <1>11, <3>1
        <4>3. read[c] = Cell(s, c)
          BY <1>9, <3>1
        <4>4. Cell(s, c) = Whole(Rows(s)[s.pos][c])
          BY <1>3, <1>17, <4>1, CellRead
        <4>5. QED
          BY <4>2, <4>3, <4>4
      <3>2. CASE c \notin new
        <4>1. read[c] = row[c]
          BY <1>9, <3>2
        <4>2. c <= last <=> c <= s.col
          <5>1. c \in 1 .. col => c <= s.col
            BY <2>3, <2>5, <3>2
          <5>2. QED
            BY <1>3, <2>3, <2>6, <5>1
        <4>3. QED
          BY <2>2, <4>1, <4>2
      <3>3. QED
        BY <3>1, <3>2
    <2>8. QED
      BY <1>3, <2>3, <2>6, <2>7
  <1>18. RowRead(r)
    BY <1>3, <1>9, <1>15, <1>16, <1>17, <1>2 DEF RowRead
  <1>19. CursorKnown(r) /\ Streamed(r)
    BY <1>2, <1>15 DEF StatementOK, CursorKnown, Streamed
  <1>20. OnRow(s) => \A c \in 1 .. col : read[c] = Whole(Rows(s)[s.pos][c])
    BY <1>3, <1>11, <1>17
  <1>21. QED
    BY <1>2, <1>3, <1>9, <1>12, <1>14, <1>15, <1>18, <1>19, <1>20 DEF StatementOK

\* find_colnum's column is the first of that name.
LEMMA FindColumnFinds ==
  ASSUME StatementAssumption, NEW s, StatementOK(s), s.open, NEW name
  PROVE  LET columns == Columns(s) IN
         /\ FindColumn(s, name) \in 0 .. Len(columns)
         /\ FindColumn(s, name) = 0 => \A c \in 1 .. Len(columns) : Lowercase[columns[c]] # name
         /\ FindColumn(s, name) # 0 =>
              /\ Lowercase[columns[FindColumn(s, name)]] = name
              /\ \A b \in 1 .. Len(columns) :
                   Lowercase[columns[b]] = name => FindColumn(s, name) <= b
  <1>1. WithNames(s).names = NamesOf(s.prepared) /\ s.prepared \in DOMAIN Results
        /\ Columns(s) = Results[s.prepared].columns
    BY WithNamesKeeps
  <1>2. PICK width \in Nat : width = Len(Columns(s)) /\ DOMAIN Columns(s) = 1 .. width
                         /\ DOMAIN NamesOf(s.prepared) = 1 .. width
    BY <1>1, NamesKnown
  <1>3. PICK found : found = {c \in 1 .. width : Lowercase[Columns(s)[c]] = name}
    OBVIOUS
  <1>4. FindColumn(s, name) = IF found = {} THEN 0
                              ELSE CHOOSE c \in found : \A d \in found : c <= d
    <2>1. \A c \in 1 .. width : NamesOf(s.prepared)[c] = Lowercase[Columns(s)[c]]
      BY <1>1, <1>2 DEF NamesOf
    <2>2. found = {c \in DOMAIN WithNames(s).names : WithNames(s).names[c] = name}
      BY <1>1, <1>2, <1>3, <2>1
    <2>3. QED
      BY <2>2 DEF FindColumn
  <1>5. CASE found = {}
    BY <1>2, <1>3, <1>4, <1>5
  <1>6. CASE found # {}
    <2>1. found \in SUBSET Nat
      BY <1>3
    <2>2. \E c \in found : \A d \in found : c <= d
      BY <1>6, <2>1, LeastNumber
    <2>3. FindColumn(s, name) \in found /\ \A d \in found : FindColumn(s, name) <= d
      BY <1>4, <1>6, <2>2
    <2>4. QED
      BY <1>2, <1>3, <2>3
  <1>7. QED
    BY <1>5, <1>6

\* is_null and operator[] of a column.
LEMMA WithColumnKeeps ==
  ASSUME StatementAssumption, NEW s, StatementOK(s), s.open, NEW name
  PROVE  /\ StatementOK(WithColumn(s, name))
         /\ WithColumn(s, name).pos = s.pos /\ WithColumn(s, name).open
         /\ WithColumn(s, name).prepared = s.prepared
         /\ OnRow(s) /\ FindColumn(s, name) # 0 =>
              WithColumn(s, name).row[FindColumn(s, name)]
                = Whole(Rows(s)[s.pos][FindColumn(s, name)])
  <1>1. PICK c : c = FindColumn(s, name)
    OBVIOUS
  <1>2. PICK n : n = WithNames(s)
    OBVIOUS
  <1>3. c \in 0 .. Len(Columns(s)) /\ Len(Columns(s)) \in Nat
    <2>1. Len(Columns(s)) \in Nat
      BY WithNamesKeeps, NamesKnown
    <2>2. QED
      BY <1>1, <2>1, FindColumnFinds
  <1>4. /\ StatementOK(n) /\ n.row = s.row /\ n.pos = s.pos /\ n.open
        /\ n.prepared = s.prepared /\ n.col = s.col
    BY <1>2, WithNamesKeeps
  <1>5. CASE c = 0 \/ (c <= Len(n.row) /\ n.row[c].fetched)
    <2>1. WithColumn(s, name) = n
      BY <1>1, <1>2, <1>5 DEF WithColumn
    <2>2. ASSUME OnRow(s), c # 0 PROVE n.row[c] = Whole(Rows(s)[s.pos][c])
      <3>1. n.row \in Seq(Cells)
        BY <1>4 DEF StatementOK, StatementType
      <3>2. c \in DOMAIN s.row /\ s.row[c].fetched
        BY <1>3, <1>4, <1>5, <2>2, <3>1, LenProperties
      <3>3. QED
        BY <1>4, <2>2, <3>2 DEF StatementOK, RowRead
    <2>3. QED
      BY <1>1, <1>4, <2>1, <2>2
  <1>6. CASE ~(c = 0 \/ (c <= Len(n.row) /\ n.row[c].fetched))
    <2>1. WithColumn(s, name) = RowLoad(n, c)
      BY <1>1, <1>2, <1>6 DEF WithColumn
    <2>2. Columns(n) = Columns(s) /\ Rows(n) = Rows(s) /\ (OnRow(n) <=> OnRow(s))
      BY <1>4 DEF Columns, Rows, OnRow
    <2>3. /\ StatementOK(RowLoad(n, c)) /\ RowLoad(n, c).pos = n.pos /\ RowLoad(n, c).open
          /\ RowLoad(n, c).prepared = n.prepared
          /\ OnRow(n) => \A d \in 1 .. c : RowLoad(n, c).row[d] = Whole(Rows(n)[n.pos][d])
      BY <1>3, <1>4, <2>2, RowLoadKeeps
    <2>4. c # 0 => c \in 1 .. c
      BY <1>3
    <2>5. QED
      BY <1>1, <1>4, <2>1, <2>2, <2>3, <2>4
  <1>7. QED
    BY <1>5, <1>6

\* A table shows the rows that are left.
LEMMA TableRendered ==
  ASSUME StatementAssumption, NEW s, StatementOK(s)
  PROVE  RenderTable(s) = [n \in 1 .. Len(Rows(s)) - s.pos |->
                             [c \in DOMAIN Columns(s) |-> Whole(Rows(s)[s.pos + n][c])]]
  <1> DEFINE Another(t) == LET f == FetchNext(t) IN RowLoad(f, Len(WithNames(f).names))
             Steps(h)  == [n \in Nat |-> IF n = 0 THEN s ELSE Another(h[n - 1])]
  <1>1. PICK after : after = CHOOSE h : h = Steps(h)
    OBVIOUS
  <1>2. RenderTable(s) = [n \in 1 .. Len(Rows(s)) - s.pos |-> after[n].row]
    BY <1>1 DEF RenderTable
  <1> HIDE DEF Another, Steps
  <1>3. s.pos \in Nat
    BY DEF StatementOK, StatementType
  <1>4. CASE ~s.open
    <2>1. 1 .. Len(Rows(s)) - s.pos = {}
      BY <1>3, <1>4 DEF Rows
    <2>2. QED
      BY <1>2, <2>1
  <1>5. CASE s.open
    <2>1. PICK S : S = {t \in StatementType : StatementOK(t) /\ t.open /\ t.prepared = s.prepared}
      OBVIOUS
    <2>2. s \in S
      BY <1>5, <2>1 DEF StatementOK
    <2>3. PICK width \in Nat : width = Len(Columns(s)) /\ DOMAIN Columns(s) = 1 .. width
      BY <1>5, WithNamesKeeps, NamesKnown
    <2>4. ASSUME NEW t \in S
          PROVE  /\ Another(t) \in S /\ Len(Another(t).row) = width
                 /\ Another(t).row \in Seq(Cells)
                 /\ Another(t).pos = IF t.pos <= Len(Rows(s)) THEN t.pos + 1 ELSE t.pos
                 /\ Another(t).pos \in DOMAIN Rows(s) =>
                      \A c \in 1 .. width : Another(t).row[c] = Whole(Rows(s)[Another(t).pos][c])
      <3>1. StatementOK(t) /\ t.open /\ t.prepared = s.prepared
        BY <2>1
      <3>2. Rows(t) = Rows(s) /\ Columns(t) = Columns(s)
        BY <1>5, <3>1 DEF Rows, Columns
      <3>3. PICK f : f = FetchNext(t)
        OBVIOUS
      <3>4. /\ StatementOK(f) /\ f.open /\ f.prepared = s.prepared /\ Rows(f) = Rows(s)
            /\ f.pos = IF t.pos <= Len(Rows(s)) THEN t.pos + 1 ELSE t.pos
        BY <3>1, <3>2, <3>3, FetchNextKeeps
      <3>5. Columns(f) = Columns(s)
        BY <3>4 DEF Columns
      <3>6. Len(WithNames(f).names) = width
        BY <1>5, <2>3, <3>4, WithNamesKeeps, NamesKnown
      <3>7. Another(t) = RowLoad(f, width)
        BY <3>3, <3>6 DEF Another
      <3>8. width \in 0 .. Len(Columns(f))
        BY <2>3, <3>5
      <3>9. /\ StatementOK(RowLoad(f, width)) /\ RowLoad(f, width).open
            /\ RowLoad(f, width).prepared = s.prepared /\ RowLoad(f, width).pos = f.pos
            /\ Len(RowLoad(f, width).row) = width
            /\ OnRow(f) => \A c \in 1 .. width : RowLoad(f, width).row[c] = Whole(Rows(s)[f.pos][c])
        BY <2>3, <3>4, <3>5, <3>8, RowLoadKeeps
      <3>10. RowLoad(f, width) \in StatementType /\ RowLoad(f, width).row \in Seq(Cells)
        BY <3>9 DEF StatementOK, StatementType
      <3>11. OnRow(f) <=> f.pos \in DOMAIN Rows(s)
        BY <3>4 DEF OnRow
      <3>12. QED
        BY <2>1, <3>4, <3>7, <3>9, <3>10, <3>11
    <2>5. after = Steps(after)
      <3>1. PICK F \in [S -> S] : F = [t \in S |-> Another(t)]
        BY <2>4
      <3>2. PICK h \in [Nat -> S] : h[0] = s /\ \A n \in Nat : h[n + 1] = F[h[n]]
        BY <2>2, Iterates
      <3>3. ASSUME NEW n \in Nat PROVE h[n] = IF n = 0 THEN s ELSE Another(h[n - 1])
        <4>1. CASE n = 0
          BY <3>2, <4>1
        <4>2. CASE n # 0
          <5>1. n - 1 \in Nat /\ (n - 1) + 1 = n
            BY <4>2
          <5>2. h[n] = F[h[n - 1]] /\ h[n - 1] \in S
            BY <3>2, <5>1
          <5>3. QED
            BY <3>1, <4>2, <5>2
        <4>3. QED
          BY <4>1, <4>2
      <3>4. h = Steps(h)
        BY <3>3 DEF Steps
      <3>5. QED
        BY <1>1, <3>4
    <2>6. after[0] = s
      BY <2>5 DEF Steps
    <2>7. ASSUME NEW n \in Nat PROVE after[n + 1] = Another(after[n])
      <3>1. n + 1 \in Nat /\ n + 1 # 0 /\ (n + 1) - 1 = n
        OBVIOUS
      <3>2. QED
        BY <2>5, <3>1 DEF Steps
    <2>8. Len(Rows(s)) \in Nat /\ DOMAIN Rows(s) = 1 .. Len(Rows(s))
      BY <1>5, WithNamesKeeps, ResultsTyped, LenProperties
    <2>9. PICK Right : Right = {n \in Nat : after[n] \in S /\
                                  (n <= Len(Rows(s)) - s.pos => after[n].pos = s.pos + n)}
      OBVIOUS
    <2>10. \A n \in Nat : n \in Right
      <3>1. 0 \in Right
        BY <1>3, <2>2, <2>6, <2>9
      <3>2. ASSUME NEW n \in Right PROVE n + 1 \in Right
        <4>1. n \in Nat /\ after[n] \in S /\ (n <= Len(Rows(s)) - s.pos => after[n].pos = s.pos + n)
          BY <2>9
        <4>2. after[n + 1] \in S /\ after[n + 1].pos = IF after[n].pos <= Len(Rows(s))
                                                      THEN after[n].pos + 1 ELSE after[n].pos
          BY <2>4, <2>7, <4>1
        <4>3. n + 1 <= Len(Rows(s)) - s.pos => after[n + 1].pos = s.pos + (n + 1)
          BY <1>3, <2>8, <4>1, <4>2
        <4>4. QED
          BY <2>9, <4>1, <4>2, <4>3
      <3>3. QED
        BY <2>9, <3>1, <3>2, AllNumbers
    <2>11. ASSUME NEW n \in 1 .. Len(Rows(s)) - s.pos
           PROVE  after[n].row = [c \in DOMAIN Columns(s) |-> Whole(Rows(s)[s.pos + n][c])]
      <3>1. n \in Nat /\ n - 1 \in Nat /\ (n - 1) + 1 = n /\ s.pos + n \in DOMAIN Rows(s)
            /\ n <= Len(Rows(s)) - s.pos
        BY <1>3, <2>8
      <3>2. after[n - 1] \in S /\ after[n].pos = s.pos + n
        BY <2>9, <2>10, <3>1
      <3>3. after[n] = Another(after[n - 1])
        BY <2>7, <3>1
      <3>4. after[n].row \in Seq(Cells) /\ Len(after[n].row) = width
            /\ \A c \in 1 .. width : after[n].row[c] = Whole(Rows(s)[s.pos + n][c])
        <4>1. PICK t \in S : t = after[n - 1]
          BY <3>2
        <4>2. PICK o : o = Another(t)
          OBVIOUS
        <4>3. o = after[n] /\ o.pos = s.pos + n
          BY <3>2, <3>3, <4>1, <4>2
        <4>4. /\ Len(o.row) = width /\ o.row \in Seq(Cells)
              /\ o.pos \in DOMAIN Rows(s) =>
                   \A c \in 1 .. width : o.row[c] = Whole(Rows(s)[o.pos][c])
          BY <2>4, <4>2
        <4>5. QED
          BY <3>1, <4>3, <4>4
      <3>5. DOMAIN after[n].row = 1 .. width
            /\ after[n].row = [c \in 1 .. width |-> after[n].row[c]]
        BY <2>3, <3>4, LenProperties
      <3>6. QED
        BY <2>3, <3>4, <3>5
    <2>12. QED
      BY <1>2, <2>11
  <1>6. QED
    BY <1>4, <1>5

\* The size of the widest column is a number.
LEMMA SizeIsNumber ==
  ASSUME StatementAssumption, NEW q \in DOMAIN Results, NEW c \in DOMAIN Results[q].columns
  PROVE  SizeOf(q) \in Nat
  <1>1. PICK sizes \in Seq(Nat) : sizes = Results[q].sizes
    BY ResultsTyped
  <1>2. PICK width \in Nat : width = Len(sizes) /\ DOMAIN sizes = 1 .. width /\ width >= 1
    <2>1. PICK columns \in Seq(DOMAIN Lowercase) : columns = Results[q].columns
      BY ResultsTyped
    <2>2. Len(columns) \in Nat /\ c \in 1 .. Len(columns)
      BY <2>1, LenProperties
    <2>3. Len(sizes) = Len(columns) /\ DOMAIN sizes = 1 .. Len(sizes)
      BY <1>1, <2>1, ResultsTyped, LenProperties
    <2>4. PICK m \in Nat : m = Len(columns) /\ m >= 1
      BY <2>2
    <2>5. m = Len(sizes) /\ DOMAIN sizes = 1 .. m
      BY <2>3, <2>4
    <2>6. QED
      BY <2>4, <2>5
  <1>3. PICK Bounded : Bounded = {n \in Nat : n <= width =>
                                    \E b \in Nat : \A i \in 1 .. n : sizes[i] <= b}
    OBVIOUS
  <1>4. 0 \in Bounded
    BY <1>3
  <1>5. ASSUME NEW n \in Bounded PROVE n + 1 \in Bounded
    <2>1. n \in Nat
      BY <1>3
    <2>2. SUFFICES ASSUME n + 1 <= width PROVE \E b \in Nat : \A i \in 1 .. n + 1 : sizes[i] <= b
      BY <1>3, <2>1
    <2>3. PICK b \in Nat : \A i \in 1 .. n : sizes[i] <= b
      BY <1>2, <1>3, <2>1, <2>2
    <2>4. \A i \in 1 .. n + 1 : sizes[i] \in Nat
      BY <1>2, <2>1, <2>2, ElementOfSeq
    <2>5. PICK b2 \in Nat : b2 = IF sizes[n + 1] <= b THEN b ELSE sizes[n + 1]
      BY <2>1, <2>4
    <2>6. \A i \in 1 .. n + 1 : sizes[i] <= b2
      BY <2>1, <2>3, <2>4, <2>5
    <2>7. QED
      BY <2>6
  <1>6. width \in Bounded
    BY <1>3, <1>4, <1>5, AllNumbers
  <1>7. PICK b \in Nat : \A i \in 1 .. width : sizes[i] <= b
    BY <1>3, <1>6
  <1>8. \A i \in 1 .. width : sizes[i] \in Nat
    BY <1>2, ElementOfSeq
  <1>9. PICK Sizes : Sizes = ToSet(sizes)
    OBVIOUS
  <1>10. Sizes \in SUBSET (0 .. b) /\ Sizes # {}
    BY <1>2, <1>7, <1>8, <1>9 DEF ToSet
  <1>11. \E n \in Sizes : \A m \in Sizes : m <= n
    BY <1>10, GreatestNumber
  <1>12. SizeOf(q) \in Sizes
    BY <1>1, <1>9, <1>11 DEF SizeOf
  <1>13. QED
    <2>1. \A n \in 0 .. b : n \in Nat
      OBVIOUS
    <2>2. QED
      BY <1>10, <1>12, <2>1

\* get_string shows a value that fits.
LEMMA StringsShow ==
  ASSUME StatementAssumption, NEW s, StatementOK(s), OnRow(s)
  PROVE  Shows(RowStrings(s), s.prepared, s.pos) /\ s.prepared \in DOMAIN Results /\ s.open
         /\ Rows(s) = Results[s.prepared].rows
  <1>1. s.open
    BY DEF OnRow, Rows
  <1>2. s.prepared \in DOMAIN Results /\ Columns(s) = Results[s.prepared].columns
        /\ Rows(s) = Results[s.prepared].rows
    BY <1>1, WithNamesKeeps
  <1>3. PICK width \in Nat : width = Len(Columns(s)) /\ DOMAIN Columns(s) = 1 .. width
    BY <1>2, NamesKnown
  <1>4. PICK row : row = Rows(s)[s.pos]
    OBVIOUS
  <1>5. row \in [1 .. width -> {Null} \cup Seq(Nat)]
    <2>1. PICK rows \in Seq([1 .. width -> {Null} \cup Seq(Nat)]) : rows = Rows(s)
      BY <1>2, <1>3, ResultsTyped
    <2>2. s.pos \in 1 .. Len(rows)
      BY <2>1, LenProperties DEF OnRow
    <2>3. QED
      BY <1>4, <2>1, <2>2, ElementOfSeq
  <1>6. PICK size : size = SizeOf(s.prepared)
    OBVIOUS
  <1>7. MaxSize(s) = size
    BY <1>6 DEF MaxSize, SizeOf
  <1>8. ASSUME NEW c \in 1 .. width
        PROVE  IF row[c] = Null THEN RowStrings(s)[c] = <<>>
               ELSE Len(row[c]) < size => RowStrings(s)[c] = row[c]
    <2>1. RowStrings(s)[c] = GetString(s, c, size)
      BY <1>3, <1>7 DEF RowStrings
    <2>2. GetString(s, c, size) = IF row[c] = Null THEN <<>> ELSE Shortened(row[c], size - 1)
      BY <1>4 DEF GetString
    <2>3. ASSUME row[c] # Null, Len(row[c]) < size PROVE Shortened(row[c], size - 1) = row[c]
      <3>1. row[c] \in Seq(Nat) /\ Len(row[c]) \in Nat
        BY <1>5, <2>3, LenProperties
      <3>2. size \in Nat
        BY <1>2, <1>3, <1>6, SizeIsNumber
      <3>3. ~(size - 1 < Len(row[c]))
        BY <2>3, <3>1, <3>2
      <3>4. Shortened(row[c], size - 1) = SubSeq(row[c], 1, Len(row[c]))
        BY <3>3 DEF Shortened
      <3>5. QED
        BY <3>1, <3>4, SubSeqFull
    <2>4. QED
      BY <2>1, <2>2, <2>3
  <1>9. DOMAIN row = 1 .. width
    BY <1>5
  <1>10. ShownAs(row, RowStrings(s), size)
    BY <1>8, <1>9 DEF ShownAs
  <1>11. QED
    BY <1>1, <1>2, <1>4, <1>6, <1>10 DEF Shows, OnRow

\* What fetch_next leaves, again and again.
LEMMA FetchedAgain ==
  ASSUME StatementAssumption, NEW s, StatementOK(s), s.open,
         NEW more, more = CHOOSE h : h = [n \in Nat |-> IF n = 0 THEN s ELSE FetchNext(h[n - 1])]
  PROVE  \A n \in Nat :
           /\ StatementOK(more[n]) /\ more[n].open /\ more[n].prepared = s.prepared
           /\ s.pos + n <= Len(Rows(s)) => more[n].pos = s.pos + n
  <1> DEFINE Steps(h) == [n \in Nat |-> IF n = 0 THEN s ELSE FetchNext(h[n - 1])]
  <1>1. more = CHOOSE h : h = Steps(h)
    OBVIOUS
  <1> HIDE DEF Steps
  <1>2. Len(Rows(s)) \in Nat /\ s.pos \in Nat
    <2>1. s.pos \in Nat
      BY DEF StatementOK, StatementType
    <2>2. QED
      BY <2>1, WithNamesKeeps, ResultsTyped, LenProperties
  <1>3. PICK S : S = {t \in StatementType : StatementOK(t) /\ t.open /\ t.prepared = s.prepared}
    OBVIOUS
  <1>4. s \in S
    BY <1>3 DEF StatementOK
  <1>5. ASSUME NEW t \in S
        PROVE  /\ FetchNext(t) \in S
               /\ FetchNext(t).pos = IF t.pos <= Len(Rows(s)) THEN t.pos + 1 ELSE t.pos
    <2>1. StatementOK(t) /\ t.open /\ t.prepared = s.prepared
      BY <1>3
    <2>2. Rows(t) = Rows(s)
      BY <2>1 DEF Rows
    <2>3. StatementOK(FetchNext(t)) /\ FetchNext(t).open /\ FetchNext(t).prepared = s.prepared
          /\ FetchNext(t).pos = IF t.pos <= Len(Rows(s)) THEN t.pos + 1 ELSE t.pos
      BY <2>1, <2>2, FetchNextKeeps
    <2>4. FetchNext(t) \in StatementType
      BY <2>3 DEF StatementOK
    <2>5. QED
      BY <1>3, <2>3, <2>4
  <1>6. more = Steps(more)
    <2>1. PICK F \in [S -> S] : F = [t \in S |-> FetchNext(t)]
      BY <1>5
    <2>2. PICK h \in [Nat -> S] : h[0] = s /\ \A n \in Nat : h[n + 1] = F[h[n]]
      BY <1>4, Iterates
    <2>3. ASSUME NEW n \in Nat PROVE h[n] = IF n = 0 THEN s ELSE FetchNext(h[n - 1])
      <3>1. CASE n = 0
        BY <2>2, <3>1
      <3>2. CASE n # 0
        <4>1. n - 1 \in Nat /\ (n - 1) + 1 = n
          BY <3>2
        <4>2. h[n] = F[h[n - 1]] /\ h[n - 1] \in S
          BY <2>2, <4>1
        <4>3. QED
          BY <2>1, <3>2, <4>2
      <3>3. QED
        BY <3>1, <3>2
    <2>4. h = Steps(h)
      BY <2>3 DEF Steps
    <2>5. QED
      BY <1>1, <2>4
  <1>7. more[0] = s
    BY <1>6 DEF Steps
  <1>8. ASSUME NEW n \in Nat PROVE more[n + 1] = FetchNext(more[n])
    <2>1. n + 1 \in Nat /\ n + 1 # 0 /\ (n + 1) - 1 = n
      OBVIOUS
    <2>2. QED
      BY <1>6, <2>1 DEF Steps
  <1>9. PICK Right : Right = {n \in Nat : more[n] \in S /\
                                (s.pos + n <= Len(Rows(s)) => more[n].pos = s.pos + n)}
    OBVIOUS
  <1>10. 0 \in Right
    BY <1>2, <1>4, <1>7, <1>9
  <1>11. ASSUME NEW n \in Right PROVE n + 1 \in Right
    <2>1. n \in Nat /\ more[n] \in S /\ (s.pos + n <= Len(Rows(s)) => more[n].pos = s.pos + n)
      BY <1>9
    <2>2. more[n + 1] \in S /\ more[n + 1].pos = IF more[n].pos <= Len(Rows(s))
                                                THEN more[n].pos + 1 ELSE more[n].pos
      BY <1>5, <1>8, <2>1
    <2>3. s.pos + (n + 1) <= Len(Rows(s)) => more[n + 1].pos = s.pos + (n + 1)
      BY <1>2, <2>1, <2>2
    <2>4. QED
      BY <1>9, <2>1, <2>2, <2>3
  <1>12. \A n \in Nat : n \in Right
    BY <1>9, <1>10, <1>11, AllNumbers
  <1>13. QED
    BY <1>3, <1>9, <1>12

\* mem_db_rec's loop copies the rows that are left, the current one included.
LEMMA DataSetShows ==
  ASSUME StatementAssumption, NEW s, StatementOK(s), s.open, NEW freshst \in BOOLEAN,
         freshst => s.pos = 0, ~freshst => OnRow(s),
         NEW at \in Nat, freshst => at = 1, ~freshst => at = s.pos
  PROVE  LET data == DataSet(s, freshst) IN
         /\ StatementOK(data.after)
         /\ Len(data.rows) = Len(Results[s.prepared].rows) - at + 1
         /\ \A n \in DOMAIN data.rows : Shows(data.rows[n], s.prepared, at + n - 1)
  <1>1. PICK first : first = IF freshst THEN FetchNext(s) ELSE s
    OBVIOUS
  <1>2. PICK more : more = CHOOSE h : h = [n \in Nat |-> IF n = 0 THEN first
                                                        ELSE FetchNext(h[n - 1])]
    OBVIOUS
  <1>3. PICK count : count = IF first.pos \in DOMAIN Rows(s) THEN Len(Rows(s)) - first.pos + 1
                             ELSE 0
    OBVIOUS
  <1>4. PICK rows : rows = [n \in 1 .. count |-> RowStrings(more[n - 1])]
    OBVIOUS
  <1>5. DataSet(s, freshst) = [rows |-> rows, after |-> more[count]]
    BY <1>1, <1>2, <1>3, <1>4 DEF DataSet
  <1>6. PICK last \in Nat : last = Len(Rows(s)) /\ DOMAIN Rows(s) = 1 .. last
                            /\ Rows(s) = Results[s.prepared].rows
    <2>1. s.prepared \in DOMAIN Results /\ Rows(s) = Results[s.prepared].rows
      BY WithNamesKeeps
    <2>2. PICK T : Rows(s) \in Seq(T)
      BY <2>1, ResultsTyped
    <2>3. Len(Rows(s)) \in Nat /\ DOMAIN Rows(s) = 1 .. Len(Rows(s))
      BY <2>2, LenProperties
    <2>4. QED
      BY <2>1, <2>3
  <1>7. /\ StatementOK(first) /\ first.open /\ first.prepared = s.prepared /\ first.pos = at
        /\ Rows(first) = Rows(s)
    <2>1. CASE freshst
      <3>1. s.pos <= Len(Rows(s))
        BY <1>6, <2>1
      <3>2. QED
        BY <1>1, <2>1, <3>1, FetchNextKeeps
    <2>2. CASE ~freshst
      BY <1>1, <2>2
    <2>3. QED
      BY <2>1, <2>2
  <1>8. at >= 1 /\ at <= last + 1
    <2>1. CASE freshst
      BY <1>6, <2>1
    <2>2. CASE ~freshst
      <3>1. at \in 1 .. last
        BY <1>6, <2>2 DEF OnRow
      <3>2. QED
        BY <1>6, <3>1
    <2>3. QED
      BY <2>1, <2>2
  <1>9. count \in Nat /\ count = last - at + 1
    <2>1. count = IF at \in 1 .. last THEN last - at + 1 ELSE 0
      BY <1>3, <1>6, <1>7
    <2>2. QED
      BY <1>8, <2>1
  <1>10. \A n \in Nat :
           /\ StatementOK(more[n]) /\ more[n].open /\ more[n].prepared = s.prepared
           /\ at + n <= last => more[n].pos = at + n
    BY <1>2, <1>6, <1>7, FetchedAgain
  <1>11. ASSUME NEW n \in 1 .. count
         PROVE  Shows(RowStrings(more[n - 1]), s.prepared, at + n - 1)
    <2>1. PICK m \in Nat : m = n - 1
      BY <1>9
    <2>2. at + m <= last /\ at + m \in 1 .. last /\ at + m = at + n - 1
      BY <1>8, <1>9, <2>1
    <2>3. PICK t : t = more[m]
      OBVIOUS
    <2>4. StatementOK(t) /\ t.open /\ t.prepared = s.prepared /\ t.pos = at + m
      BY <1>10, <2>2, <2>3
    <2>5. Rows(t) = Rows(s)
      BY <2>4 DEF Rows
    <2>6. OnRow(t)
      BY <1>6, <2>2, <2>4, <2>5 DEF OnRow
    <2>7. Shows(RowStrings(t), s.prepared, at + m)
      BY <2>4, <2>6, StringsShow
    <2>8. QED
      BY <2>1, <2>2, <2>3, <2>7
  <1>12. DOMAIN rows = 1 .. count /\ Len(rows) = count
    <2>1. PICK T : T = {RowStrings(more[n - 1]) : n \in 1 .. count}
      OBVIOUS
    <2>2. \A n \in 1 .. count : RowStrings(more[n - 1]) \in T
      BY <2>1
    <2>3. rows \in Seq(T)
      <3>1. [n \in 1 .. count |-> RowStrings(more[n - 1])] \in Seq(T)
        BY <1>9, <2>2, IsASeq
      <3>2. QED
        BY <1>4, <3>1
    <2>4. Len(rows) \in Nat /\ DOMAIN rows = 1 .. Len(rows)
      BY <2>3, LenProperties
    <2>5. DOMAIN rows = 1 .. count
      BY <1>4
    <2>6. QED
      BY <1>9, <2>4, <2>5
  <1>13. StatementOK(more[count])
    BY <1>9, <1>10
  <1>14. \A n \in DOMAIN rows : Shows(rows[n], s.prepared, at + n - 1)
    BY <1>4, <1>11, <1>12
  <1>15. QED
    BY <1>5, <1>6, <1>9, <1>12, <1>13, <1>14

\* What is neither read nor streamed anew is as good as it was.
LEMMA SameCursor ==
  ASSUME NEW s, StatementOK(s), NEW t \in StatementType,
         t.open = s.open, t.prepared = s.prepared \/ ~s.open, t.names = s.names \/ t.names = <<>>,
         t.row = s.row, t.col = s.col, t.pos = s.pos, t.query = s.query, t.params = s.params,
         t.fresh => s.fresh
  PROVE  StatementOK(t)
  <1>1. Rows(t) = Rows(s) /\ (s.open => Columns(t) = Columns(s))
    BY DEF Rows, Columns
  <1>2. CursorKnown(t) /\ Streamed(t)
    BY DEF StatementOK, CursorKnown, Streamed
  <1>3. OnRow(t) => s.open
    BY <1>1 DEF OnRow, Rows
  <1>4. RowRead(t)
    BY <1>1, <1>3 DEF StatementOK, RowRead, OnRow
  <1>5. QED
    BY <1>2, <1>4 DEF StatementOK

\* SQLPrepare, which an open cursor does not let pass.
LEMMA PrepareKeeps ==
  ASSUME StatementAssumption, NEW s, StatementOK(s), NEW q \in Texts, NEW marks \in Nat
  PROVE  LET p == SQLPrepare(s, q, marks) IN
         /\ StatementOK(p)
         /\ p.open = s.open /\ p.query = s.query /\ p.fresh = s.fresh /\ p.params = s.params
         /\ p.ok => ~p.open /\ p.prepared \in DOMAIN Results /\ p.marks = marks
         /\ ~s.open /\ q # BadText => p.ok
  <1>1. s \in StatementType
    BY DEF StatementOK
  <1>2. PICK p : p = SQLPrepare(s, q, marks)
    OBVIOUS
  <1>3. CASE s.open
    <2>1. p = [s EXCEPT !.ok = FALSE]
      BY <1>2, <1>3 DEF SQLPrepare
    <2>2. p \in StatementType
      BY <1>1, <2>1 DEF StatementType
    <2>3. /\ p.open = s.open /\ p.prepared = s.prepared /\ p.names = s.names /\ p.row = s.row
          /\ p.col = s.col /\ p.pos = s.pos /\ p.query = s.query /\ p.params = s.params
          /\ p.fresh = s.fresh /\ p.ok = FALSE
      BY <1>1, <2>1 DEF StatementType
    <2>4. StatementOK(p)
      BY <2>2, <2>3, SameCursor
    <2>5. QED
      BY <1>2, <1>3, <2>3, <2>4
  <1>4. CASE ~s.open
    <2>1. PICK good \in BOOLEAN : good <=> q # BadText
      <3>1. CASE q # BadText
        BY <3>1
      <3>2. CASE q = BadText
        BY <3>2
      <3>3. QED
        BY <3>1, <3>2
    <2>2. PICK prepared \in DOMAIN Results \cup {NoQuery} :
            /\ prepared = IF q = BadText THEN NoQuery ELSE q
            /\ good => prepared \in DOMAIN Results
      BY <2>1 DEF Texts
    <2>3. p = [s EXCEPT !.ok = good, !.prepared = prepared, !.marks = marks]
      <3>1. p = [s EXCEPT !.ok = q # BadText, !.prepared = IF q = BadText THEN NoQuery ELSE q,
                          !.marks = marks]
        BY <1>2, <1>4 DEF SQLPrepare
      <3>2. (q # BadText) = good
        BY <2>1
      <3>3. QED
        BY <2>2, <3>1, <3>2
    <2>4. p \in StatementType
      BY <1>1, <2>3 DEF StatementType
    <2>5. /\ p.open = s.open /\ p.prepared = prepared /\ p.names = s.names /\ p.row = s.row
          /\ p.col = s.col /\ p.pos = s.pos /\ p.query = s.query /\ p.params = s.params
          /\ p.fresh = s.fresh /\ p.ok = good /\ p.marks = marks
      BY <1>1, <2>3 DEF StatementType
    <2>6. StatementOK(p)
      BY <1>4, <2>4, <2>5, SameCursor
    <2>7. QED
      BY <1>2, <1>4, <2>1, <2>2, <2>5, <2>6
  <1>5. QED
    BY <1>3, <1>4

\* execute forgets the names, and begins before the first row if the driver lets it.
LEMMA ExecuteKeeps ==
  ASSUME StatementAssumption, NEW s, StatementOK(s), s.fresh => s.query = <<>>
  PROVE  /\ StatementOK(Execute(s))
         /\ Execute(s).query = s.query /\ Execute(s).fresh = s.fresh
         /\ ~s.open /\ s.prepared \in DOMAIN Results /\ s.marks = Len(s.params) => Execute(s).ok
  <1>1. s \in StatementType
    BY DEF StatementOK
  <1>2. PICK e : e = Execute(s)
    OBVIOUS
  <1>3. PICK n : n = [s EXCEPT !.names = <<>>]
    OBVIOUS
  <1>4. n \in StatementType
    BY <1>1, <1>3 DEF StatementType
  <1>5. /\ n.open = s.open /\ n.prepared = s.prepared /\ n.names = <<>> /\ n.row = s.row
        /\ n.col = s.col /\ n.pos = s.pos /\ n.query = s.query /\ n.params = s.params
        /\ n.fresh = s.fresh /\ n.marks = s.marks
    BY <1>1, <1>3 DEF StatementType
  <1>6. CASE n.open \/ n.prepared = NoQuery \/ n.marks # Len(n.params)
    <2>1. e = [n EXCEPT !.ok = FALSE]
      BY <1>2, <1>3, <1>6 DEF Execute, SQLExecute
    <2>2. e \in StatementType
      BY <1>4, <2>1 DEF StatementType
    <2>3. /\ e.open = s.open /\ e.prepared = s.prepared /\ e.names = <<>> /\ e.row = s.row
          /\ e.col = s.col /\ e.pos = s.pos /\ e.query = s.query /\ e.params = s.params
          /\ e.fresh = s.fresh
      BY <1>4, <1>5, <2>1 DEF StatementType
    <2>4. StatementOK(e)
      BY <2>2, <2>3, SameCursor
    <2>5. ~(~s.open /\ s.prepared \in DOMAIN Results /\ s.marks = Len(s.params))
      BY <1>5, <1>6, ResultsTyped
    <2>6. QED
      BY <1>2, <2>3, <2>4, <2>5
  <1>7. CASE ~(n.open \/ n.prepared = NoQuery \/ n.marks # Len(n.params))
    <2>1. e = [n EXCEPT !.ok = TRUE, !.open = TRUE, !.pos = 0, !.col = 0]
      BY <1>2, <1>3, <1>7 DEF Execute, SQLExecute
    <2>2. e \in StatementType
      BY <1>4, <2>1 DEF StatementType
    <2>3. /\ e.open = TRUE /\ e.prepared = s.prepared /\ e.names = <<>>
          /\ e.pos = 0 /\ e.query = s.query /\ e.params = s.params
          /\ e.fresh = s.fresh /\ e.ok = TRUE
      BY <1>4, <1>5, <2>1 DEF StatementType
    <2>4. s.prepared \in DOMAIN Results
      BY <1>1, <1>5, <1>7 DEF StatementType
    <2>5. ~OnRow(e)
      <3>1. Rows(e) = Results[s.prepared].rows
        BY <2>3 DEF Rows
      <3>2. PICK T : Rows(e) \in Seq(T)
        BY <2>4, <3>1, ResultsTyped
      <3>3. 0 \notin DOMAIN Rows(e)
        BY <3>2, LenProperties
      <3>4. QED
        BY <2>3, <3>3 DEF OnRow
    <2>6. CursorKnown(e) /\ RowRead(e)
      BY <2>3, <2>4, <2>5 DEF CursorKnown, RowRead
    <2>7. Streamed(e)
      BY <2>3 DEF StatementOK, Streamed
    <2>8. QED
      BY <1>2, <2>2, <2>3, <2>6, <2>7 DEF StatementOK
  <1>8. QED
    BY <1>6, <1>7

LEMMA NewStatementOK ==
  StatementOK(NewStatement)
  <1>1. /\ <<>> \in Seq(Texts \cup {Mark}) /\ <<>> \in Seq(Variables) /\ <<>> \in Seq(Cells)
    BY EmptySeq
  <1>2. NewStatement \in StatementType
    BY <1>1 DEF NewStatement, StatementType
  <1>3. ~NewStatement.open /\ NewStatement.query = <<>> /\ NewStatement.params = <<>>
    BY DEF NewStatement
  <1>4. ~OnRow(NewStatement)
    BY <1>3 DEF OnRow, Rows
  <1>5. QED
    BY <1>2, <1>3, <1>4 DEF StatementOK, CursorKnown, RowRead, Streamed

\* close_cursor, of a statement whose query is not being streamed.
LEMMA CloseCursorKeeps ==
  ASSUME NEW s, StatementOK(s), s.fresh => s.query = <<>>
  PROVE  /\ StatementOK(CloseCursor(s)) /\ ~CloseCursor(s).open
         /\ CloseCursor(s).params = <<>> /\ CloseCursor(s).query = s.query
         /\ CloseCursor(s).fresh = s.fresh
  <1>1. s \in StatementType /\ <<>> \in Seq(Variables)
    BY EmptySeq DEF StatementOK
  <1>2. PICK t : t = CloseCursor(s)
    OBVIOUS
  <1>3. t = [s EXCEPT !.params = <<>>, !.outs = <<>>, !.valid = FALSE, !.open = FALSE,
                      !.pos = 0, !.col = 0]
    BY <1>2 DEF CloseCursor
  <1>4. t \in StatementType
    BY <1>1, <1>3 DEF StatementType
  <1>5. t.open = FALSE /\ t.params = <<>> /\ t.query = s.query /\ t.fresh = s.fresh
    BY <1>1, <1>3 DEF StatementType
  <1>6. ~OnRow(t)
    BY <1>5 DEF OnRow, Rows
  <1>7. QED
    BY <1>2, <1>4, <1>5, <1>6 DEF StatementOK, CursorKnown, RowRead, Streamed

\* What is streamed after a prepare begins a new query, on a closed cursor.
LEMMA FreshKeeps ==
  ASSUME NEW s, StatementOK(s), s.fresh => ~s.open
  PROVE  StatementOK(Fresh(s)) /\ Fresh(s).fresh /\ ~Fresh(s).open
  <1>1. CASE s.fresh
    BY <1>1 DEF Fresh
  <1>2. CASE ~s.fresh
    <2>1. PICK t : t = CloseCursor(s)
      OBVIOUS
    <2>2. StatementOK(t) /\ ~t.open /\ t.params = <<>>
      BY <1>2, <2>1, CloseCursorKeeps
    <2>3. PICK f : f = [t EXCEPT !.query = <<>>, !.fresh = TRUE]
      OBVIOUS
    <2>4. Fresh(s) = f
      BY <1>2, <2>1, <2>3 DEF Fresh, InternalReset
    <2>5. t \in StatementType /\ <<>> \in Seq(Texts \cup {Mark})
      BY <2>2, EmptySeq DEF StatementOK
    <2>6. f \in StatementType
      BY <2>3, <2>5 DEF StatementType
    <2>7. f.open = t.open /\ f.params = t.params /\ f.query = <<>> /\ f.fresh = TRUE
      BY <2>3, <2>5 DEF StatementType
    <2>8. ~OnRow(f)
      BY <2>2, <2>7 DEF OnRow, Rows
    <2>9. QED
      BY <2>2, <2>4, <2>6, <2>7, <2>8 DEF StatementOK, CursorKnown, RowRead, Streamed
  <1>3. QED
    BY <1>1, <1>2

\* operator << of a variable: to a column before the query, to a mark of it afterwards.
LEMMA StreamVariableKeeps ==
  ASSUME NEW s, StatementOK(s), s.fresh => ~s.open, NEW v \in Variables
  PROVE  StatementOK(StreamVariable(s, v))
  <1>1. PICK f : f = Fresh(s)
    OBVIOUS
  <1>2. StatementOK(f) /\ f.fresh /\ ~f.open
    BY <1>1, FreshKeeps
  <1>3. f \in StatementType /\ f.query \in Seq(Texts \cup {Mark}) /\ f.params \in Seq(Variables)
        /\ f.outs \in Seq(Variables)
    BY <1>2 DEF StatementOK, StatementType
  <1>4. PICK t : t = StreamVariable(s, v)
    OBVIOUS
  <1>5. CASE f.query = <<>>
    <2>1. PICK outs \in Seq(Variables) : outs = Append(f.outs, v)
      BY <1>3, AppendProperties
    <2>2. t = [f EXCEPT !.outs = outs]
      BY <1>1, <1>3, <1>4, <1>5, <2>1 DEF StreamVariable, StatementType
    <2>3. t \in StatementType
      BY <1>3, <2>2 DEF StatementType
    <2>4. /\ t.open = f.open /\ t.prepared = f.prepared /\ t.names = f.names /\ t.row = f.row
          /\ t.col = f.col /\ t.pos = f.pos /\ t.query = f.query /\ t.params = f.params
          /\ t.fresh = f.fresh
      BY <1>3, <2>2 DEF StatementType
    <2>5. QED
      BY <1>2, <1>4, <2>3, <2>4, SameCursor
  <1>6. CASE f.query # <<>>
    <2>1. PICK query \in Seq(Texts \cup {Mark}) : query = Append(f.query, Mark)
      BY <1>3, AppendProperties
    <2>2. PICK params \in Seq(Variables) : params = Append(f.params, v)
      BY <1>3, AppendProperties
    <2>3. t = [f EXCEPT !.query = query, !.params = params]
      BY <1>1, <1>3, <1>4, <1>6, <2>1, <2>2 DEF StreamVariable, StatementType
    <2>4. t \in StatementType
      BY <1>3, <2>3 DEF StatementType
    <2>5. t.open = f.open /\ t.query = query /\ t.params = params /\ t.fresh = f.fresh
      BY <1>3, <2>3 DEF StatementType
    <2>6. Len(query) = Len(f.query) + 1 /\ Len(params) = Len(f.params) + 1
          /\ query[1] = f.query[1] /\ query # <<>>
          /\ Len(f.query) \in Nat /\ Len(f.params) \in Nat
      <3>1. Len(f.query) \in Nat /\ Len(f.params) \in Nat /\ 1 \in 1 .. Len(f.query)
        BY <1>3, <1>6, LenProperties, EmptySeq
      <3>2. QED
        BY <1>3, <2>1, <2>2, <3>1, AppendProperties
    <2>7. f.query[1] \in Texts /\ Len(f.params) = Len(f.query) - 1
      BY <1>2, <1>6 DEF StatementOK, Streamed
    <2>8. Streamed(t)
      BY <1>2, <2>5, <2>6, <2>7 DEF Streamed
    <2>9. ~OnRow(t)
      BY <1>2, <2>5 DEF OnRow, Rows
    <2>10. QED
      BY <1>2, <1>4, <2>4, <2>5, <2>8, <2>9 DEF StatementOK, CursorKnown, RowRead
  <1>7. QED
    BY <1>5, <1>6

\* operator << of the query's text.
LEMMA StreamTextKeeps ==
  ASSUME NEW s, StatementOK(s), s.fresh => ~s.open, NEW q \in Texts, Fresh(s).query = <<>>
  PROVE  StatementOK(StreamText(s, q))
  <1>1. PICK f : f = Fresh(s)
    OBVIOUS
  <1>2. StatementOK(f) /\ f.fresh /\ ~f.open /\ f.query = <<>>
    BY <1>1, FreshKeeps
  <1>3. f \in StatementType /\ f.params = <<>>
    BY <1>2 DEF StatementOK, Streamed
  <1>4. PICK t : t = StreamText(s, q)
    OBVIOUS
  <1>5. PICK query \in Seq(Texts \cup {Mark}) : query = Append(<<>>, q)
    BY EmptySeq, AppendProperties
  <1>6. Append(f.query, q) = query
    BY <1>2, <1>5
  <1>7. t = [f EXCEPT !.query = query]
    BY <1>1, <1>3, <1>4, <1>6 DEF StreamText, StatementType
  <1>8. t \in StatementType
    BY <1>3, <1>7 DEF StatementType
  <1>9. t.open = f.open /\ t.query = query /\ t.params = f.params /\ t.fresh = f.fresh
    BY <1>3, <1>7 DEF StatementType
  <1>10. Len(query) = 1 /\ query[1] = q /\ query # <<>> /\ Len(t.params) = 0
    <2>1. <<>> \in Seq(Texts) /\ Len(<<>>) = 0
      BY EmptySeq
    <2>2. Len(query) = 1 /\ query[1] = q /\ query # <<>>
      BY <1>5, <2>1, AppendProperties
    <2>3. QED
      BY <1>3, <1>9, <2>1, <2>2
  <1>11. Streamed(t)
    BY <1>2, <1>9, <1>10 DEF Streamed
  <1>12. ~OnRow(t)
    BY <1>2, <1>9 DEF OnRow, Rows
  <1>13. QED
    BY <1>2, <1>4, <1>8, <1>9, <1>11, <1>12 DEF StatementOK, CursorKnown, RowRead

\* prepare: what was streamed is prepared as it is.
LEMMA PreparefKeeps ==
  ASSUME StatementAssumption, NEW s, StatementOK(s), s.query # <<>>
  PROVE  /\ StatementOK(Preparef(s)) /\ Preparef(s).fresh = FALSE
         /\ Preparef(s).ok => /\ ~Preparef(s).open /\ Preparef(s).prepared \in DOMAIN Results
                              /\ s.fresh => Preparef(s).marks = Len(Preparef(s).params)
         /\ s.fresh /\ s.query[1] # BadText => Preparef(s).ok
  <1>1. s \in StatementType
    BY DEF StatementOK
  <1>2. PICK t : t = [s EXCEPT !.fresh = FALSE]
    OBVIOUS
  <1>3. t \in StatementType
    BY <1>1, <1>2 DEF StatementType
  <1>4. /\ t.open = s.open /\ t.prepared = s.prepared /\ t.names = s.names /\ t.row = s.row
        /\ t.col = s.col /\ t.pos = s.pos /\ t.query = s.query /\ t.params = s.params
        /\ t.fresh = FALSE
    BY <1>1, <1>2 DEF StatementType
  <1>5. StatementOK(t)
    BY <1>3, <1>4, SameCursor
  <1>6. PICK marks \in Nat : marks = Len(t.query) - 1
    <2>1. t.query \in Seq(Texts \cup {Mark}) /\ t.query # <<>>
      BY <1>3, <1>4 DEF StatementType
    <2>2. Len(t.query) \in Nat /\ Len(t.query) # 0
      BY <2>1, LenProperties, EmptySeq
    <2>3. QED
      BY <2>2
  <1>7. t.query[1] \in Texts
    BY <1>4 DEF StatementOK, Streamed
  <1>8. PICK p : p = Preparef(s)
    OBVIOUS
  <1>9. p = SQLPrepare(t, t.query[1], marks)
    BY <1>2, <1>6, <1>8 DEF Preparef, Prepare
  <1>10. /\ StatementOK(p)
         /\ p.open = t.open /\ p.query = t.query /\ p.fresh = t.fresh /\ p.params = t.params
         /\ p.ok => ~p.open /\ p.prepared \in DOMAIN Results /\ p.marks = marks
         /\ ~t.open /\ t.query[1] # BadText => p.ok
    BY <1>5, <1>6, <1>7, <1>9, PrepareKeeps
  <1>11. s.fresh => ~s.open /\ Len(s.params) = Len(s.query) - 1
    BY DEF StatementOK, Streamed
  <1>12. QED
    BY <1>4, <1>6, <1>8, <1>10, <1>11

LEMMA PrepareExecutefKeeps ==
  ASSUME StatementAssumption, NEW s, StatementOK(s), s.query # <<>>
  PROVE  /\ StatementOK(PrepareExecutef(s))
         /\ s.fresh /\ s.query[1] # BadText => PrepareExecutef(s).ok
  <1>1. PICK p : p = Preparef(s)
    OBVIOUS
  <1>2. /\ StatementOK(p) /\ p.fresh = FALSE
        /\ p.ok => /\ ~p.open /\ p.prepared \in DOMAIN Results
                   /\ s.fresh => p.marks = Len(p.params)
        /\ s.fresh /\ s.query[1] # BadText => p.ok
    BY <1>1, PreparefKeeps
  <1>3. CASE p.ok
    <2>1. PrepareExecutef(s) = Execute(p)
      BY <1>1, <1>3 DEF PrepareExecutef
    <2>2. QED
      BY <1>2, <1>3, <2>1, ExecuteKeeps
  <1>4. CASE ~p.ok
    <2>1. PrepareExecutef(s) = p
      BY <1>1, <1>4 DEF PrepareExecutef
    <2>2. QED
      BY <1>2, <1>4, <2>1
  <1>5. QED
    BY <1>3, <1>4

LEMMA StatementCallKeeps ==
  ASSUME StatementAssumption, StatementInv, StatementCall
  PROVE  StatementInv'
  <1> USE DEF StatementInv
  <1>1. RecordOK'
    <2>1. rec' = rec /\ (rec # NoRecord => rec.kind = "mem")
      BY DEF StatementCall
    <2>2. CASE rec = NoRecord
      BY <2>1, <2>2 DEF RecordOK
    <2>3. CASE rec # NoRecord
      <3>1. rec.kind = "mem" /\ ~IsDbRec(rec)
        BY <2>1, <2>3 DEF IsDbRec
      <3>2. QED
        BY <2>1, <2>3, <3>1 DEF RecordOK
    <2>4. QED
      BY <2>2, <2>3
  <1>2. StatementOK(st')
    <2>1. CASE /\ st.fresh => ~st.open /\ Len(st.query) + Len(st.outs) < MaxStreamed
               /\ \/ \E v \in Variables : st' = StreamVariable(st, v)
                  \/ \E q \in DOMAIN Results \cup {BadText} :
                       Fresh(st).query = <<>> /\ st' = StreamText(st, q)
      <3>1. CASE \E v \in Variables : st' = StreamVariable(st, v)
        BY <2>1, <3>1, StreamVariableKeeps
      <3>2. CASE \E q \in DOMAIN Results \cup {BadText} :
                   Fresh(st).query = <<>> /\ st' = StreamText(st, q)
        BY <2>1, <3>2, StreamTextKeeps DEF Texts
      <3>3. QED
        BY <2>1, <3>1, <3>2
    <2>2. CASE st.query # <<>>
               /\ st' \in {Preparef(st), PrepareExecutef(st), PrepareExecuteFetchf(st)}
      <3>1. StatementOK(Preparef(st)) /\ StatementOK(PrepareExecutef(st))
        BY <2>2, PreparefKeeps, PrepareExecutefKeeps
      <3>2. StatementOK(PrepareExecuteFetchf(st))
        <4>1. PICK e : e = PrepareExecutef(st)
          OBVIOUS
        <4>2. PrepareExecuteFetchf(st) = IF e.ok THEN FetchNext(e) ELSE e
          BY <4>1 DEF PrepareExecuteFetchf
        <4>3. StatementOK(e) /\ StatementOK(FetchNext(e))
          BY <3>1, <4>1, FetchNextKeeps
        <4>4. QED
          BY <4>2, <4>3
      <3>3. QED
        BY <2>2, <3>1, <3>2
    <2>3. CASE ~st.fresh /\ st' \in {Execute(st), CloseCursor(st)}
      BY <2>3, ExecuteKeeps, CloseCursorKeeps
    <2>4. CASE st.query = <<>> /\ \E q \in DOMAIN Results : st' = ExecuteDirect(st, q)
      <3>1. PICK q \in DOMAIN Results : st' = ExecuteDirect(st, q)
        BY <2>4
      <3>2. PICK p : p = SQLPrepare(st, q, 0)
        OBVIOUS
      <3>3. StatementOK(p) /\ p.query = st.query
        BY <3>2, PrepareKeeps DEF Texts
      <3>4. st' = Execute(p)
        BY <3>1, <3>2 DEF ExecuteDirect
      <3>5. QED
        BY <2>4, <3>3, <3>4, ExecuteKeeps
    <2>5. CASE st.open /\ st' = FetchNext(st)
      BY <2>5, FetchNextKeeps
    <2>6. CASE st.open /\ \E name \in ToSet(WithNames(st).names) : st' = WithColumn(st, name)
      BY <2>6, WithColumnKeeps
    <2>7. QED
      BY <2>1, <2>2, <2>3, <2>4, <2>5, <2>6 DEF StatementCall
  <1>3. QED
    BY <1>1, <1>2

LEMMA MakeMemRecKeeps ==
  ASSUME StatementAssumption, StatementInv, NEW freshst \in BOOLEAN, MakeMemRec(freshst)
  PROVE  StatementInv'
  <1> USE DEF StatementInv
  <1>1. st.open /\ (freshst => st.pos = 0) /\ (~freshst => OnRow(st))
    BY DEF MakeMemRec
  <1>2. PICK s : s = WithNames(st)
    OBVIOUS
  <1>3. /\ StatementOK(s) /\ s.open /\ s.pos = st.pos /\ s.prepared = st.prepared
        /\ st.prepared \in DOMAIN Results
    BY <1>1, <1>2, WithNamesKeeps
  <1>4. PICK at \in Nat : (freshst => at = 1) /\ (~freshst => at = st.pos)
                          /\ at = IF freshst THEN st.pos + 1 ELSE st.pos
    <2>1. st.pos \in Nat
      BY DEF StatementOK, StatementType
    <2>2. CASE freshst
      BY <1>1, <2>1, <2>2
    <2>3. CASE ~freshst
      BY <2>1, <2>3
    <2>4. QED
      BY <2>2, <2>3
  <1>5. ~freshst => OnRow(s)
    BY <1>1, <1>3 DEF OnRow, Rows
  <1>6. PICK data : data = DataSet(s, freshst)
    OBVIOUS
  <1>7. /\ StatementOK(data.after)
        /\ Len(data.rows) = Len(Results[s.prepared].rows) - at + 1
        /\ \A n \in DOMAIN data.rows : Shows(data.rows[n], s.prepared, at + n - 1)
    BY <1>1, <1>3, <1>4, <1>5, <1>6, DataSetShows
  <1>8. st' = data.after /\ rec' = [kind |-> "mem", names |-> s.names, rows |-> data.rows,
                                    query |-> s.prepared, from |-> at]
    BY <1>2, <1>3, <1>4, <1>6 DEF MakeMemRec
  <1>9. rec'.kind = "mem" /\ rec'.rows = data.rows /\ rec'.query = s.prepared /\ rec'.from = at
    BY <1>8
  <1>10. RecordOK'
    BY <1>3, <1>7, <1>9 DEF RecordOK
  <1>11. QED
    BY <1>7, <1>8, <1>10

LEMMA MakeDbRecKeeps ==
  ASSUME StatementAssumption, StatementInv, NEW freshst \in BOOLEAN, MakeDbRec(freshst)
  PROVE  StatementInv'
  <1> USE DEF StatementInv
  <1>1. PICK f : f = IF freshst THEN FetchNext(st) ELSE st
    OBVIOUS
  <1>2. StatementOK(f) /\ f.open
    BY <1>1, FetchNextKeeps DEF MakeDbRec
  <1>3. PICK s : s = WithNames(f)
    OBVIOUS
  <1>4. StatementOK(s)
    BY <1>2, <1>3, WithNamesKeeps
  <1>5. PICK first : first = IF OnRow(s) THEN RowStrings(s) ELSE <<>>
    OBVIOUS
  <1>6. PICK none : none = ~OnRow(s)
    OBVIOUS
  <1>7. st' = s /\ rec' = [kind |-> "db", empty |-> none, iterating |-> FALSE, first |-> first,
                           current |-> <<>>, valid |-> FALSE]
    BY <1>1, <1>3, <1>5, <1>6 DEF MakeDbRec
  <1>8. rec'.kind = "db" /\ rec'.empty = none /\ rec'.iterating = FALSE /\ rec'.first = first
        /\ rec'.current = <<>> /\ rec'.valid = FALSE
    BY <1>7
  <1>9. IsDbRec(rec')
    BY <1>7, <1>8 DEF IsDbRec
  <1>10. OnRow(s) => Shows(first, s.prepared, s.pos)
    BY <1>4, <1>5, StringsShow
  <1>11. RecordOK'
    BY <1>6, <1>7, <1>8, <1>9, <1>10 DEF RecordOK
  <1>12. QED
    BY <1>4, <1>7, <1>11

LEMMA DbRecKeeps ==
  ASSUME StatementAssumption, StatementInv, DbRecIterator \/ DbRecNext \/ DropRecord
  PROVE  StatementInv'
  <1> USE DEF StatementInv
  <1>1. ASSUME rec # NoRecord, rec.kind = "db" PROVE
          /\ IsDbRec(rec)
          /\ ~rec.iterating /\ ~rec.empty => OnRow(st) /\ Shows(rec.first, st.prepared, st.pos)
          /\ rec.valid => OnRow(st) /\ Shows(rec.current, st.prepared, st.pos)
    BY <1>1 DEF RecordOK
  <1>2. CASE DbRecIterator
    <2>1. rec # NoRecord /\ rec.kind = "db" /\ ~rec.iterating /\ ~rec.empty /\ st' = st
          /\ rec' = [rec EXCEPT !.iterating = TRUE, !.current = rec.first, !.valid = TRUE]
      BY <1>2 DEF DbRecIterator
    <2>2. IsDbRec(rec) /\ OnRow(st) /\ Shows(rec.first, st.prepared, st.pos)
      BY <1>1, <2>1
    <2>3. rec' = [kind |-> "db", empty |-> rec.empty, iterating |-> TRUE, first |-> rec.first,
                  current |-> rec.first, valid |-> TRUE]
      BY <2>1, <2>2 DEF IsDbRec
    <2>4. rec'.iterating = TRUE /\ rec'.current = rec.first /\ IsDbRec(rec')
      BY <2>3 DEF IsDbRec
    <2>5. RecordOK'
      BY <2>1, <2>2, <2>4 DEF RecordOK
    <2>6. QED
      BY <2>1, <2>5
  <1>3. CASE DbRecNext
    <2>1. rec # NoRecord /\ rec.kind = "db" /\ rec.valid
          /\ st' = FetchNext(st)
          /\ rec' = [rec EXCEPT !.current = RowStrings(st'), !.valid = st'.ok]
      BY <1>3 DEF DbRecNext
    <2>2. IsDbRec(rec) /\ rec.iterating
      BY <1>1, <2>1 DEF IsDbRec
    <2>3. StatementOK(st') /\ (st'.ok <=> OnRow(st'))
      BY <2>1, FetchNextKeeps
    <2>4. PICK strings : strings = RowStrings(st')
      OBVIOUS
    <2>5. PICK valid : valid = st'.ok
      OBVIOUS
    <2>6. rec' = [kind |-> "db", empty |-> rec.empty, iterating |-> rec.iterating,
                  first |-> rec.first, current |-> strings, valid |-> valid]
      BY <2>1, <2>2, <2>4, <2>5 DEF IsDbRec
    <2>7. rec'.iterating = rec.iterating /\ rec'.current = strings /\ rec'.valid = valid
          /\ IsDbRec(rec')
      BY <2>2, <2>6 DEF IsDbRec
    <2>8. OnRow(st') => Shows(strings, st'.prepared, st'.pos)
      BY <2>3, <2>4, StringsShow
    <2>9. RecordOK'
      BY <2>2, <2>3, <2>5, <2>7, <2>8 DEF RecordOK
    <2>10. QED
      BY <2>3, <2>9
  <1>4. CASE DropRecord
    <2>1. rec' = NoRecord /\ st' = IF rec.kind = "db" THEN NewStatement ELSE st
      BY <1>4 DEF DropRecord
    <2>2. StatementOK(st')
      BY <2>1, NewStatementOK
    <2>3. QED
      BY <2>1, <2>2 DEF RecordOK
  <1>5. QED
    BY <1>2, <1>3, <1>4

\* A column is read by the first of its name.
LEMMA ReadByName ==
  ASSUME StatementAssumption, StatementOK(st), OnRow(st), NEW name,
         NEW columns, columns = Columns(st)
  PROVE  LET c == CHOOSE d \in DOMAIN columns :
                    /\ Lowercase[columns[d]] = name
                    /\ \A b \in 1 .. d - 1 : Lowercase[columns[b]] # name IN
         IF name \in {Lowercase[n] : n \in ToSet(columns)}
         THEN Stored(WithColumn(st, name).row[FindColumn(st, name)]) = Rows(st)[st.pos][c]
         ELSE FindColumn(st, name) = 0
  <1>1. st.open /\ st.prepared \in DOMAIN Results
    BY StringsShow
  <1>2. PICK width \in Nat : width = Len(columns) /\ DOMAIN columns = 1 .. width
    BY <1>1, WithNamesKeeps, NamesKnown
  <1>3. PICK f : f = FindColumn(st, name)
    OBVIOUS
  <1>4. /\ f \in 0 .. width
        /\ f = 0 => \A c \in 1 .. width : Lowercase[columns[c]] # name
        /\ f # 0 => /\ Lowercase[columns[f]] = name
                    /\ \A b \in 1 .. width : Lowercase[columns[b]] = name => f <= b
    BY <1>1, <1>2, <1>3, FindColumnFinds
  <1>5. ToSet(columns) = {columns[i] : i \in 1 .. width}
    BY <1>2 DEF ToSet
  <1>6. CASE f = 0
    <2>1. name \notin {Lowercase[n] : n \in ToSet(columns)}
      BY <1>4, <1>5, <1>6
    <2>2. QED
      BY <1>3, <1>6, <2>1
  <1>7. CASE f # 0
    <2>1. f \in 1 .. width
      BY <1>2, <1>4, <1>7
    <2>2. name \in {Lowercase[n] : n \in ToSet(columns)}
      BY <1>4, <1>5, <1>7, <2>1
    <2>3. \A b \in 1 .. f - 1 : Lowercase[columns[b]] # name
      <3>1. ASSUME NEW b \in 1 .. f - 1 PROVE b \in 1 .. width /\ ~(f <= b)
        BY <1>2, <2>1
      <3>2. QED
        BY <1>4, <1>7, <3>1
    <2>4. ASSUME NEW d \in 1 .. width, Lowercase[columns[d]] = name,
                 \A b \in 1 .. d - 1 : Lowercase[columns[b]] # name
          PROVE  d = f
      <3>1. f <= d
        BY <1>4, <1>7, <2>4
      <3>2. f \notin 1 .. d - 1
        BY <1>4, <1>7, <2>4
      <3>3. QED
        BY <2>1, <3>1, <3>2
    <2>5. PICK c : c = CHOOSE d \in 1 .. width : /\ Lowercase[columns[d]] = name
                                             /\ \A b \in 1 .. d - 1 : Lowercase[columns[b]] # name
      OBVIOUS
    <2>6. c = f
      BY <1>4, <1>7, <2>1, <2>3, <2>4, <2>5
    <2>7. WithColumn(st, name).row[f] = Whole(Rows(st)[st.pos][f])
      BY <1>1, <1>3, <1>7, WithColumnKeeps
    <2>8. \A v : Stored(Whole(v)) = v
      BY DEF Stored, Whole
    <2>9. Stored(WithColumn(st, name).row[f]) = Rows(st)[st.pos][c]
      BY <2>6, <2>7, <2>8
    <2>10. QED
      BY <1>2, <1>3, <2>2, <2>5, <2>9
  <1>8. QED
    BY <1>6, <1>7

LEMMA RowsAreRight ==
  ASSUME StatementAssumption, StatementInv
  PROVE  RowsReadAsStored
  <1> USE DEF StatementInv
  <1>1. OnRow(st) /\ rec = NoRecord =>
          \A name \in {Lowercase[n] : n \in DOMAIN Lowercase} :
            LET c == CHOOSE d \in DOMAIN Columns(st) :
                       /\ Lowercase[Columns(st)[d]] = name
                       /\ \A b \in 1 .. d - 1 : Lowercase[Columns(st)[b]] # name IN
            IF name \in {Lowercase[n] : n \in ToSet(Columns(st))}
            THEN Stored(WithColumn(st, name).row[FindColumn(st, name)]) = Rows(st)[st.pos][c]
            ELSE FindColumn(st, name) = 0
    BY ReadByName
  <1>2. st.fresh /\ st.query # <<>> /\ st.query[1] # BadText => PrepareExecutef(st).ok
    BY PrepareExecutefKeeps
  <1>3. RenderTable(st) = [n \in 1 .. Len(Rows(st)) - st.pos |->
                            [c \in DOMAIN Columns(st) |->
                               LET value == Rows(st)[st.pos + n][c] IN
                               [fetched |-> TRUE, isnull |-> value = Null,
                                value |-> IF value = Null THEN <<>> ELSE value]]]
    BY TableRendered DEF Whole
  <1>4. ASSUME rec # NoRecord
        PROVE  IF rec.kind = "mem"
               THEN LET all == Results[rec.query].rows
                        size == MaxSize([st EXCEPT !.prepared = rec.query]) IN
                    /\ Len(rec.rows) = Len(all) - rec.from + 1
                    /\ \A n \in DOMAIN rec.rows : ShownAs(all[rec.from + n - 1], rec.rows[n], size)
               ELSE rec.valid => OnRow(st) /\ ShownAs(Rows(st)[st.pos], rec.current, MaxSize(st))
    <2>1. CASE rec.kind = "mem"
      <3>1. MaxSize([st EXCEPT !.prepared = rec.query]) = SizeOf(rec.query)
        <4>1. [st EXCEPT !.prepared = rec.query].prepared = rec.query
          BY DEF StatementOK, StatementType
        <4>2. QED
          BY <4>1 DEF MaxSize, SizeOf
      <3>2. ~IsDbRec(rec)
        BY <2>1 DEF IsDbRec
      <3>3. Len(rec.rows) = Len(Results[rec.query].rows) - rec.from + 1
            /\ \A n \in DOMAIN rec.rows : Shows(rec.rows[n], rec.query, rec.from + n - 1)
        BY <1>4, <2>1, <3>2 DEF RecordOK
      <3>4. QED
        BY <2>1, <3>1, <3>3 DEF Shows
    <2>2. CASE rec.kind # "mem"
      <3>1. rec.valid => OnRow(st) /\ Shows(rec.current, st.prepared, st.pos)
        BY <1>4, <2>2 DEF RecordOK
      <3>2. MaxSize(st) = SizeOf(st.prepared)
        BY DEF MaxSize, SizeOf
      <3>3. OnRow(st) => Rows(st) = Results[st.prepared].rows
        BY StringsShow
      <3>4. QED
        BY <2>2, <3>1, <3>2, <3>3 DEF Shows
    <2>3. QED
      BY <2>1, <2>2
  <1>5. QED
    BY <1>1, <1>2, <1>3, <1>4 DEF RowsReadAsStored

\* Whatever is executed, fetched and read before, a column reads as it is stored, and what
\* has been streamed can be executed.
THEOREM RowsAreReadAsStored ==
  ASSUME StatementAssumption
  PROVE  StatementSpec => []RowsReadAsStored
  <1>1. StatementInit => StatementInv
    BY NewStatementOK DEF StatementInit, StatementInv, RecordOK
  <1>2. StatementInv /\ [StatementNext]_statementvars => StatementInv'
    <2>1. SUFFICES ASSUME StatementInv, [StatementNext]_statementvars PROVE StatementInv'
      OBVIOUS
    <2>2. CASE StatementCall
      BY <2>1, <2>2, StatementCallKeeps
    <2>3. CASE DbRecIterator \/ DbRecNext \/ DropRecord
      BY <2>1, <2>3, DbRecKeeps
    <2>4. CASE \E freshst \in BOOLEAN : MakeMemRec(freshst) \/ MakeDbRec(freshst)
      BY <2>1, <2>4, MakeMemRecKeeps, MakeDbRecKeeps
    <2>5. CASE UNCHANGED statementvars
      BY <2>1, <2>5 DEF statementvars, StatementInv, RecordOK, StatementOK
    <2>6. QED
      BY <2>1, <2>2, <2>3, <2>4, <2>5 DEF StatementNext
  <1>3. StatementInv => RowsReadAsStored
    BY RowsAreRight
  <1>4. QED
    BY <1>1, <1>2, <1>3, PTL DEF StatementSpec

-----------------------------------------------------------------------------
(* Of SmtpSession: the place of a line in the session, and where each side is. *)

Positions == [mail : Nat \ {0}, line : Nat \ {0}]
At(i, j) == [mail |-> i, line |-> j]

(* The session's lines from mail to mail; it ends with a QUIT. *)
LineAt(p, mails) ==
  IF p.mail <= Len(mails) THEN Script(mails[p.mail])[p.line].line ELSE Command("QUIT")
Following(p, mails) ==
  IF p.mail <= Len(mails) /\ p.line < Len(Script(mails[p.mail])) THEN At(p.mail, p.line + 1)
  ELSE At(p.mail + 1, 1)

(* The client has sent what is before the position. *)
ClientAt(p) ==
  LET count == Len(client.mails)
      all == Script(client.mails[count]) IN
  IF client.script = <<>> THEN p = At(count + 1, 1)
  ELSE /\ count > 0 /\ p.mail = count /\ Len(client.script) = Len(all) - p.line + 1
       /\ \A i \in 1 .. Len(client.script) : client.script[i] = all[p.line + i - 1]

(* The server has read what is before the position. *)
ServerAt(p) ==
  LET m == client.mails[p.mail] IN
  /\ p.mail = Len(server.taken) + 1
  /\ IF p.mail <= Len(client.mails) THEN p.line <= Len(Script(m)) ELSE p.line = 1
  /\ \/ server.at \in {"greeting", "start"} /\ p.line = 1
     \/ server.at = "ready" /\ p.line \in {1, 2}
     \/ /\ server.at = "mail" /\ p.line \in 3 .. m.to + 3
        /\ server.to = p.line - 3
     \/ /\ server.at = "data" /\ p.mail <= Len(client.mails) /\ p.line > m.to + 3
        /\ server.to = m.to
        /\ server.lines = SubSeq(Meant(m).body, 1, p.line - (m.to + 3) - Len(Headers(m)) - 1)

(* From the one to the other: the lines on their way. *)
OnTheWay(P) ==
  /\ Len(P) = Len(toserver) + 1
  /\ \A i \in 1 .. Len(toserver) : /\ toserver[i] = LineAt(P[i], client.mails)
                                   /\ P[i + 1] = Following(P[i], client.mails)
                                   /\ client.open => P[i].mail <= Len(client.mails)
  /\ ServerAt(P[1])
  /\ client.open => ClientAt(P[Len(P)])

InStep == server.refused = 0 /\ server.at # "gone" => \E P \in Seq(Positions) : OnTheWay(P)

(* The client waits for a reply that it has not got. *)
Awaiting == client.hearing # "nothing" \/ ~client.gotinitial
Asks(line) == line.kind = "command" \/ line = LastLine.line

Lockstep ==
  server.refused = 0 /\ ~server.long /\ client.open =>
    /\ Len(replies) <= 1
    /\ replies # <<>> => Awaiting
    /\ server.at # "gone" =>
         /\ replies # <<>> => toserver = <<>>
         /\ \A i \in 1 .. Len(toserver) :
              Asks(toserver[i]) => i = Len(toserver) /\ Awaiting /\ replies = <<>>
         /\ server.at = "greeting" => replies = <<>> /\ toserver = <<>> /\ Awaiting
    /\ replies # <<>> /\ client.script = <<>> => Len(client.mails) <= Len(server.taken)

(* What send_mail has returned, one result for each mail behind it. *)
MailsReturned ==
  /\ Len(client.returned) = Len(client.mails) - (IF BetweenMails THEN 0 ELSE 1)
  /\ client.mails = <<>> <=> ~client.gotinitial
  /\ ~BetweenMails => client.open /\ client.gotinitial
  /\ client.script # <<>> => client.script[Len(client.script)] = LastLine

Lines == Seq(Letters)
Verbs == {"HELO", "MAIL", "RCPT", "DATA", "QUIT"}
HeaderNames == {"From", "To", "Cc", "Subject", ""}
Mails == [to : Nat, cc : Nat, body : Seq(Lines)]
WireLines == [kind : {"command"}, verb : Verbs] \cup [kind : {"header"}, name : HeaderNames]
               \cup [kind : {"data"}, chars : Lines]
Replies == {"nothing", "reply", "needed"}
ScriptLines == [line : WireLines, hears : Replies]

ClientType ==
  [script : Seq(ScriptLines), hearing : Replies, gotinitial : BOOLEAN, mails : Seq(Mails),
   returned : Seq(BOOLEAN), open : BOOLEAN]
ServerType ==
  [at : {"greeting", "start", "ready", "mail", "data", "gone"}, to : Nat, lines : Seq(Lines),
   taken : Seq([to : Nat, body : Seq(Lines)]), refused : Nat, long : BOOLEAN, data : Nat]

SmtpType ==
  /\ client \in ClientType /\ toserver \in Seq(WireLines)
  /\ replies \in Seq({"reply"}) /\ server \in ServerType

SmtpInv == SmtpType /\ InStep /\ Lockstep /\ MailsReturned /\ MailArrives

\* The recursion of Tokens has a result.
LEMMA TokensOneByOne ==
  ASSUME NEW body
  PROVE  \E upto : /\ Tokens(body) = upto[Len(body)] /\ upto[0] = <<>>
                   /\ \A n \in Nat : upto[n + 1] = IF body[n + 1] = <<>> THEN upto[n]
                                                  ELSE Append(upto[n], body[n + 1])
  <1> DEFINE More(n, seq) == IF body[n] = <<>> THEN seq ELSE Append(seq, body[n])
             Upto(h) == [n \in Nat |-> IF n = 0 THEN <<>> ELSE More(n, h[n - 1])]
             All == {body[n] : n \in Nat}
  <1> HIDE DEF More, Upto, All
  <1>0. PICK Seqs : Seqs = Nat \X Seq(All)
    OBVIOUS
  <1>1. ASSUME NEW n \in Nat, NEW seq \in Seq(All) PROVE More(n, seq) \in Seq(All)
    <2>1. body[n] \in All
      BY DEF All
    <2>2. QED
      BY <2>1, AppendProperties DEF More
  <1>2. ASSUME NEW x \in Seqs PROVE <<x[1] + 1, More(x[1] + 1, x[2])>> \in Seqs
    <2>1. x[1] + 1 \in Nat /\ x[2] \in Seq(All)
      BY <1>0
    <2>2. QED
      BY <1>0, <1>1, <2>1
  <1>3. PICK F \in [Seqs -> Seqs] : F = [x \in Seqs |-> <<x[1] + 1, More(x[1] + 1, x[2])>>]
    BY <1>2
  <1>4. PICK h \in [Nat -> Seqs] : h[0] = <<0, <<>>>> /\ \A n \in Nat : h[n + 1] = F[h[n]]
    <2>1. <<>> \in Seq(All)
      OBVIOUS
    <2>2. PICK start \in Seqs : start = <<0, <<>>>>
      BY <1>0, <2>1
    <2>3. \E h \in [Nat -> Seqs] : h[0] = start /\ \A n \in Nat : h[n + 1] = F[h[n]]
      BY Iterates
    <2>4. QED
      BY <2>2, <2>3
  <1>5. ASSUME NEW n \in Nat
        PROVE  h[n] \in Seqs /\ h[n + 1][1] = h[n][1] + 1
               /\ h[n + 1][2] = More(h[n][1] + 1, h[n][2])
    <2>1. PICK x \in Seqs : x = h[n]
      OBVIOUS
    <2>2. F[x] = <<x[1] + 1, More(x[1] + 1, x[2])>>
      BY <1>3
    <2>3. F[x][1] = x[1] + 1 /\ F[x][2] = More(x[1] + 1, x[2])
      BY <2>2
    <2>4. QED
      BY <1>4, <2>1, <2>3
  <1>6. ASSUME NEW n \in Nat PROVE h[n][1] = n
    <2>1. PICK T \in SUBSET Nat : T = {i \in Nat : h[i][1] = i}
      OBVIOUS
    <2>2. 0 \in T
      BY <1>4, <2>1
    <2>3. ASSUME NEW i \in T PROVE i + 1 \in T
      <3>1. i \in Nat /\ h[i][1] = i
        BY <2>1
      <3>2. h[i + 1][1] = i + 1
        BY <1>5, <3>1
      <3>3. QED
        BY <2>1, <3>1, <3>2
    <2>4. \A i \in Nat : i \in T
      BY <2>2, <2>3, AllNumbers
    <2>5. QED
      BY <2>1, <2>4
  <1>7. PICK g : g = [n \in Nat |-> h[n][2]]
    OBVIOUS
  <1>8. g = Upto(g)
    <2>1. ASSUME NEW n \in Nat PROVE g[n] = Upto(g)[n]
      <3>1. CASE n = 0
        BY <1>4, <1>7, <3>1 DEF Upto
      <3>2. CASE n # 0
        <4>1. n - 1 \in Nat /\ (n - 1) + 1 = n
          BY <3>2
        <4>2. h[n][2] = More(n, h[n - 1][2])
          BY <1>5, <1>6, <4>1
        <4>3. QED
          BY <1>7, <3>2, <4>1, <4>2 DEF Upto
      <3>3. QED
        BY <3>1, <3>2
    <2>2. QED
      BY <1>7, <2>1 DEF Upto
  <1>9. PICK upto : upto = CHOOSE f : f = Upto(f)
    OBVIOUS
  <1>10. upto = Upto(upto)
    BY <1>8, <1>9
  <1>11. Tokens(body) = upto[Len(body)]
    BY <1>9 DEF Tokens, Upto, More
  <1>12. upto[0] = <<>>
    BY <1>10 DEF Upto
  <1>13. ASSUME NEW n \in Nat PROVE upto[n + 1] = More(n + 1, upto[n])
    BY <1>10 DEF Upto
  <1>14. QED
    BY <1>11, <1>12, <1>13 DEF More

\* The lines of a text that are not empty are lines.
LEMMA TokensTyped ==
  ASSUME NEW body \in Seq(Lines)
  PROVE  Tokens(body) \in Seq(Lines \ {<<>>})
  <1>1. PICK upto : /\ Tokens(body) = upto[Len(body)] /\ upto[0] = <<>>
                    /\ \A n \in Nat : upto[n + 1] = IF body[n + 1] = <<>> THEN upto[n]
                                                   ELSE Append(upto[n], body[n + 1])
    BY TokensOneByOne
  <1>2. PICK T \in SUBSET Nat :
           T = {n \in Nat : n <= Len(body) => upto[n] \in Seq(Lines \ {<<>>})}
    OBVIOUS
  <1>3. 0 \in T
    <2>1. upto[0] = <<>>
      BY <1>1
    <2>2. <<>> \in Seq(Lines \ {<<>>})
      OBVIOUS
    <2>3. QED
      BY <1>2, <2>1, <2>2
  <1>4. ASSUME NEW n \in T PROVE n + 1 \in T
    <2>1. SUFFICES ASSUME n + 1 <= Len(body) PROVE upto[n + 1] \in Seq(Lines \ {<<>>})
      BY <1>2
    <2>2. Len(body) \in Nat /\ n \in Nat
      BY LenProperties
    <2>3. upto[n] \in Seq(Lines \ {<<>>})
      BY <1>2, <2>1, <2>2
    <2>4. body[n + 1] \in Lines
      BY <2>1, <2>2, ElementOfSeq
    <2>5. upto[n + 1] = IF body[n + 1] = <<>> THEN upto[n]
                        ELSE Append(upto[n], body[n + 1])
      BY <1>1, <2>2
    <2>6. QED
      <3>1. CASE body[n + 1] = <<>>
        BY <2>3, <2>5, <3>1
      <3>2. CASE body[n + 1] # <<>>
        <4>1. body[n + 1] \in Lines \ {<<>>}
          BY <2>4, <3>2
        <4>2. QED
          BY <2>3, <2>5, <3>2, <4>1, AppendProperties
      <3>3. QED
        BY <3>1, <3>2
  <1>5. \A n \in Nat : n \in T
    BY <1>3, <1>4, AllNumbers
  <1>6. QED
    <2>1. Len(body) \in Nat
      BY LenProperties
    <2>2. Len(body) \in T
      BY <1>5, <2>1
    <2>3. QED
      BY <1>1, <1>2, <2>2

\* A line arrives as it was meant, and is not taken for the end of the text.
LEMMA LineArrives ==
  ASSUME SmtpAssumption, NEW line \in Lines \ {<<>>}
  PROVE  /\ SentLine(line) \in Lines /\ SentLine(line) # <<".">>
         /\ (IF SentLine(line) = <<>> THEN <<>> ELSE Unstuffed(SentLine(line)))
              = (IF Last(line) = "\r" THEN Front(line) ELSE line)
  <1>1. PICK n \in Nat \ {0} : n = Len(line)
    BY LenProperties, EmptySeq DEF Lines
  <1>2. \A i \in 1 .. n : line[i] \in Letters
    BY <1>1, ElementOfSeq DEF Lines
  <1>3. /\ Front(line) \in Lines /\ Len(Front(line)) = n - 1
        /\ \A i \in 1 .. n - 1 : Front(line)[i] = line[i]
    <2>1. \A i \in 1 .. n - 1 : line[i] \in Letters
      BY <1>2
    <2>2. QED
      BY <1>1, <2>1, SubSeqProperties DEF Front, Lines
  <1>4. CASE line[1] = "."
    <2>1. PICK dotted : dotted = <<".">> \o line
      OBVIOUS
    <2>2. /\ dotted \in Lines /\ Len(dotted) = n + 1 /\ dotted[1] = "."
          /\ \A i \in 1 .. n : dotted[i + 1] = line[i]
      <3>1. <<".">> \in Seq(Letters) /\ Len(<<".">>) = 1 /\ <<".">>[1] = "."
        <4>1. "." \in Letters
          BY DEF SmtpAssumption
        <4>2. ASSUME NEW c \in Letters
              PROVE  <<c>> \in Seq(Letters) /\ Len(<<c>>) = 1 /\ <<c>>[1] = c
          OBVIOUS
        <4>3. QED
          BY <4>1, <4>2
      <3>2. \A i \in 1 .. n : i + 1 > 1 /\ i + 1 <= n + 1 /\ i + 1 - 1 = i
        OBVIOUS
      <3>3. QED
        BY <1>1, <2>1, <3>1, <3>2, ConcatProperties DEF Lines
    <2>3. /\ Front(dotted) \in Lines /\ Len(Front(dotted)) = n
          /\ \A i \in 1 .. n : Front(dotted)[i] = dotted[i]
      <3>1. \A i \in 1 .. n : dotted[i] \in Letters
        BY <2>2, ElementOfSeq DEF Lines
      <3>2. QED
        BY <2>2, <3>1, SubSeqProperties DEF Front, Lines
    <2>4. Last(dotted) = Last(line)
      BY <1>1, <2>2 DEF Last
    <2>5. SentLine(line) = IF Last(line) = "\r" THEN Front(dotted) ELSE dotted
      <3>1. Head(line) = "."
        BY <1>1, <1>4
      <3>2. dotted # <<>>
        BY <2>2
      <3>3. QED
        BY <2>1, <2>4, <3>1, <3>2 DEF SentLine
    <2>6. CASE Last(line) = "\r"
      <3>1. n > 1
        BY <1>1, <1>4, <2>6 DEF Last
      <3>2. Front(dotted)[1] = "." /\ Front(dotted) # <<>> /\ Front(dotted) # <<".">>
        BY <2>2, <2>3, <3>1
      <3>3. Tail(Front(dotted)) = Front(line)
        <4>1. /\ Tail(Front(dotted)) \in Lines /\ Len(Tail(Front(dotted))) = n - 1
              /\ \A i \in 1 .. n - 1 : Tail(Front(dotted))[i] = Front(dotted)[i + 1]
          BY <2>3, <3>2, HeadTailProperties DEF Lines
        <4>2. \A i \in 1 .. n - 1 : Tail(Front(dotted))[i] = Front(line)[i]
          BY <1>3, <2>2, <2>3, <4>1
        <4>3. QED
          BY <1>3, <4>1, <4>2, SeqEqual DEF Lines
      <3>4. Head(Front(dotted)) = "."
        BY <3>2
      <3>5. QED
        BY <2>3, <2>5, <2>6, <3>2, <3>3, <3>4 DEF Unstuffed
    <2>7. CASE Last(line) # "\r"
      <3>1. dotted # <<>> /\ dotted # <<".">> /\ Head(dotted) = "."
        BY <2>2
      <3>2. Tail(dotted) = line
        <4>1. /\ Tail(dotted) \in Lines /\ Len(Tail(dotted)) = n
              /\ \A i \in 1 .. n : Tail(dotted)[i] = dotted[i + 1]
          BY <2>2, <3>1, HeadTailProperties DEF Lines
        <4>2. QED
          BY <1>1, <2>2, <4>1, SeqEqual DEF Lines
      <3>3. QED
        BY <2>2, <2>5, <2>7, <3>1, <3>2 DEF Unstuffed
    <2>8. QED
      BY <2>6, <2>7
  <1>5. CASE line[1] # "."
    <2>1. SentLine(line) = IF Last(line) = "\r" THEN Front(line) ELSE line
      <3>1. Head(line) # "."
        BY <1>1, <1>5
      <3>2. QED
        BY <3>1 DEF SentLine
    <2>2. PICK sent : sent = SentLine(line)
      OBVIOUS
    <2>3. sent \in Lines /\ (sent = <<>> \/ (Len(sent) > 0 /\ sent[1] = line[1]))
      BY <1>1, <1>3, <2>1, <2>2
    <2>4. sent = <<>> \/ Head(sent) # "."
      BY <1>5, <2>3
    <2>5. sent # <<".">>
      <3>1. <<".">>[1] = "." /\ <<".">> # <<>>
        OBVIOUS
      <3>2. QED
        BY <1>5, <2>3, <3>1
    <2>6. QED
      BY <2>1, <2>2, <2>3, <2>4, <2>5 DEF Unstuffed
  <1>6. QED
    BY <1>4, <1>5

\* Where the elements of a sequence are after it has been joined with another, or two.
LEMMA ConcatAt ==
  ASSUME NEW S, NEW s \in Seq(S), NEW t \in Seq(S)
  PROVE  /\ s \o t \in Seq(S)
         /\ Len(s \o t) = Len(s) + Len(t) /\ Len(s) \in Nat /\ Len(t) \in Nat
         /\ \A i \in 1 .. Len(s) : (s \o t)[i] = s[i]
         /\ \A i \in 1 .. Len(t) : (s \o t)[Len(s) + i] = t[i]
  BY ConcatProperties, LenProperties

LEMMA ConcatThree ==
  ASSUME NEW S, NEW s \in Seq(S), NEW t \in Seq(S), NEW u \in Seq(S),
         NEW w, w = s \o t \o u
  PROVE  /\ w \in Seq(S) /\ Len(w) = Len(s) + Len(t) + Len(u)
         /\ \A i \in 1 .. Len(s) : w[i] = s[i]
         /\ \A i \in 1 .. Len(t) : w[Len(s) + i] = t[i]
         /\ \A i \in 1 .. Len(u) : w[Len(s) + Len(t) + i] = u[i]
  <1>1. PICK front \in Seq(S) : front = s \o t
    BY ConcatProperties
  <1>2. /\ Len(front) = Len(s) + Len(t) /\ Len(s) \in Nat /\ Len(t) \in Nat
        /\ \A i \in 1 .. Len(s) : front[i] = s[i]
        /\ \A i \in 1 .. Len(t) : front[Len(s) + i] = t[i]
    BY <1>1, ConcatAt
  <1>3. PICK stu \in Seq(S) : stu = front \o u
    BY ConcatProperties
  <1>4. /\ Len(stu) = Len(front) + Len(u) /\ Len(u) \in Nat
        /\ \A i \in 1 .. Len(front) : stu[i] = front[i]
        /\ \A i \in 1 .. Len(u) : stu[Len(front) + i] = u[i]
    BY <1>3, ConcatAt
  <1>5. \A i \in 1 .. Len(s) : stu[i] = s[i]
    BY <1>2, <1>4
  <1>6. \A i \in 1 .. Len(t) : stu[Len(s) + i] = t[i]
    BY <1>2, <1>4
  <1>7. stu = w
    BY <1>1, <1>3
  <1>8. QED
    BY <1>2, <1>4, <1>5, <1>6, <1>7

\* The commands and the header of a mail.
LEMMA CommandsAre ==
  ASSUME NEW m \in Mails
  PROVE  /\ Commands(m) \in Seq(ScriptLines) /\ Len(Commands(m)) = m.to + 3
         /\ \A j \in 1 .. m.to + 3 :
              /\ Commands(m)[j].line =
                   Command(CASE j = 1 -> "HELO" [] j = 2 -> "MAIL"
                             [] j = m.to + 3 -> "DATA" [] OTHER -> "RCPT")
              /\ Commands(m)[j].hears # "nothing"
  <1>1. m.to \in Nat
    BY DEF Mails
  <1>2. PICK n \in Nat : n = m.to + 3
    BY <1>1
  <1>3. PICK f : f = [i \in 1 .. n |->
                        [line |-> Command(CASE i = 1 -> "HELO" [] i = 2 -> "MAIL"
                                            [] i = n -> "DATA" [] OTHER -> "RCPT"),
                         hears |-> IF i = 1 THEN "needed" ELSE "reply"]]
    OBVIOUS
  <1>4. f = Commands(m)
    BY <1>2, <1>3 DEF Commands
  <1>5. ASSUME NEW i \in 1 .. n
        PROVE  /\ f[i].line = Command(CASE i = 1 -> "HELO" [] i = 2 -> "MAIL"
                                        [] i = n -> "DATA" [] OTHER -> "RCPT")
               /\ f[i].hears # "nothing" /\ f[i] \in ScriptLines
    <2>1. PICK verb \in Verbs : verb = CASE i = 1 -> "HELO" [] i = 2 -> "MAIL"
                                         [] i = n -> "DATA" [] OTHER -> "RCPT"
      BY DEF Verbs
    <2>2. Command(verb) \in WireLines
      BY DEF Command, WireLines
    <2>3. f[i] = [line |-> Command(verb), hears |-> IF i = 1 THEN "needed" ELSE "reply"]
      BY <1>3, <2>1
    <2>4. QED
      BY <2>1, <2>2, <2>3 DEF ScriptLines, Replies
  <1>6. f \in Seq(ScriptLines) /\ Len(f) = n
    <2>1. f \in [1 .. n -> ScriptLines]
      BY <1>3, <1>5
    <2>2. QED
      BY <2>1
  <1>7. QED
    BY <1>2, <1>4, <1>5, <1>6

LEMMA HeadersAre ==
  ASSUME NEW m \in Mails
  PROVE  /\ Headers(m) \in Seq(ScriptLines) /\ Len(Headers(m)) = m.to + m.cc + 3
         /\ \A j \in 1 .. m.to + m.cc + 3 :
              Headers(m)[j].line.kind = "header" /\ Headers(m)[j].hears = "nothing"
  <1>1. m.to \in Nat /\ m.cc \in Nat
    BY DEF Mails
  <1>2. PICK n \in Nat : n = m.to + m.cc + 3
    BY <1>1
  <1>3. PICK f : f = Headers(m)
    OBVIOUS
  <1>4. ASSUME NEW i \in 1 .. n
        PROVE f[i].line.kind = "header" /\ f[i].hears = "nothing" /\ f[i] \in ScriptLines
    <2>1. PICK name \in HeaderNames :
             name = CASE i = 1 -> "From" [] i \in 2 .. m.to + 1 -> "To"
                      [] i = m.to + m.cc + 2 -> "Subject"
                      [] i = m.to + m.cc + 3 -> "" [] OTHER -> "Cc"
      BY DEF HeaderNames
    <2>2. Header(name) \in WireLines /\ Header(name).kind = "header"
      BY DEF Header, WireLines
    <2>3. f[i] = [line |-> Header(name), hears |-> "nothing"]
      BY <1>2, <1>3, <2>1 DEF Headers
    <2>4. f[i] \in ScriptLines
      BY <2>2, <2>3 DEF ScriptLines, Replies
    <2>5. f[i].line = Header(name) /\ f[i].hears = "nothing"
      BY <2>3
    <2>6. QED
      BY <2>2, <2>4, <2>5
  <1>5. f \in Seq(ScriptLines) /\ Len(f) = n
    <2>1. f = [i \in 1 .. n |-> f[i]]
      BY <1>2, <1>3 DEF Headers
    <2>2. f \in [1 .. n -> ScriptLines]
      BY <1>4, <2>1
    <2>3. QED
      BY <2>2
  <1>6. QED
    BY <1>2, <1>3, <1>4, <1>5

LEMMA ContentIs ==
  ASSUME SmtpAssumption, NEW m \in Mails
  PROVE  /\ Tokens(m.body) \in Seq(Lines \ {<<>>}) /\ Len(Tokens(m.body)) \in Nat
         /\ Content(m) \in Seq(ScriptLines) /\ Len(Content(m)) = Len(Tokens(m.body))
         /\ \A j \in 1 .. Len(Tokens(m.body)) :
              /\ Content(m)[j].line = Data(SentLine(Tokens(m.body)[j]))
              /\ Content(m)[j].line # LastLine.line
              /\ Content(m)[j].hears = "nothing"
  <1>1. Tokens(m.body) \in Seq(Lines \ {<<>>})
    BY TokensTyped DEF Mails
  <1>2. PICK n \in Nat : n = Len(Tokens(m.body)) /\ DOMAIN Tokens(m.body) = 1 .. n
    BY <1>1, LenProperties
  <1>3. PICK f : f = Content(m)
    OBVIOUS
  <1>4. ASSUME NEW i \in 1 .. n
        PROVE  /\ f[i].line = Data(SentLine(Tokens(m.body)[i]))
               /\ f[i].line # LastLine.line /\ f[i].hears = "nothing" /\ f[i] \in ScriptLines
    <2>1. PICK line \in Lines \ {<<>>} : line = Tokens(m.body)[i]
      BY <1>1, <1>2, ElementOfSeq
    <2>2. SentLine(line) \in Lines /\ SentLine(line) # <<".">>
      BY <2>1, LineArrives
    <2>3. Data(SentLine(line)) \in WireLines /\ Data(SentLine(line)) # Data(<<".">>)
      BY <2>2 DEF Data, WireLines
    <2>4. f[i] = [line |-> Data(SentLine(line)), hears |-> "nothing"]
      BY <1>2, <1>3, <2>1 DEF Content
    <2>5. QED
      BY <2>1, <2>3, <2>4 DEF ScriptLines, Replies, LastLine
  <1>5. f \in Seq(ScriptLines) /\ Len(f) = n
    <2>1. f = [i \in 1 .. n |-> f[i]]
      BY <1>2, <1>3 DEF Content
    <2>2. f \in [1 .. n -> ScriptLines]
      BY <1>4, <2>1
    <2>3. QED
      BY <2>2
  <1>6. QED
    BY <1>1, <1>2, <1>3, <1>4, <1>5

(* Where the parts of a script begin. *)
TextFrom(m) == m.to + 3
ContentFrom(m) == m.to + 3 + Len(Headers(m))

LEMMA ScriptIs ==
  ASSUME SmtpAssumption, NEW m \in Mails
  PROVE  /\ TextFrom(m) \in Nat /\ ContentFrom(m) \in Nat /\ TextFrom(m) >= 3
         /\ TextFrom(m) < ContentFrom(m)
         /\ Tokens(m.body) \in Seq(Lines \ {<<>>}) /\ Len(Tokens(m.body)) \in Nat
         /\ Script(m) \in Seq(ScriptLines)
         /\ Len(Script(m)) = ContentFrom(m) + Len(Tokens(m.body)) + 1
         /\ \A j \in 1 .. TextFrom(m) : Script(m)[j] = Commands(m)[j]
         /\ \A j \in 1 .. Len(Headers(m)) : Script(m)[TextFrom(m) + j] = Headers(m)[j]
         /\ \A j \in 1 .. Len(Tokens(m.body)) :
              Script(m)[ContentFrom(m) + j] = Content(m)[j]
         /\ Script(m)[Len(Script(m))] = LastLine
  <1>1. PICK c \in Nat : c = TextFrom(m) /\ c >= 3
    BY DEF TextFrom, Mails
  <1>2. PICK h \in Nat : h = Len(Headers(m)) /\ h > 0
    BY HeadersAre DEF Mails
  <1>3. PICK n \in Nat : n = Len(Tokens(m.body))
    BY ContentIs
  <1>4. PICK commands \in Seq(ScriptLines) : commands = Commands(m) /\ Len(commands) = c
    BY <1>1, CommandsAre DEF TextFrom
  <1>5. PICK headers \in Seq(ScriptLines) : headers = Headers(m) /\ Len(headers) = h
    BY <1>2, HeadersAre
  <1>6. PICK content \in Seq(ScriptLines) : content = Content(m) /\ Len(content) = n
    BY <1>3, ContentIs
  <1>7. PICK three : three = commands \o headers \o content
    OBVIOUS
  <1>8. /\ three \in Seq(ScriptLines) /\ Len(three) = c + h + n
        /\ \A j \in 1 .. c : three[j] = commands[j]
        /\ \A j \in 1 .. h : three[c + j] = headers[j]
        /\ \A j \in 1 .. n : three[c + h + j] = content[j]
    <2>1. three \in Seq(ScriptLines) /\ Len(three) = Len(commands) + Len(headers) + Len(content)
          /\ (\A j \in 1 .. Len(commands) : three[j] = commands[j])
          /\ (\A j \in 1 .. Len(headers) : three[Len(commands) + j] = headers[j])
          /\ \A j \in 1 .. Len(content) : three[Len(commands) + Len(headers) + j] = content[j]
      BY <1>7, ConcatThree
    <2>2. Len(commands) = c /\ Len(headers) = h /\ Len(content) = n
      BY <1>4, <1>5, <1>6
    <2>3. QED
      BY <2>1, <2>2
  <1>11. LastLine \in ScriptLines
    <2>1. <<".">> \in Lines
      BY DEF SmtpAssumption, Lines
    <2>2. QED
      BY <2>1 DEF LastLine, Data, ScriptLines, WireLines, Replies
  <1>12. PICK all \in Seq(ScriptLines) : all = Append(three, LastLine)
    BY <1>8, <1>11, AppendProperties
  <1>13. /\ Len(all) = c + h + n + 1 /\ all[c + h + n + 1] = LastLine
         /\ \A j \in 1 .. c + h + n : all[j] = three[j]
    BY <1>8, <1>11, <1>12, AppendProperties
  <1>14. all = Script(m)
    BY <1>4, <1>5, <1>6, <1>7, <1>12 DEF Script
  <1>15. ContentFrom(m) = c + h
    BY <1>1, <1>2 DEF TextFrom, ContentFrom
  <1>16. \A j \in 1 .. TextFrom(m) : Script(m)[j] = Commands(m)[j]
    BY <1>1, <1>4, <1>8, <1>13, <1>14
  <1>17. \A j \in 1 .. Len(Headers(m)) : Script(m)[TextFrom(m) + j] = Headers(m)[j]
    <2>1. ASSUME NEW j \in 1 .. h PROVE all[c + j] = headers[j]
      <3>1. c + j \in 1 .. c + h + n
        OBVIOUS
      <3>2. QED
        BY <1>8, <1>13, <3>1
    <2>2. QED
      BY <1>1, <1>2, <1>5, <1>14, <2>1
  <1>18. \A j \in 1 .. Len(Tokens(m.body)) : Script(m)[ContentFrom(m) + j] = Content(m)[j]
    BY <1>3, <1>6, <1>8, <1>13, <1>14, <1>15
  <1>19. Tokens(m.body) \in Seq(Lines \ {<<>>})
    BY ContentIs
  <1>20. Len(Script(m)) = ContentFrom(m) + Len(Tokens(m.body)) + 1
         /\ Script(m)[Len(Script(m))] = LastLine /\ Script(m) \in Seq(ScriptLines)
    BY <1>3, <1>12, <1>13, <1>14, <1>15
  <1>21. TextFrom(m) \in Nat /\ ContentFrom(m) \in Nat /\ TextFrom(m) >= 3
         /\ TextFrom(m) < ContentFrom(m) /\ Len(Tokens(m.body)) \in Nat
    BY <1>1, <1>2, <1>3, <1>15
  <1>22. QED
    BY <1>16, <1>17, <1>18, <1>19, <1>20, <1>21

\* The lines of a mail, one by one.
LEMMA ScriptLine ==
  ASSUME SmtpAssumption, NEW m \in Mails, NEW j \in Nat, 1 <= j, j <= Len(Script(m))
  PROVE  /\ Script(m)[j] \in ScriptLines /\ Len(Script(m)) \in Nat
         /\ j <= TextFrom(m) =>
              Script(m)[j].line = Command(CASE j = 1 -> "HELO" [] j = 2 -> "MAIL"
                                            [] j = m.to + 3 -> "DATA" [] OTHER -> "RCPT")
         /\ TextFrom(m) < j /\ j <= ContentFrom(m) => Script(m)[j].line.kind = "header"
         /\ ContentFrom(m) < j /\ j < Len(Script(m)) =>
              /\ j - ContentFrom(m) \in 1 .. Len(Tokens(m.body))
              /\ Script(m)[j].line = Data(SentLine(Tokens(m.body)[j - ContentFrom(m)]))
              /\ Script(m)[j].line # LastLine.line
         /\ j = Len(Script(m)) => Script(m)[j] = LastLine
         /\ Script(m)[j].hears = "nothing" => ~Asks(Script(m)[j].line)
  <1>1. PICK n \in Nat : n = Len(Tokens(m.body))
    BY ContentIs
  <1>2. PICK c \in Nat : c = TextFrom(m) /\ c = m.to + 3
    BY DEF TextFrom, Mails
  <1>3. PICK h \in Nat : ContentFrom(m) = c + h /\ h = m.to + m.cc + 3
    BY <1>2, HeadersAre DEF ContentFrom, Mails
  <1>4. Len(Script(m)) = c + h + n + 1 /\ Script(m) \in Seq(ScriptLines)
    BY <1>1, <1>2, <1>3, ScriptIs
  <1>5. Script(m)[j] \in ScriptLines
    BY <1>4, ElementOfSeq
  <1>6. CASE j <= c
    <2>1. Script(m)[j] = Commands(m)[j]
      <3>1. \A i \in 1 .. TextFrom(m) : Script(m)[i] = Commands(m)[i]
        BY ScriptIs
      <3>2. QED
        BY <1>2, <1>6, <3>1
    <2>2. Script(m)[j].line = Command(CASE j = 1 -> "HELO" [] j = 2 -> "MAIL"
                                        [] j = m.to + 3 -> "DATA" [] OTHER -> "RCPT")
          /\ Script(m)[j].hears # "nothing"
      BY <1>2, <1>6, <2>1, CommandsAre
    <2>3. QED
      BY <1>2, <1>3, <1>4, <1>5, <1>6, <2>2
  <1>7. CASE c < j /\ j <= c + h
    <2>1. PICK i \in 1 .. h : j = c + i
      <3>1. j - c \in 1 .. h /\ j = c + (j - c)
        BY <1>2, <1>3, <1>7
      <3>2. QED
        BY <3>1
    <2>2. Script(m)[j].line.kind = "header"
      <3>1. Script(m)[j] = Headers(m)[i]
        <4>1. \A count \in 1 .. Len(Headers(m)) : Script(m)[TextFrom(m) + count] = Headers(m)[count]
          BY ScriptIs
        <4>2. Len(Headers(m)) = h
          BY <1>3, HeadersAre
        <4>3. QED
          BY <1>2, <2>1, <4>1, <4>2
      <3>2. QED
        BY <1>3, <2>1, <3>1, HeadersAre
    <2>3. ~Asks(Script(m)[j].line)
      BY <2>2 DEF Asks, LastLine, Data
    <2>4. QED
      BY <1>2, <1>3, <1>4, <1>5, <1>7, <2>2, <2>3
  <1>8. CASE c + h < j /\ j <= c + h + n
    <2>1. PICK i \in 1 .. n : j = c + h + i /\ j - ContentFrom(m) = i
      <3>1. j - (c + h) \in 1 .. n /\ j = c + h + (j - (c + h))
        BY <1>8
      <3>2. QED
        BY <1>3, <3>1
    <2>2. Script(m)[j].line = Data(SentLine(Tokens(m.body)[j - ContentFrom(m)]))
          /\ Script(m)[j].line # LastLine.line
      <3>1. Script(m)[j] = Content(m)[i]
        BY <1>1, <1>3, <2>1, ScriptIs
      <3>2. QED
        BY <1>1, <2>1, <3>1, ContentIs
    <2>3. ~Asks(Script(m)[j].line)
      BY <2>2 DEF Asks, Data
    <2>4. QED
      BY <1>1, <1>2, <1>3, <1>4, <1>5, <1>8, <2>1, <2>2, <2>3
  <1>9. CASE j = c + h + n + 1
    <2>1. Script(m)[j] = LastLine
      BY <1>4, <1>9, ScriptIs
    <2>2. LastLine.hears # "nothing"
      BY DEF LastLine
    <2>3. QED
      BY <1>2, <1>3, <1>4, <1>5, <1>9, <2>1, <2>2
  <1>10. QED
    BY <1>4, <1>6, <1>7, <1>8, <1>9

-----------------------------------------------------------------------------
LEMMA SmtpInitHolds ==
  ASSUME SmtpAssumption, SmtpInit
  PROVE  SmtpInv
  <1>1. SmtpType
    BY DEF SmtpInit, SmtpType, ClientType, ServerType, Replies
  <1>2. Lockstep /\ MailsReturned /\ MailArrives
    BY DEF SmtpInit, Lockstep, MailsReturned, MailArrives, Awaiting, BetweenMails
  <1>3. PICK p : p = At(1, 1)
    OBVIOUS
  <1>4. p.mail = 1 /\ p.line = 1 /\ p \in Positions
    BY <1>3 DEF At, Positions
  <1>5. PICK P : P = <<p>>
    OBVIOUS
  <1>6. P \in Seq(Positions) /\ Len(P) = 1 /\ P[1] = p
    BY <1>4, <1>5
  <1>7. ServerAt(p)
    BY <1>4 DEF SmtpInit, ServerAt
  <1>8. ClientAt(p)
    BY <1>3 DEF SmtpInit, ClientAt
  <1>9. OnTheWay(P)
    BY <1>6, <1>7, <1>8 DEF SmtpInit, OnTheWay
  <1>10. QED
    BY <1>1, <1>2, <1>6, <1>9 DEF SmtpInv, InStep

LEMMA StepTyped ==
  ASSUME NEW s \in Seq(ScriptLines), s # <<>>
  PROVE  /\ Head(s).line \in WireLines /\ Head(s).hears \in Replies
         /\ Head(s) = s[1] /\ Tail(s) \in Seq(ScriptLines) /\ Len(Tail(s)) = Len(s) - 1
         /\ \A i \in 1 .. Len(s) - 1 : Tail(s)[i] = s[i + 1]
  <1>1. Head(s) \in ScriptLines
    BY HeadTailProperties
  <1>2. QED
    BY <1>1, HeadTailProperties DEF ScriptLines

\* An answer is one line of reply or, what is remembered, two.
LEMMA AnswerTyped ==
  ASSUME SmtpType, NEW next, next \in ServerType, Answer(next)
  PROVE  /\ server' \in ServerType /\ replies' \in Seq({"reply"}) /\ replies' # <<>>
         /\ server' = [next EXCEPT !.long = server'.long]
         /\ next.long => server'.long
         /\ ~server'.long => Len(replies') = Len(replies) + 1
  <1>1. PICK n \in 1 .. 2 : /\ replies' = replies \o [i \in 1 .. n |-> "reply"]
                            /\ server' = [next EXCEPT !.long = @ \/ n = 2]
    BY DEF Answer
  <1>2. PICK more : more = [i \in 1 .. n |-> "reply"]
    OBVIOUS
  <1>3. more \in Seq({"reply"}) /\ Len(more) = n
    BY <1>2
  <1>4. /\ replies' \in Seq({"reply"}) /\ Len(replies') = Len(replies) + n
        /\ Len(replies) \in Nat
    BY <1>1, <1>2, <1>3, ConcatProperties, LenProperties DEF SmtpType
  <1>5. server'.long = (next.long \/ n = 2) /\ server' \in ServerType
        /\ server' = [next EXCEPT !.long = server'.long]
    BY <1>1 DEF ServerType
  <1>6. replies' # <<>>
    BY <1>4
  <1>7. next.long => server'.long
    BY <1>5
  <1>8. ~server'.long => Len(replies') = Len(replies) + 1
    <2>1. CASE n = 1
      BY <1>4, <2>1
    <2>2. CASE n = 2
      BY <1>5, <2>2
    <2>3. QED
      BY <2>1, <2>2
  <1>9. QED
    BY <1>4, <1>5, <1>6, <1>7, <1>8

\* A refusal is counted.
LEMMA RefuseTyped ==
  ASSUME SmtpType, Refuse
  PROVE  /\ server' \in ServerType /\ replies' \in Seq({"reply"}) /\ server'.refused # 0
         /\ server.long => server'.long
  <1>1. PICK next : next = [server EXCEPT !.refused = @ + 1]
    OBVIOUS
  <1>2. next \in ServerType /\ next.refused > 0 /\ next.long = server.long
    <2>1. server \in ServerType /\ server.refused \in Nat
      BY DEF SmtpType, ServerType
    <2>2. next.refused = server.refused + 1 /\ next.long = server.long
      BY <1>1, <2>1 DEF ServerType
    <2>3. next \in ServerType
      <3>1. PICK n \in Nat : n = server.refused + 1
        BY <2>1
      <3>2. next = [server EXCEPT !.refused = n]
        BY <1>1, <3>1
      <3>3. QED
        BY <2>1, <3>2 DEF ServerType
    <2>4. QED
      BY <2>1, <2>2, <2>3
  <1>3. Answer(next)
    BY <1>1 DEF Refuse
  <1>4. server' = [next EXCEPT !.long = server'.long] /\ server' \in ServerType
        /\ replies' \in Seq({"reply"}) /\ (next.long => server'.long)
    BY <1>2, <1>3, AnswerTyped
  <1>5. server'.refused = next.refused
    BY <1>2, <1>4 DEF ServerType
  <1>6. QED
    BY <1>2, <1>4, <1>5

\* What the server makes of a command.
LEMMA ObeyTyped ==
  ASSUME SmtpType, NEW verb, Obey(verb)
  PROVE  /\ server' \in ServerType /\ replies' \in Seq({"reply"})
         /\ server.refused <= server'.refused /\ (server.long => server'.long)
         /\ \/ server'.refused # 0
            \/ \E next \in ServerType :
                 /\ Answer(next) /\ next.long = server.long
                 /\ next.taken = server.taken /\ next.data = server.data
                 /\ \/ verb = "HELO" /\ next.at = "ready"
                    \/ verb = "MAIL" /\ server.at = "ready" /\ next.at = "mail" /\ next.to = 0
                    \/ verb = "RCPT" /\ server.at = "mail" /\ next.at = "mail"
                         /\ next.to = server.to + 1
                    \/ verb = "DATA" /\ server.at = "mail" /\ next.at = "data"
                         /\ next.to = server.to /\ next.lines = <<>>
                    \/ verb = "QUIT" /\ next.at = "gone"
  <1> DEFINE Follows(next) ==
        /\ next \in ServerType /\ Answer(next) /\ next.long = server.long
        /\ next.taken = server.taken /\ next.data = server.data
        /\ next.refused = server.refused
        /\ \/ verb = "HELO" /\ next.at = "ready"
           \/ verb = "MAIL" /\ server.at = "ready" /\ next.at = "mail" /\ next.to = 0
           \/ verb = "RCPT" /\ server.at = "mail" /\ next.at = "mail"
                /\ next.to = server.to + 1
           \/ verb = "DATA" /\ server.at = "mail" /\ next.at = "data"
                /\ next.to = server.to /\ next.lines = <<>>
           \/ verb = "QUIT" /\ next.at = "gone"
  <1>1. ASSUME NEW next, Follows(next)
        PROVE  /\ server' \in ServerType /\ replies' \in Seq({"reply"})
               /\ server'.refused = server.refused /\ (server.long => server'.long)
    <2>1. server' = [next EXCEPT !.long = server'.long] /\ server' \in ServerType
          /\ replies' \in Seq({"reply"}) /\ (next.long => server'.long)
      BY <1>1, AnswerTyped
    <2>2. server'.refused = next.refused
      BY <1>1, <2>1 DEF ServerType
    <2>3. QED
      BY <1>1, <2>1, <2>2
  <1>2. CASE Refuse
    <2>1. /\ server' \in ServerType /\ replies' \in Seq({"reply"}) /\ server'.refused # 0
          /\ (server.long => server'.long)
      BY <1>2, RefuseTyped
    <2>2. server'.refused = server.refused + 1
      BY <1>2, AnswerTyped DEF Refuse, Answer, SmtpType, ServerType
    <2>3. QED
      BY <2>1, <2>2 DEF SmtpType, ServerType
  <1>3. CASE ~Refuse
    <2>1. \E next : Follows(next)
      <3>1. CASE verb = "HELO"
        <4>1. PICK next : next = [server EXCEPT !.at = "ready"]
          OBVIOUS
        <4>2. Follows(next)
          BY <3>1, <4>1 DEF Obey, SmtpType, ServerType
        <4>3. QED
          BY <4>2
      <3>2. CASE verb = "MAIL" /\ server.at = "ready"
        <4>1. PICK next : next = [server EXCEPT !.at = "mail", !.to = 0]
          OBVIOUS
        <4>2. Follows(next)
          BY <3>2, <4>1 DEF Obey, SmtpType, ServerType
        <4>3. QED
          BY <4>2
      <3>3. CASE verb = "RCPT" /\ server.at = "mail"
        <4>1. PICK next : next = [server EXCEPT !.to = @ + 1]
          OBVIOUS
        <4>2. Answer(next)
          BY <1>3, <3>3, <4>1 DEF Obey
        <4>3. next \in ServerType
          <5>1. PICK n \in Nat : n = server.to + 1
            BY DEF SmtpType, ServerType
          <5>2. next = [server EXCEPT !.to = n]
            BY <4>1, <5>1
          <5>3. QED
            BY <5>2 DEF SmtpType, ServerType
        <4>4. Follows(next)
          BY <3>3, <4>1, <4>2, <4>3 DEF SmtpType, ServerType
        <4>5. QED
          BY <4>4
      <3>4. CASE verb = "DATA" /\ server.at = "mail" /\ server.to > 0
        <4>1. PICK next : next = [server EXCEPT !.at = "data", !.lines = <<>>]
          OBVIOUS
        <4>2. Answer(next)
          BY <1>3, <3>4, <4>1 DEF Obey
        <4>3. next \in ServerType
          <5>1. <<>> \in Seq(Lines)
            OBVIOUS
          <5>2. PICK none : none = <<>>
            OBVIOUS
          <5>3. none \in Seq(Lines)
            BY <5>1, <5>2
          <5>4. next = [server EXCEPT !.at = "data", !.lines = none]
            BY <4>1, <5>2
          <5>5. QED
            BY <5>3, <5>4 DEF SmtpType, ServerType
        <4>4. Follows(next)
          BY <3>4, <4>1, <4>2, <4>3 DEF SmtpType, ServerType
        <4>5. QED
          BY <4>4
      <3>5. CASE verb = "QUIT"
        <4>1. PICK next : next = [server EXCEPT !.at = "gone"]
          OBVIOUS
        <4>2. Follows(next)
          BY <3>5, <4>1 DEF Obey, SmtpType, ServerType
        <4>3. QED
          BY <4>2
      <3>6. QED
        BY <1>3, <3>1, <3>2, <3>3, <3>4, <3>5 DEF Obey
    <2>2. PICK next : Follows(next)
      BY <2>1
    <2>3. /\ server' \in ServerType /\ replies' \in Seq({"reply"})
          /\ server'.refused = server.refused /\ (server.long => server'.long)
      BY <1>1, <2>2
    <2>4. server.refused \in Nat
      BY DEF SmtpType, ServerType
    <2>5. server.refused <= server'.refused
      BY <2>3, <2>4
    <2>6. QED
      BY <2>2, <2>3, <2>5
  <1>4. QED
    BY <1>2, <1>3

\* A mail as it is meant has a line for each token.
LEMMA MeantIs ==
  ASSUME SmtpAssumption, NEW m \in Mails
  PROVE  /\ Meant(m).to = m.to /\ Meant(m) \in [to : Nat, body : Seq(Lines)]
         /\ Meant(m).body \in Seq(Lines) /\ Len(Meant(m).body) = Len(Tokens(m.body))
         /\ \A j \in 1 .. Len(Tokens(m.body)) :
              Meant(m).body[j] = IF SentLine(Tokens(m.body)[j]) = <<>> THEN <<>>
                                 ELSE Unstuffed(SentLine(Tokens(m.body)[j]))
  <1>1. PICK tokens : tokens = Tokens(m.body)
    OBVIOUS
  <1>2. tokens \in Seq(Lines \ {<<>>})
    BY <1>1, ContentIs
  <1>3. PICK n \in Nat : n = Len(tokens) /\ DOMAIN tokens = 1 .. n
    BY <1>2, LenProperties
  <1>4. PICK body : body = Meant(m).body
    OBVIOUS
  <1>5. body = [i \in 1 .. n |->
                  IF Last(tokens[i]) = "\r" THEN Front(tokens[i]) ELSE tokens[i]]
    BY <1>1, <1>3, <1>4 DEF Meant
  <1>6. ASSUME NEW i \in 1 .. n
        PROVE  /\ body[i] = IF SentLine(tokens[i]) = <<>> THEN <<>>
                            ELSE Unstuffed(SentLine(tokens[i]))
               /\ body[i] \in Lines
    <2>1. PICK line : line = tokens[i]
      OBVIOUS
    <2>2. line \in Lines \ {<<>>}
      BY <1>2, <1>3, <2>1, ElementOfSeq
    <2>3. body[i] = IF Last(line) = "\r" THEN Front(line) ELSE line
      BY <1>5, <2>1
    <2>4. (IF SentLine(line) = <<>> THEN <<>> ELSE Unstuffed(SentLine(line)))
            = (IF Last(line) = "\r" THEN Front(line) ELSE line)
      BY <2>2, LineArrives
    <2>5. Front(line) \in Lines
      <3>1. line \in Seq(Letters) /\ Len(line) \in Nat
        BY <2>2, LenProperties DEF Lines
      <3>2. \A j \in 1 .. Len(line) - 1 : line[j] \in Letters
        BY <3>1, ElementOfSeq
      <3>3. QED
        BY <3>1, <3>2, SubSeqProperties DEF Front, Lines
    <2>6. QED
      BY <2>1, <2>2, <2>3, <2>4, <2>5
  <1>7. body \in Seq(Lines) /\ Len(body) = n
    <2>1. body \in [1 .. n -> Lines]
      BY <1>5, <1>6
    <2>2. QED
      BY <2>1
  <1>8. Meant(m).to = m.to /\ Meant(m) = [to |-> m.to, body |-> body] /\ m.to \in Nat
    BY <1>4 DEF Meant, Mails
  <1>9. QED
    BY <1>1, <1>3, <1>4, <1>6, <1>7, <1>8

LEMMA AtTyped ==
  ASSUME NEW count \in Nat \ {0}, NEW j \in Nat \ {0}
  PROVE  At(count, j) \in Positions /\ At(count, j).mail = count /\ At(count, j).line = j
  BY DEF At, Positions

LEMMA FollowingTyped ==
  ASSUME NEW p \in Positions, NEW mails
  PROVE  Following(p, mails) \in Positions
  <1>1. p.mail \in Nat \ {0} /\ p.line \in Nat \ {0}
    BY DEF Positions
  <1>2. p.mail + 1 \in Nat \ {0} /\ p.line + 1 \in Nat \ {0}
    BY <1>1
  <1>3. QED
    BY <1>1, <1>2, AtTyped DEF Following

\* What ServerReads does with a line: a refusal, a command, or a line of a text.
LEMMA ReadsOne ==
  ASSUME SmtpType, ServerReads
  PROVE  /\ client' = client /\ toserver # <<>> /\ toserver' = Tail(toserver)
         /\ server.at # "greeting" /\ server.at # "gone"
         /\ \/ Refuse
            \/ server.at # "data" /\ Head(toserver).kind = "command"
                 /\ Obey(Head(toserver).verb)
            \/ server.at # "data" /\ Head(toserver).kind # "command"
                 /\ Answer([server EXCEPT !.data = @ + 1])
            \/ server.at = "data" /\ Head(toserver).kind = "data"
                 /\ Head(toserver).chars = <<".">>
                 /\ Answer([server EXCEPT !.at = "ready",
                              !.taken = Append(@, [to |-> server.to, body |-> server.lines])])
            \/ server.at = "data" /\ Head(toserver).kind = "data"
                 /\ Head(toserver).chars # <<".">> /\ replies' = replies
                 /\ server' = [server EXCEPT
                      !.lines = Append(@, IF Head(toserver).chars = <<>> THEN <<>>
                                          ELSE Unstuffed(Head(toserver).chars))]
            \/ server.at = "data" /\ Head(toserver).kind # "data"
                 /\ replies' = replies /\ server' = server
  BY DEF ServerReads

\* Whatever it reads, it stays a server.
LEMMA ReadsTyped ==
  ASSUME SmtpAssumption, SmtpType, ServerReads
  PROVE  /\ SmtpType' /\ server.refused <= server'.refused /\ (server.long => server'.long)
  <1>1. PICK line : line = Head(toserver)
    OBVIOUS
  <1>2. line \in WireLines /\ toserver' \in Seq(WireLines)
    <2>1. toserver \in Seq(WireLines) /\ toserver # <<>> /\ toserver' = Tail(toserver)
      BY ReadsOne DEF SmtpType
    <2>2. QED
      BY <1>1, <2>1, HeadTailProperties
  <1>3. /\ server \in ServerType /\ server.refused \in Nat /\ server.data \in Nat
        /\ server.to \in Nat /\ server.lines \in Seq(Lines)
        /\ server.taken \in Seq([to : Nat, body : Seq(Lines)])
    BY DEF SmtpType, ServerType
  <1>4. ASSUME NEW next, next \in ServerType, Answer(next), next.refused = server.refused,
               next.long = server.long
        PROVE  /\ server' \in ServerType /\ replies' \in Seq({"reply"})
               /\ server.refused <= server'.refused /\ (server.long => server'.long)
    <2>1. /\ server' \in ServerType /\ replies' \in Seq({"reply"})
          /\ server' = [next EXCEPT !.long = server'.long] /\ (next.long => server'.long)
      BY <1>4, AnswerTyped
    <2>2. server'.refused = next.refused
      BY <1>4, <2>1 DEF ServerType
    <2>3. QED
      BY <1>3, <1>4, <2>1, <2>2
  <1>5. /\ server' \in ServerType /\ replies' \in Seq({"reply"})
        /\ server.refused <= server'.refused /\ (server.long => server'.long)
    <2>1. CASE Refuse
      <3>1. PICK n \in Nat : n = server.refused + 1
        BY <1>3
      <3>2. PICK next : next = [server EXCEPT !.refused = n]
        OBVIOUS
      <3>3. next \in ServerType /\ Answer(next) /\ next.refused = n
        BY <1>3, <2>1, <3>1, <3>2 DEF ServerType, Refuse
      <3>4. /\ server' \in ServerType /\ server' = [next EXCEPT !.long = server'.long]
        BY <3>3, AnswerTyped
      <3>5. server'.refused = n
        BY <3>3, <3>4 DEF ServerType
      <3>6. server.refused <= server'.refused
        BY <1>3, <3>1, <3>5
      <3>7. QED
        BY <2>1, <3>6, RefuseTyped
    <2>2. CASE Obey(line.verb)
      BY <2>2, ObeyTyped
    <2>3. CASE Answer([server EXCEPT !.data = @ + 1])
      <3>1. PICK n \in Nat : n = server.data + 1
        BY <1>3
      <3>2. PICK next : next = [server EXCEPT !.data = n]
        OBVIOUS
      <3>3. next \in ServerType /\ Answer(next) /\ next.refused = server.refused
            /\ next.long = server.long
        BY <1>3, <2>3, <3>1, <3>2 DEF ServerType
      <3>4. QED
        BY <1>4, <3>3
    <2>4. CASE Answer([server EXCEPT !.at = "ready",
                         !.taken = Append(@, [to |-> server.to, body |-> server.lines])])
      <3>1. PICK more : more = Append(server.taken, [to |-> server.to, body |-> server.lines])
        OBVIOUS
      <3>2. more \in Seq([to : Nat, body : Seq(Lines)])
        <4>1. [to |-> server.to, body |-> server.lines] \in [to : Nat, body : Seq(Lines)]
          BY <1>3
        <4>2. QED
          BY <1>3, <3>1, <4>1, AppendProperties
      <3>3. PICK next : next = [server EXCEPT !.at = "ready", !.taken = more]
        OBVIOUS
      <3>4. next \in ServerType
        BY <1>3, <3>2, <3>3 DEF ServerType
      <3>5. Answer(next)
        BY <2>4, <3>1, <3>3
      <3>6. next.refused = server.refused /\ next.long = server.long
        BY <1>3, <3>3 DEF ServerType
      <3>7. QED
        BY <1>4, <3>4, <3>5, <3>6
    <2>5. ASSUME line.kind = "data", replies' = replies,
                 server' = [server EXCEPT !.lines = Append(@, IF line.chars = <<>> THEN <<>>
                                                              ELSE Unstuffed(line.chars))]
          PROVE  /\ server' \in ServerType /\ replies' \in Seq({"reply"})
                 /\ server.refused <= server'.refused /\ (server.long => server'.long)
      <3>1. PICK chars \in Lines : chars = line.chars
        BY <1>2, <2>5 DEF WireLines
      <3>2. PICK got : got = IF chars = <<>> THEN <<>> ELSE Unstuffed(chars)
        OBVIOUS
      <3>3. got \in Lines
        <4>1. CASE chars = <<>>
          BY <3>2, <4>1 DEF Lines
        <4>2. CASE chars # <<>>
          <5>1. Tail(chars) \in Lines
            BY <3>1, <4>2, HeadTailProperties DEF Lines
          <5>2. QED
            BY <3>1, <3>2, <4>2, <5>1 DEF Unstuffed
        <4>3. QED
          BY <4>1, <4>2
      <3>4. PICK more : more = Append(server.lines, got)
        OBVIOUS
      <3>5. more \in Seq(Lines)
        BY <1>3, <3>3, <3>4, AppendProperties
      <3>6. server' = [server EXCEPT !.lines = more]
        BY <2>5, <3>1, <3>2, <3>4
      <3>7. server' \in ServerType
        BY <1>3, <3>5, <3>6 DEF ServerType
      <3>8. server'.refused = server.refused /\ server'.long = server.long
        BY <1>3, <3>6 DEF ServerType
      <3>9. QED
        BY <1>3, <2>5, <3>7, <3>8 DEF SmtpType
    <2>6. CASE server' = server /\ replies' = replies
      BY <1>3, <2>6 DEF SmtpType
    <2>7. QED
      BY <1>1, <2>1, <2>2, <2>3, <2>4, <2>5, <2>6, ReadsOne
  <1>6. QED
    BY <1>2, <1>5, ReadsOne DEF SmtpType

(* What may come of a line that the server reads. *)
TakenRightly(p) ==
  /\ server'.data = server.data /\ server'.at # "greeting"
  /\ \/ server'.at = "gone" /\ p.mail > Len(client.mails)
     \/ \E q \in Positions : q = Following(p, client.mails) /\ ServerAt(q)'
  /\ \/ server'.taken = server.taken
     \/ /\ Len(server.taken) < Len(client.mails)
        /\ server'.taken = Append(server.taken, Meant(client.mails[Len(server.taken) + 1]))
  /\ \/ replies' = replies
     \/ Asks(Head(toserver)) /\ (~server'.long => Len(replies') = Len(replies) + 1)

\* A command is taken for one and obeyed.
LEMMA CommandIsTaken ==
  ASSUME SmtpAssumption, SmtpType, ServerReads, server'.refused = 0,
         NEW p \in Positions, ServerAt(p), server.at # "data",
         Head(toserver) = LineAt(p, client.mails)
  PROVE  TakenRightly(p)
  <1>1. PICK count \in Nat : count = Len(client.mails)
    BY LenProperties DEF SmtpType, ClientType
  <1>2. PICK m : m = client.mails[p.mail]
    OBVIOUS
  <1>3. p.mail \in Nat \ {0} /\ p.line \in Nat \ {0}
    BY DEF Positions
  <1>4. /\ client' = client /\ server.at # "greeting" /\ server.at # "gone"
    BY ReadsOne
  <1>5. ~Refuse
    BY RefuseTyped
  <1>6. CASE p.mail > count
    <2>1. Head(toserver) = Command("QUIT")
      BY <1>1, <1>3, <1>6 DEF LineAt
    <2>2. Head(toserver).kind = "command" /\ Head(toserver).verb = "QUIT"
      BY <2>1 DEF Command
    <2>3. Obey("QUIT")
      BY <1>5, <2>2, ReadsOne
    <2>4. PICK next \in ServerType :
            /\ Answer(next) /\ next.taken = server.taken /\ next.data = server.data
            /\ next.at = "gone" /\ next.long = server.long
      BY <2>3, ObeyTyped
    <2>5. server' = [next EXCEPT !.long = server'.long]
          /\ (~server'.long => Len(replies') = Len(replies) + 1)
      BY <2>4, AnswerTyped
    <2>6. server'.data = server.data /\ server'.at = "gone" /\ server'.taken = server.taken
      BY <2>4, <2>5 DEF ServerType
    <2>7. QED
      BY <1>1, <1>6, <2>1, <2>2, <2>5, <2>6 DEF TakenRightly, Asks
  <1>7. CASE p.mail <= count
    <2>1. m \in Mails
      BY <1>1, <1>2, <1>3, <1>7, ElementOfSeq DEF SmtpType, ClientType
    <2>2. p.line <= Len(Script(m)) /\ p.mail = Len(server.taken) + 1
      BY <1>1, <1>2, <1>7 DEF ServerAt
    <2>3. PICK c \in Nat : c = m.to /\ TextFrom(m) = c + 3
      BY <2>1 DEF Mails, TextFrom
    <2>4. p.line <= c + 3
          /\ \/ server.at \in {"greeting", "start"} /\ p.line = 1
             \/ server.at = "ready" /\ p.line \in {1, 2}
             \/ server.at = "mail" /\ p.line \in 3 .. c + 3 /\ server.to = p.line - 3
      <3>1. \/ server.at \in {"greeting", "start"} /\ p.line = 1
            \/ server.at = "ready" /\ p.line \in {1, 2}
            \/ server.at = "mail" /\ p.line \in 3 .. m.to + 3 /\ server.to = p.line - 3
        BY <1>2 DEF ServerAt
      <3>2. QED
        BY <1>3, <2>3, <3>1
    <2>5. PICK verb : verb = CASE p.line = 1 -> "HELO" [] p.line = 2 -> "MAIL"
                               [] p.line = c + 3 -> "DATA" [] OTHER -> "RCPT"
      OBVIOUS
    <2>6. Head(toserver) = Command(verb)
      <3>1. Head(toserver) = Script(m)[p.line].line
        BY <1>1, <1>2, <1>7 DEF LineAt
      <3>2. Script(m)[p.line].line =
              Command(CASE p.line = 1 -> "HELO" [] p.line = 2 -> "MAIL"
                        [] p.line = m.to + 3 -> "DATA" [] OTHER -> "RCPT")
        BY <1>3, <2>1, <2>2, <2>3, <2>4, ScriptLine
      <3>3. QED
        BY <2>3, <2>5, <3>1, <3>2
    <2>7. Head(toserver).kind = "command" /\ Head(toserver).verb = verb
      BY <2>6 DEF Command
    <2>8. Obey(verb)
      BY <1>5, <2>7, ReadsOne
    <2>9. PICK next \in ServerType :
            /\ Answer(next) /\ next.taken = server.taken /\ next.data = server.data
            /\ next.long = server.long
            /\ \/ verb = "HELO" /\ next.at = "ready"
               \/ verb = "MAIL" /\ server.at = "ready" /\ next.at = "mail" /\ next.to = 0
               \/ verb = "RCPT" /\ server.at = "mail" /\ next.at = "mail"
                    /\ next.to = server.to + 1
               \/ verb = "DATA" /\ server.at = "mail" /\ next.at = "data"
                    /\ next.to = server.to /\ next.lines = <<>>
               \/ verb = "QUIT" /\ next.at = "gone"
      BY <2>8, ObeyTyped
    <2>10. server' = [next EXCEPT !.long = server'.long]
           /\ (~server'.long => Len(replies') = Len(replies) + 1)
      BY <2>9, AnswerTyped
    <2>11. /\ server'.data = server.data /\ server'.taken = server.taken
           /\ server'.at = next.at /\ server'.to = next.to /\ server'.lines = next.lines
      BY <2>9, <2>10 DEF ServerType
    <2>12. PICK q : q = Following(p, client.mails)
      OBVIOUS
    <2>13. q.mail = p.mail /\ q.line = p.line + 1 /\ p.line + 1 <= Len(Script(m))
      <3>1. c + 3 < Len(Script(m)) /\ Len(Script(m)) \in Nat
        BY <2>1, <2>3, ScriptIs, ScriptLine
      <3>2. p.line < Len(Script(m)) /\ p.line + 1 <= Len(Script(m))
        BY <1>3, <2>4, <3>1
      <3>3. q = At(p.mail, p.line + 1)
        BY <1>1, <1>2, <1>7, <2>12, <3>2 DEF Following
      <3>4. QED
        BY <3>2, <3>3 DEF At
    <2>14. \/ next.at = "ready" /\ q.line = 2
           \/ next.at = "mail" /\ q.line \in 3 .. m.to + 3 /\ next.to = q.line - 3
           \/ next.at = "data" /\ q.line > m.to + 3 /\ next.to = m.to
              /\ next.lines = SubSeq(Meant(m).body, 1,
                                     q.line - (m.to + 3) - Len(Headers(m)) - 1)
      <3>1. CASE p.line = 1
        BY <2>4, <2>5, <2>9, <2>13, <3>1
      <3>2. CASE p.line = 2
        BY <2>3, <2>4, <2>5, <2>9, <2>13, <3>2
      <3>3. CASE p.line > 2 /\ p.line < c + 3
        <4>1. verb = "RCPT" /\ server.at = "mail" /\ server.to = p.line - 3
          BY <2>4, <2>5, <3>3
        <4>2. next.at = "mail" /\ next.to = server.to + 1
          BY <2>9, <4>1
        <4>3. QED
          BY <1>3, <2>3, <2>13, <3>3, <4>1, <4>2
      <3>4. CASE p.line > 2 /\ p.line = c + 3
        <4>1. verb = "DATA" /\ server.at = "mail" /\ server.to = c
          BY <2>4, <2>5, <3>4
        <4>2. next.at = "data" /\ next.to = c /\ next.lines = <<>>
          BY <2>9, <4>1
        <4>3. PICK n : n = q.line - (m.to + 3) - Len(Headers(m)) - 1
          OBVIOUS
        <4>4. n \in Int /\ n < 1
          <5>1. PICK h : h = Len(Headers(m))
            OBVIOUS
          <5>2. PICK d : d = m.cc
            OBVIOUS
          <5>3. c \in Nat /\ d \in Nat /\ h = c + d + 3
            BY <2>1, <2>3, <5>1, <5>2, HeadersAre DEF Mails
          <5>4. q.line = c + 4
            BY <2>13, <3>4
          <5>5. n = q.line - (c + 3) - h - 1
            BY <2>3, <4>3, <5>1
          <5>6. QED
            BY <5>3, <5>4, <5>5
        <4>5. SubSeq(Meant(m).body, 1, n) = <<>>
          BY <2>1, <4>4, MeantIs, SubSeqEmpty
        <4>6. QED
          BY <2>3, <2>13, <3>4, <4>2, <4>3, <4>5
      <3>5. QED
        BY <1>3, <2>4, <3>1, <3>2, <3>3, <3>4
    <2>15. ServerAt(q)'
      <3>1. client'.mails = client.mails /\ client'.mails[q.mail] = m
            /\ q.mail <= Len(client'.mails)
        BY <1>1, <1>2, <1>4, <1>7, <2>13
      <3>2. q.mail = Len(server'.taken) + 1 /\ q.line <= Len(Script(m))
        BY <2>2, <2>11, <2>13
      <3>3. \/ server'.at = "ready" /\ q.line \in {1, 2}
            \/ server'.at = "mail" /\ q.line \in 3 .. m.to + 3 /\ server'.to = q.line - 3
            \/ server'.at = "data" /\ q.line > m.to + 3 /\ server'.to = m.to
               /\ server'.lines = SubSeq(Meant(m).body, 1,
                                         q.line - (m.to + 3) - Len(Headers(m)) - 1)
        BY <2>11, <2>14
      <3>4. QED
        BY <3>1, <3>2, <3>3 DEF ServerAt
    <2>16. QED
      <3>1. q \in Positions
        BY <2>12, FollowingTyped
      <3>2. QED
        BY <2>7, <2>10, <2>11, <2>12, <2>14, <2>15, <3>1 DEF TakenRightly, Asks
  <1>8. QED
    BY <1>1, <1>3, <1>6, <1>7

LEMMA OneMore ==
  ASSUME NEW S, NEW s \in Seq(S), NEW j \in Nat \ {0}, j <= Len(s)
  PROVE  Append(SubSeq(s, 1, j - 1), s[j]) = SubSeq(s, 1, j)
  <1>1. PICK n \in Nat : n = j - 1
    OBVIOUS
  <1>2. PICK l \in Nat : l = Len(s)
    BY LenProperties
  <1>3. \A i \in 1 .. l : s[i] \in S
    BY <1>2, ElementOfSeq
  <1>4. PICK a : a = SubSeq(s, 1, n)
    OBVIOUS
  <1>5. a \in Seq(S) /\ Len(a) = n /\ \A i \in 1 .. n : a[i] = s[i]
    <2>1. \A i \in 1 .. n : s[i] \in S
      BY <1>1, <1>2, <1>3
    <2>2. QED
      BY <1>1, <1>4, <2>1, SubSeqProperties
  <1>6. PICK b : b = SubSeq(s, 1, j)
    OBVIOUS
  <1>7. b \in Seq(S) /\ Len(b) = j /\ \A i \in 1 .. j : b[i] = s[i]
    <2>1. \A i \in 1 .. j : s[i] \in S
      BY <1>2, <1>3
    <2>2. QED
      BY <1>6, <2>1, SubSeqProperties
  <1>8. s[j] \in S
    BY <1>2, <1>3
  <1>9. PICK c : c = Append(a, s[j])
    OBVIOUS
  <1>10. /\ c \in Seq(S) /\ Len(c) = n + 1 /\ c[n + 1] = s[j]
         /\ \A i \in 1 .. n : c[i] = a[i]
    BY <1>5, <1>8, <1>9, AppendProperties
  <1>11. \A i \in 1 .. j : c[i] = b[i]
    BY <1>1, <1>5, <1>7, <1>10
  <1>12. c = b
    BY <1>1, <1>7, <1>10, <1>11, SeqEqual
  <1>13. QED
    BY <1>1, <1>4, <1>6, <1>9, <1>12

\* A line of a text is taken for what it is, and the last one ends the mail.
LEMMA TextIsTaken ==
  ASSUME SmtpAssumption, SmtpType, ServerReads, server'.refused = 0,
         NEW p \in Positions, ServerAt(p), server.at = "data",
         Head(toserver) = LineAt(p, client.mails)
  PROVE  TakenRightly(p)
  <1>1. PICK count \in Nat : count = Len(client.mails)
    BY LenProperties DEF SmtpType, ClientType
  <1>2. PICK m : m = client.mails[p.mail]
    OBVIOUS
  <1>3. p.mail \in Nat \ {0} /\ p.line \in Nat \ {0}
    BY DEF Positions
  <1>4. /\ client' = client /\ ~Refuse
    BY ReadsOne, RefuseTyped
  <1>5. PICK c : c = m.to
    OBVIOUS
  <1>6. PICK h : h = Len(Headers(m))
    OBVIOUS
  <1>7. PICK all : all = Len(Script(m))
    OBVIOUS
  <1>8. PICK body : body = Meant(m).body
    OBVIOUS
  <1>9. PICK taken : taken = server.taken
    OBVIOUS
  <1>10. /\ p.mail <= count /\ p.mail = Len(taken) + 1 /\ p.line <= all /\ p.line > c + 3
         /\ server.to = c /\ server.lines = SubSeq(body, 1, p.line - (c + 3) - h - 1)
    BY <1>1, <1>2, <1>5, <1>6, <1>7, <1>8, <1>9 DEF ServerAt
  <1>11. m \in Mails
    BY <1>1, <1>2, <1>3, <1>10, ElementOfSeq DEF SmtpType, ClientType
  <1>12. PICK n \in Nat : n = Len(Tokens(m.body))
    BY <1>11, ContentIs
  <1>13. c \in Nat /\ h \in Nat /\ TextFrom(m) = c + 3 /\ ContentFrom(m) = c + 3 + h
         /\ all = c + 3 + h + n + 1 /\ all \in Nat
    <2>1. c \in Nat /\ m.cc \in Nat
      BY <1>5, <1>11 DEF Mails
    <2>2. h \in Nat
      BY <1>6, <1>5, <1>11, <2>1, HeadersAre
    <2>3. QED
      BY <1>5, <1>6, <1>7, <1>11, <1>12, <2>1, <2>2, ScriptIs DEF TextFrom, ContentFrom
  <1>14. body \in Seq(Lines) /\ Len(body) = n
    BY <1>8, <1>11, <1>12, MeantIs
  <1>15. PICK line : line = Head(toserver)
    OBVIOUS
  <1>16. line = Script(m)[p.line].line
    BY <1>1, <1>2, <1>10, <1>15 DEF LineAt
  <1>17. /\ p.line <= c + 3 + h => line.kind = "header"
         /\ c + 3 + h < p.line /\ p.line < all =>
              /\ line = Data(SentLine(Tokens(m.body)[p.line - (c + 3 + h)]))
              /\ line # LastLine.line
         /\ p.line = all => line = LastLine.line
    <2>1. PICK j \in Nat : j = p.line /\ 1 <= j
      BY <1>3
    <2>2. j <= Len(Script(m))
      BY <1>7, <1>10, <2>1
    <2>3. /\ TextFrom(m) < j /\ j <= ContentFrom(m) => Script(m)[j].line.kind = "header"
          /\ ContentFrom(m) < j /\ j < Len(Script(m)) =>
              /\ Script(m)[j].line = Data(SentLine(Tokens(m.body)[j - ContentFrom(m)]))
              /\ Script(m)[j].line # LastLine.line
          /\ j = Len(Script(m)) => Script(m)[j] = LastLine
      BY <1>11, <2>1, <2>2, ScriptLine
    <2>4. TextFrom(m) < j
      BY <1>10, <1>13, <2>1
    <2>5. QED
      BY <1>7, <1>13, <1>16, <2>1, <2>3, <2>4
  <1>18. PICK q \in Positions : q = Following(p, client.mails)
    BY FollowingTyped
  <1>19. p.line < all => q = At(p.mail, p.line + 1) /\ q.mail = p.mail /\ q.line = p.line + 1
    BY <1>1, <1>2, <1>7, <1>10, <1>18 DEF Following, At
  <1>20. client'.mails = client.mails /\ Len(client'.mails) = count
    BY <1>1, <1>4
  <1>21. ASSUME p.line < all, server'.at = "data", server'.to = c, server'.taken = taken,
                server'.data = server.data, replies' = replies,
                server'.lines = SubSeq(body, 1, p.line + 1 - (c + 3) - h - 1)
         PROVE TakenRightly(p)
    <2>1. ServerAt(q)'
      <3>1. q.mail = p.mail /\ q.line = p.line + 1
        BY <1>19, <1>21
      <3>2. client'.mails[q.mail] = m /\ q.mail <= Len(client'.mails)
        BY <1>2, <1>10, <1>20, <3>1
      <3>3. q.mail = Len(server'.taken) + 1
        BY <1>10, <1>21, <3>1
      <3>4. q.line <= Len(Script(m)) /\ q.line > m.to + 3
        <4>1. q.line <= all
          BY <1>3, <1>13, <1>21, <3>1
        <4>2. q.line > c + 3
          BY <1>3, <1>10, <1>13, <3>1
        <4>3. QED
          BY <1>5, <1>7, <4>1, <4>2
      <3>5. server'.lines = SubSeq(Meant(m).body, 1,
                                   q.line - (m.to + 3) - Len(Headers(m)) - 1)
        <4>1. Meant(m).body = body /\ m.to = c /\ Len(Headers(m)) = h
          BY <1>5, <1>6, <1>8
        <4>2. q.line - (c + 3) - h - 1 = p.line + 1 - (c + 3) - h - 1
          BY <1>3, <1>13, <3>1
        <4>3. QED
          BY <1>21, <4>1, <4>2
      <3>6. server'.to = m.to
        BY <1>5, <1>21
      <3>7. QED
        BY <1>21, <3>2, <3>3, <3>4, <3>5, <3>6 DEF ServerAt
    <2>2. QED
      BY <1>9, <1>18, <1>21, <2>1 DEF TakenRightly
  <1>22. CASE p.line <= c + 3 + h
    <2>1. line.kind = "header"
      BY <1>22, <1>17
    <2>2. server' = server /\ replies' = replies
      BY <1>4, <1>15, <2>1, ReadsOne
    <2>3. PICK i \in Int : i = p.line - (c + 3) - h - 1
      BY <1>3, <1>13
    <2>4. i < 1 /\ i + 1 < 1 /\ i + 1 = p.line + 1 - (c + 3) - h - 1 /\ p.line < all
      BY <1>3, <1>12, <1>13, <1>22, <2>3
    <2>5. SubSeq(body, 1, i) = <<>> /\ SubSeq(body, 1, i + 1) = <<>>
      BY <1>14, <2>4, SubSeqEmpty
    <2>6. server'.lines = SubSeq(body, 1, p.line + 1 - (c + 3) - h - 1)
      BY <1>10, <2>2, <2>3, <2>4, <2>5
    <2>7. QED
      BY <1>9, <1>10, <1>21, <2>2, <2>4, <2>6
  <1>23. CASE c + 3 + h < p.line /\ p.line < all
    <2>1. PICK j \in Nat \ {0} : j = p.line - (c + 3 + h) /\ j <= n
      <3>1. PICK j \in Int : j = p.line - (c + 3 + h)
        BY <1>3, <1>13
      <3>2. j > 0 /\ j <= n
        BY <1>3, <1>13, <1>23, <3>1
      <3>3. QED
        BY <3>1, <3>2
    <2>2. PICK sent : sent = SentLine(Tokens(m.body)[j])
      OBVIOUS
    <2>3. line = Data(sent) /\ line # LastLine.line
      BY <1>23, <1>17, <2>1, <2>2
    <2>4. line.kind = "data" /\ line.chars = sent /\ sent # <<".">>
      BY <2>3 DEF Data, LastLine
    <2>5. PICK next : next = IF sent = <<>> THEN <<>> ELSE Unstuffed(sent)
      OBVIOUS
    <2>6. replies' = replies /\ server' = [server EXCEPT !.lines = Append(@, next)]
      BY <1>4, <1>15, <2>4, <2>5, ReadsOne
    <2>7. next = body[j]
      BY <1>8, <1>11, <1>12, <2>1, <2>2, <2>5, MeantIs
    <2>8. /\ server'.at = "data" /\ server'.to = c /\ server'.taken = taken
          /\ server'.data = server.data /\ server'.lines = Append(server.lines, body[j])
      <3>1. server \in ServerType
        BY DEF SmtpType
      <3>2. QED
        BY <1>9, <1>10, <2>6, <2>7, <3>1 DEF ServerType
    <2>9. server.lines = SubSeq(body, 1, j - 1)
      <3>1. j - 1 = p.line - (c + 3) - h - 1
        BY <1>3, <1>13, <2>1
      <3>2. QED
        BY <1>10, <3>1
    <2>10. server'.lines = SubSeq(body, 1, j)
      BY <1>14, <2>1, <2>8, <2>9, OneMore
    <2>11. j = p.line + 1 - (c + 3) - h - 1
      BY <1>3, <1>13, <2>1
    <2>12. QED
      BY <1>21, <1>23, <2>6, <2>8, <2>10, <2>11
  <1>24. CASE p.line = all
    <2>1. line = LastLine.line
      BY <1>24, <1>17
    <2>2. line.kind = "data" /\ line.chars = <<".">> /\ Asks(line)
      BY <2>1 DEF LastLine, Data, Asks
    <2>3. PICK next : next = [server EXCEPT !.at = "ready",
                                !.taken = Append(@, [to |-> server.to, body |-> server.lines])]
      OBVIOUS
    <2>4. Answer(next)
      BY <1>4, <1>15, <2>2, <2>3, ReadsOne
    <2>5. server.lines = body
      <3>1. n = p.line - (c + 3) - h - 1
        BY <1>3, <1>12, <1>13, <1>24
      <3>2. server.lines = SubSeq(body, 1, n)
        BY <1>10, <3>1
      <3>3. QED
        BY <1>14, <3>2, SubSeqFull
    <2>6. [to |-> server.to, body |-> server.lines] = Meant(m)
      <3>1. Meant(m) \in [to : Nat, body : Seq(Lines)] /\ Meant(m).to = c
        BY <1>5, <1>11, MeantIs
      <3>2. QED
        BY <1>8, <1>10, <2>5, <3>1
    <2>7. Meant(m) \in [to : Nat, body : Seq(Lines)]
      BY <1>11, MeantIs
    <2>8. taken \in Seq([to : Nat, body : Seq(Lines)]) /\ server \in ServerType
      BY <1>9 DEF SmtpType, ServerType
    <2>9. PICK more : more = Append(taken, Meant(m))
      OBVIOUS
    <2>10. more \in Seq([to : Nat, body : Seq(Lines)]) /\ Len(more) = Len(taken) + 1
      BY <2>7, <2>8, <2>9, AppendProperties
    <2>11. next = [server EXCEPT !.at = "ready", !.taken = more]
      BY <1>9, <2>3, <2>6, <2>9
    <2>12. next \in ServerType /\ next.at = "ready" /\ next.taken = more
           /\ next.data = server.data
      BY <2>8, <2>10, <2>11 DEF ServerType
    <2>13. server' = [next EXCEPT !.long = server'.long]
           /\ (~server'.long => Len(replies') = Len(replies) + 1)
      BY <2>4, <2>12, AnswerTyped
    <2>14. server'.at = "ready" /\ server'.taken = more /\ server'.data = server.data
      BY <2>12, <2>13 DEF ServerType
    <2>15. q.mail = p.mail + 1 /\ q.line = 1
      <3>1. ~(p.line < Len(Script(m)))
        BY <1>7, <1>13, <1>24
      <3>2. q = At(p.mail + 1, 1)
        BY <1>2, <1>18, <3>1 DEF Following
      <3>3. QED
        BY <3>2 DEF At
    <2>16. q.mail = Len(server'.taken) + 1
      BY <1>10, <2>10, <2>14, <2>15
    <2>17. q.mail <= Len(client'.mails) => q.line <= Len(Script(client'.mails[q.mail]))
      <3>1. SUFFICES ASSUME q.mail <= count PROVE 1 <= Len(Script(client.mails[q.mail]))
        BY <1>20, <2>15
      <3>2. PICK other \in Mails : other = client.mails[q.mail]
        BY <1>1, <1>3, <2>15, <3>1, ElementOfSeq DEF SmtpType, ClientType
      <3>3. QED
        BY <3>2, ScriptIs
    <2>18. ServerAt(q)'
      BY <2>14, <2>15, <2>16, <2>17 DEF ServerAt
    <2>19. Len(taken) < count /\ client.mails[Len(taken) + 1] = m
      <3>1. Len(taken) \in Nat
        BY <2>8, LenProperties
      <3>2. QED
        BY <1>2, <1>10, <3>1
    <2>20. Asks(Head(toserver))
      BY <1>15, <2>2
    <2>21. QED
      BY <1>1, <1>9, <1>18, <2>9, <2>13, <2>14, <2>18, <2>19, <2>20 DEF TakenRightly
  <1>25. p.line <= c + 3 + h \/ (c + 3 + h < p.line /\ p.line < all) \/ p.line = all
    <2>1. p.line <= all
      BY <1>10
    <2>2. c \in Nat /\ h \in Nat /\ all \in Nat /\ p.line \in Nat
      BY <1>3, <1>13
    <2>3. QED
      BY <2>1, <2>2
  <1>26. QED
    BY <1>22, <1>23, <1>24, <1>25

LEMMA LineIsTaken ==
  ASSUME SmtpAssumption, SmtpType, ServerReads, server'.refused = 0,
         NEW p \in Positions, ServerAt(p), Head(toserver) = LineAt(p, client.mails)
  PROVE  TakenRightly(p)
  BY CommandIsTaken, TextIsTaken

LEMMA PositionTyped ==
  ASSUME NEW P \in Seq(Positions), NEW i \in 1 .. Len(P)
  PROVE  P[i] \in Positions /\ P[i].mail \in Nat \ {0} /\ P[i].line \in Nat \ {0}
  <1>1. P[i] \in Positions
    BY ElementOfSeq
  <1>2. QED
    BY <1>1 DEF Positions

\* Once the lines on their way are read, the server has taken as many mails as there are.
LEMMA CaughtUp ==
  ASSUME SmtpType, InStep, server.refused = 0, server.at # "gone", client.open,
         client.script = <<>>, toserver = <<>>
  PROVE  Len(client.mails) <= Len(server.taken)
  <1>1. PICK P \in Seq(Positions) : OnTheWay(P)
    BY DEF InStep
  <1>2. Len(P) = 1 /\ ServerAt(P[1]) /\ ClientAt(P[1])
    BY <1>1 DEF OnTheWay
  <1>3. P[1].mail = Len(client.mails) + 1 /\ P[1].mail = Len(server.taken) + 1
    BY <1>2 DEF ClientAt, ServerAt, At
  <1>4. Len(client.mails) \in Nat /\ Len(server.taken) \in Nat
    BY LenProperties DEF SmtpType, ClientType, ServerType
  <1>5. QED
    BY <1>3, <1>4

LEMMA OneMail ==
  ASSUME SmtpAssumption, NEW m \in Mails
  PROVE  /\ Script(m) \in Seq(ScriptLines) /\ Len(Script(m)) \in Nat \ {0} /\ Script(m) # <<>>
         /\ Script(m)[Len(Script(m))] = LastLine
  <1>1. Script(m) \in Seq(ScriptLines) /\ Len(Script(m)) \in Nat /\ Len(Script(m)) > 0
    BY ScriptIs, LenProperties
  <1>2. QED
    BY <1>1, ScriptIs

LEMMA SendMailKeeps ==
  ASSUME SmtpAssumption, SmtpInv, NEW mail \in Mails, SendMail(mail)
  PROVE  SmtpInv'
  <1>1. PICK count \in Nat : count = Len(client.mails)
    BY LenProperties DEF SmtpInv, SmtpType, ClientType
  <1>2. PICK mails : mails = Append(client.mails, mail)
    OBVIOUS
  <1>3. /\ mails \in Seq(Mails) /\ Len(mails) = count + 1 /\ mails[count + 1] = mail
        /\ \A i \in 1 .. count : mails[i] = client.mails[i]
    BY <1>1, <1>2, AppendProperties DEF SmtpInv, SmtpType, ClientType
  <1>4. PICK all : all = Script(mail)
    OBVIOUS
  <1>5. /\ all \in Seq(ScriptLines) /\ Len(all) \in Nat \ {0} /\ all # <<>>
        /\ all[Len(all)] = LastLine
    BY <1>4, OneMail
  <1>6. /\ client \in ClientType /\ client.open /\ BetweenMails
        /\ client.script = <<>> /\ client.hearing = "nothing"
        /\ server' = server /\ toserver' = toserver /\ replies' = replies
    BY DEF SendMail, SmtpInv, SmtpType, BetweenMails
  <1>7. PICK h \in Replies : h = IF client.gotinitial THEN "nothing" ELSE "needed"
    BY DEF Replies
  <1>8. client' = [client EXCEPT !.script = all, !.gotinitial = TRUE, !.hearing = h,
                                 !.mails = mails]
    BY <1>2, <1>4, <1>7 DEF SendMail
  <1>9. /\ client'.script = all /\ client'.gotinitial = TRUE /\ client'.hearing = h
        /\ client'.mails = mails /\ client'.open = client.open
        /\ client'.returned = client.returned
    BY <1>6, <1>8 DEF ClientType
  <1>10. SmtpType'
    BY <1>3, <1>5, <1>6, <1>7, <1>8 DEF SmtpInv, SmtpType, ClientType
  <1>11. Awaiting' <=> Awaiting
    BY <1>6, <1>7, <1>9 DEF Awaiting
  <1>12. InStep'
    <2>1. SUFFICES ASSUME server.refused = 0, server.at # "gone"
                   PROVE  \E P \in Seq(Positions) : OnTheWay(P)'
      BY <1>6 DEF InStep
    <2>2. PICK P \in Seq(Positions) : OnTheWay(P)
      BY <2>1 DEF SmtpInv, InStep
    <2>3. PICK n \in Nat : n = Len(toserver) /\ Len(P) = n + 1
      BY <2>2, LenProperties DEF SmtpInv, SmtpType, OnTheWay
    <2>4. ASSUME NEW i \in 1 .. n + 1
          PROVE  P[i].mail \in Nat \ {0} /\ P[i].line \in Nat \ {0}
      BY <2>3, PositionTyped
    <2>5. /\ \A i \in 1 .. n : /\ toserver[i] = LineAt(P[i], client.mails)
                               /\ P[i + 1] = Following(P[i], client.mails)
                               /\ P[i].mail <= count
          /\ ServerAt(P[1]) /\ P[n + 1] = At(count + 1, 1)
      BY <1>1, <1>6, <2>2, <2>3 DEF OnTheWay, ClientAt
    <2>6. ASSUME NEW i \in 1 .. n
          PROVE  /\ LineAt(P[i], mails) = LineAt(P[i], client.mails)
                 /\ Following(P[i], mails) = Following(P[i], client.mails)
                 /\ P[i].mail <= Len(mails)
      <3>1. P[i].mail \in 1 .. count
        BY <2>4, <2>5
      <3>2. mails[P[i].mail] = client.mails[P[i].mail]
            /\ P[i].mail <= count /\ P[i].mail <= count + 1
        BY <1>3, <3>1
      <3>3. QED
        BY <1>1, <1>3, <3>2 DEF LineAt, Following
    <2>7. ServerAt(P[1])'
      <3>1. CASE P[1].mail <= count
        <4>1. P[1].mail \in 1 .. count
          BY <2>4, <3>1
        <4>2. mails[P[1].mail] = client.mails[P[1].mail] /\ P[1].mail <= Len(mails)
          BY <1>3, <4>1
        <4>3. QED
          BY <1>1, <1>6, <1>9, <2>5, <3>1, <4>2 DEF ServerAt
      <3>2. CASE ~(P[1].mail <= count)
        <4>1. n = 0
          BY <2>5, <3>2
        <4>2. P[1].mail = count + 1 /\ P[1].line = 1
          BY <2>5, <4>1 DEF At
        <4>3. P[1].line <= Len(Script(mails[P[1].mail]))
          BY <1>3, <1>4, <1>5, <4>2
        <4>4. /\ P[1].mail = Len(server.taken) + 1
              /\ server.at \in {"greeting", "start", "ready"}
          BY <1>1, <2>5, <3>2, <4>2 DEF ServerAt
        <4>5. QED
          BY <1>3, <1>6, <1>9, <4>2, <4>3, <4>4 DEF ServerAt
      <3>3. QED
        BY <3>1, <3>2
    <2>8. ClientAt(P[n + 1])'
      <3>1. Len(mails) = count + 1 /\ Script(mails[count + 1]) = all /\ count + 1 > 0
        BY <1>3, <1>4
      <3>2. P[n + 1].mail = count + 1 /\ P[n + 1].line = 1
        BY <2>5 DEF At
      <3>3. /\ Len(all) = Len(all) - 1 + 1
            /\ \A i \in 1 .. Len(all) : all[i] = all[1 + i - 1]
        BY <1>5
      <3>4. QED
        BY <1>5, <1>9, <3>1, <3>2, <3>3 DEF ClientAt
    <2>9. OnTheWay(P)'
      BY <1>6, <1>9, <2>3, <2>5, <2>6, <2>7, <2>8 DEF OnTheWay
    <2>10. QED
      BY <2>9
  <1>13. Lockstep'
    BY <1>5, <1>6, <1>9, <1>11 DEF SmtpInv, Lockstep, Awaiting
  <1>14. MailsReturned'
    <2>1. Len(client.returned) = count /\ ~BetweenMails'
      BY <1>1, <1>5, <1>6, <1>9 DEF SmtpInv, MailsReturned, BetweenMails
    <2>2. Len(mails) = count + 1 /\ mails # <<>>
      BY <1>1, <1>3
    <2>3. QED
      BY <1>5, <1>6, <1>9, <2>1, <2>2 DEF MailsReturned
  <1>15. MailArrives'
    <2>1. SUFFICES ASSUME server.refused = 0
                   PROVE  MailArrives'
      BY <1>6 DEF MailArrives
    <2>2. PICK taken : taken = server.taken
      OBVIOUS
    <2>3. taken \in Seq([to : Nat, body : Seq(Lines)]) /\ Len(taken) \in Nat
          /\ DOMAIN taken = 1 .. Len(taken)
      BY <2>2, LenProperties DEF SmtpInv, SmtpType, ServerType
    <2>4. /\ server.data = 0 /\ Len(taken) <= count
          /\ \A i \in DOMAIN taken : taken[i] = Meant(client.mails[i])
          /\ ~server.long =>
               \A i \in DOMAIN client.returned : client.returned[i] => i <= Len(taken)
      BY <1>1, <2>1, <2>2 DEF SmtpInv, MailArrives
    <2>5. Len(taken) <= Len(mails) /\ \A i \in DOMAIN taken : taken[i] = Meant(mails[i])
      BY <1>3, <2>3, <2>4
    <2>6. QED
      BY <1>6, <1>9, <2>2, <2>4, <2>5 DEF MailArrives
  <1>16. QED
    BY <1>10, <1>12, <1>13, <1>14, <1>15 DEF SmtpInv

\* The line that is sent next is the one at the client's position.
LEMMA SendLineKeeps ==
  ASSUME SmtpAssumption, SmtpInv, SendLine
  PROVE  SmtpInv'
  <1>1. PICK script : script = client.script
    OBVIOUS
  <1>2. PICK h : h = Head(script).hears
    OBVIOUS
  <1>3. PICK line : line = Head(script).line
    OBVIOUS
  <1>4. PICK rest : rest = Tail(script)
    OBVIOUS
  <1>5. /\ client \in ClientType /\ script \in Seq(ScriptLines) /\ script # <<>>
        /\ client.hearing = "nothing"
        /\ server' = server /\ replies' = replies /\ toserver' = Append(toserver, line)
        /\ client' = [client EXCEPT !.script = rest, !.hearing = h]
    BY <1>1, <1>2, <1>3, <1>4 DEF SendLine, SmtpInv, SmtpType, ClientType
  <1>6. /\ line \in WireLines /\ h \in Replies /\ rest \in Seq(ScriptLines)
        /\ script[1].line = line /\ script[1].hears = h
        /\ Len(rest) = Len(script) - 1
        /\ \A i \in 1 .. Len(script) - 1 : rest[i] = script[i + 1]
    BY <1>2, <1>3, <1>4, <1>5, StepTyped
  <1>7. /\ client'.script = rest /\ client'.hearing = h /\ client'.open = client.open
        /\ client'.gotinitial = client.gotinitial /\ client'.mails = client.mails
        /\ client'.returned = client.returned
    BY <1>5 DEF ClientType
  <1>8. PICK n \in Nat : n = Len(toserver)
    BY LenProperties DEF SmtpInv, SmtpType
  <1>9. /\ toserver' \in Seq(WireLines) /\ Len(toserver') = n + 1 /\ toserver'[n + 1] = line
        /\ \A i \in 1 .. n : toserver'[i] = toserver[i]
    BY <1>5, <1>6, <1>8, AppendProperties DEF SmtpInv, SmtpType
  <1>10. PICK l \in Nat \ {0} : l = Len(script)
    BY <1>5, LenProperties, EmptySeq
  <1>11. SmtpType'
    BY <1>5, <1>6, <1>9 DEF SmtpInv, SmtpType, ClientType
  <1>12. /\ ~BetweenMails /\ client.open /\ client.gotinitial /\ ~Awaiting
         /\ script[l] = LastLine
    BY <1>1, <1>5, <1>10 DEF SmtpInv, MailsReturned, BetweenMails, Awaiting
  <1>13. PICK count \in Nat : count = Len(client.mails)
    BY LenProperties DEF SmtpInv, SmtpType, ClientType
  <1>14. PICK m : m = client.mails[count]
    OBVIOUS
  <1>15. PICK all : all = Script(m)
    OBVIOUS
  <1>16. ASSUME server.refused = 0, server.at # "gone"
         PROVE  /\ \E P \in Seq(Positions) : OnTheWay(P)'
                /\ h = "nothing" => ~Asks(line)
    <2>1. PICK P \in Seq(Positions) : OnTheWay(P)
      BY <1>16 DEF SmtpInv, InStep
    <2>2. Len(P) = n + 1 /\ ClientAt(P[n + 1]) /\ ServerAt(P[1])
      BY <1>8, <1>12, <2>1 DEF OnTheWay
    <2>3. PICK p \in Positions : p = P[n + 1] /\ p.mail \in Nat /\ p.line \in Nat \ {0}
      BY <1>8, <2>2, PositionTyped
    <2>4. /\ count > 0 /\ p.mail = count /\ l = Len(all) - p.line + 1
          /\ \A i \in 1 .. l : script[i] = all[p.line + i - 1]
      BY <1>1, <1>5, <1>10, <1>13, <1>14, <1>15, <2>2, <2>3 DEF ClientAt
    <2>5. m \in Mails
      <3>1. count \in 1 .. Len(client.mails)
        BY <1>13, <2>4
      <3>2. QED
        BY <1>14, <3>1, ElementOfSeq DEF SmtpInv, SmtpType, ClientType
    <2>6. Len(all) \in Nat \ {0}
      BY <1>15, <2>5, OneMail
    <2>7. p.line <= Len(all) /\ script[1] = all[p.line]
      <3>1. script[1] = all[p.line + 1 - 1]
        BY <1>10, <2>4
      <3>2. QED
        BY <1>10, <2>3, <2>4, <2>6, <3>1
    <2>8. h = "nothing" => ~Asks(line)
      <3>1. all[p.line].hears = "nothing" => ~Asks(all[p.line].line)
        <4>1. PICK j \in Nat : j = p.line /\ 1 <= j
          BY <2>3
        <4>2. j <= Len(Script(m))
          BY <1>15, <2>7, <4>1
        <4>3. Script(m)[j].hears = "nothing" => ~Asks(Script(m)[j].line)
          BY <2>5, <4>1, <4>2, ScriptLine
        <4>4. QED
          BY <1>15, <4>1, <4>3
      <3>2. QED
        BY <1>6, <2>7, <3>1
    <2>9. line = LineAt(p, client.mails)
      BY <1>6, <1>13, <1>14, <1>15, <2>4, <2>7 DEF LineAt
    <2>10. PICK q \in Positions : q = Following(p, client.mails)
      BY FollowingTyped
    <2>11. PICK Q : Q = Append(P, q)
      OBVIOUS
    <2>12. /\ Q \in Seq(Positions) /\ Len(Q) = n + 2 /\ Q[n + 2] = q
           /\ \A i \in 1 .. n + 1 : Q[i] = P[i]
      <3>1. /\ Q \in Seq(Positions) /\ Len(Q) = Len(P) + 1 /\ Q[Len(P) + 1] = q
            /\ \A i \in 1 .. Len(P) : Q[i] = P[i]
        BY <2>10, <2>11, AppendProperties
      <3>2. QED
        BY <2>2, <3>1
    <2>13. ServerAt(Q[1])'
      <3>1. Q[1] = P[1]
        BY <2>12
      <3>2. QED
        BY <1>5, <1>7, <2>2, <3>1 DEF ServerAt
    <2>14. ClientAt(q)'
      <3>1. CASE rest = <<>>
        <4>1. l = 1
          BY <1>6, <1>10, <3>1
        <4>2. ~(p.line < Len(all))
          BY <2>3, <2>4, <2>6, <4>1
        <4>3. q = At(count + 1, 1)
          BY <1>13, <1>14, <1>15, <2>4, <2>10, <4>2 DEF Following
        <4>4. QED
          BY <1>7, <1>13, <3>1, <4>3 DEF ClientAt
      <3>2. CASE rest # <<>>
        <4>1. l > 1 /\ Len(rest) = l - 1
          <5>1. Len(rest) \in Nat \ {0}
            BY <1>6, <3>2, LenProperties, EmptySeq
          <5>2. QED
            BY <1>6, <1>10, <5>1
        <4>2. p.line < Len(all)
          BY <2>3, <2>4, <2>6, <4>1
        <4>3. q = At(count, p.line + 1)
          BY <1>13, <1>14, <1>15, <2>4, <2>10, <4>2 DEF Following
        <4>4. q.mail = count /\ q.line = p.line + 1
          BY <4>3 DEF At
        <4>5. Len(rest) = Len(all) - q.line + 1
          BY <2>3, <2>4, <2>6, <4>1, <4>4
        <4>6. ASSUME NEW i \in 1 .. Len(rest) PROVE rest[i] = all[q.line + i - 1]
          <5>1. i + 1 \in 1 .. l /\ i \in 1 .. l - 1
            BY <4>1
          <5>2. rest[i] = script[i + 1] /\ script[i + 1] = all[p.line + (i + 1) - 1]
            BY <1>6, <1>10, <2>4, <5>1
          <5>3. p.line + (i + 1) - 1 = q.line + i - 1
            BY <2>3, <4>4, <5>1
          <5>4. QED
            BY <5>2, <5>3
        <4>7. QED
          BY <1>7, <1>13, <1>14, <1>15, <2>4, <3>2, <4>4, <4>5, <4>6 DEF ClientAt
      <3>3. QED
        BY <3>1, <3>2
    <2>15. ASSUME NEW i \in 1 .. n + 1
           PROVE  /\ toserver'[i] = LineAt(Q[i], client.mails)
                  /\ Q[i + 1] = Following(Q[i], client.mails)
                  /\ Q[i].mail <= Len(client.mails)
      <3>1. CASE i = n + 1
        <4>1. Q[i] = p /\ Q[i + 1] = q /\ toserver'[i] = line
          BY <1>9, <2>3, <2>12, <3>1
        <4>2. QED
          BY <1>13, <2>4, <2>9, <2>10, <4>1
      <3>2. CASE i # n + 1
        <4>1. i \in 1 .. n /\ i + 1 \in 1 .. n + 1
          BY <3>2
        <4>2. Q[i] = P[i] /\ Q[i + 1] = P[i + 1] /\ toserver'[i] = toserver[i]
          BY <1>9, <2>12, <4>1
        <4>3. /\ toserver[i] = LineAt(P[i], client.mails)
              /\ P[i + 1] = Following(P[i], client.mails)
              /\ P[i].mail <= Len(client.mails)
          BY <1>8, <1>12, <2>1, <4>1 DEF OnTheWay
        <4>4. QED
          BY <4>2, <4>3
      <3>3. QED
        BY <3>1, <3>2
    <2>16. OnTheWay(Q)'
      <3>1. Len(Q) = Len(toserver') + 1
        BY <1>9, <2>12
      <3>2. ClientAt(Q[Len(Q)])'
        BY <2>12, <2>14
      <3>3. QED
        BY <1>7, <1>9, <2>13, <2>15, <3>1, <3>2 DEF OnTheWay
    <2>17. QED
      BY <2>8, <2>12, <2>16
  <1>17. InStep'
    BY <1>5, <1>16 DEF InStep
  <1>18. Lockstep'
    <2>1. SUFFICES ASSUME server.refused = 0, ~server.long
                   PROVE  Lockstep'
      BY <1>5 DEF Lockstep
    <2>2. replies = <<>>
      BY <1>12, <2>1 DEF SmtpInv, Lockstep
    <2>3. CASE server.at = "gone"
      BY <1>5, <2>2, <2>3 DEF Lockstep
    <2>4. CASE server.at # "gone"
      <3>1. /\ \A i \in 1 .. n : ~Asks(toserver[i])
            /\ server.at # "greeting"
        BY <1>8, <1>12, <2>1, <2>4 DEF SmtpInv, Lockstep
      <3>2. h = "nothing" => ~Asks(line)
        BY <1>16, <2>1, <2>4
      <3>3. Asks(line) => Awaiting'
        BY <1>7, <3>2 DEF Awaiting
      <3>4. ASSUME NEW i \in 1 .. n + 1, Asks(toserver'[i])
            PROVE  i = n + 1 /\ Awaiting'
        <4>1. i = n + 1
          BY <1>9, <3>1, <3>4
        <4>2. QED
          BY <1>9, <3>3, <3>4, <4>1
      <3>5. Len(replies) <= 1
        BY <1>12, <2>1 DEF SmtpInv, Lockstep
      <3>6. \A i \in 1 .. Len(toserver') :
              Asks(toserver'[i]) => i = Len(toserver') /\ Awaiting' /\ replies' = <<>>
        BY <1>5, <1>9, <2>2, <3>4
      <3>7. QED
        BY <1>5, <2>2, <3>1, <3>5, <3>6 DEF Lockstep, Asks
    <2>5. QED
      BY <2>3, <2>4
  <1>19. MailsReturned'
    <2>1. CASE rest = <<>>
      <3>1. l = 1
        BY <1>6, <1>10, <2>1
      <3>2. h = "reply"
        BY <1>6, <1>12, <3>1 DEF LastLine
      <3>3. QED
        BY <1>7, <1>12, <2>1, <3>2 DEF SmtpInv, MailsReturned, BetweenMails
    <2>2. CASE rest # <<>>
      <3>1. PICK r \in Nat \ {0} : r = Len(rest)
        BY <1>6, <2>2, LenProperties, EmptySeq
      <3>2. r \in 1 .. l - 1 /\ r + 1 = l
        BY <1>6, <1>10, <3>1
      <3>3. rest[r] = LastLine
        BY <1>6, <1>10, <1>12, <3>2
      <3>4. QED
        BY <1>7, <1>12, <2>2, <3>1, <3>3 DEF SmtpInv, MailsReturned, BetweenMails
    <2>3. QED
      BY <2>1, <2>2
  <1>20. MailArrives'
    BY <1>5, <1>7 DEF SmtpInv, MailArrives
  <1>21. QED
    BY <1>11, <1>17, <1>18, <1>19, <1>20 DEF SmtpInv

\* The reply waited for comes, or none will: send_mail goes on or returns.
LEMMA RecvLineDoes ==
  ASSUME SmtpType, RecvLine
  PROVE  /\ client.hearing # "nothing" /\ toserver' = toserver /\ server' = server
         /\ \/ replies # <<>> /\ replies' = Tail(replies)
            \/ replies = <<>> /\ replies' = replies /\ server.at = "gone"
         /\ \/ /\ client.script # <<>> /\ client' = [client EXCEPT !.hearing = "nothing"]
            \/ client' = Returns(TRUE) /\ replies # <<>> /\ client.script = <<>>
            \/ client' = Returns(FALSE) /\ (client.script = <<>> \/ server.at = "gone")
  <1>1. CASE replies # <<>>
    <2>1. client' \in Onward(IF server.at = "gone" THEN BOOLEAN ELSE {TRUE})
      BY <1>1 DEF RecvLine
    <2>2. CASE client.script # <<>>
      BY <1>1, <2>1, <2>2 DEF RecvLine, Onward
    <2>3. CASE client.script = <<>>
      <3>1. PICK r \in BOOLEAN : client' = Returns(r)
        BY <2>1, <2>3 DEF Onward
      <3>2. r = TRUE \/ r = FALSE
        BY <3>1
      <3>3. client' = Returns(TRUE) \/ client' = Returns(FALSE)
        BY <3>1, <3>2
      <3>4. QED
        BY <1>1, <2>3, <3>3 DEF RecvLine
    <2>4. QED
      BY <2>2, <2>3
  <1>2. CASE replies = <<>>
    <2>1. client' \in IF client.hearing = "needed" THEN {Returns(FALSE)} ELSE Onward({FALSE})
      BY <1>2 DEF RecvLine
    <2>2. CASE client' = Returns(FALSE)
      BY <1>2, <2>2 DEF RecvLine
    <2>3. CASE client' \in Onward({FALSE})
      <3>1. CASE client.script # <<>>
        BY <1>2, <2>3, <3>1 DEF RecvLine, Onward
      <3>2. CASE client.script = <<>>
        BY <1>2, <2>3, <3>2 DEF RecvLine, Onward
      <3>3. QED
        BY <3>1, <3>2
    <2>4. QED
      BY <2>1, <2>2, <2>3
  <1>3. QED
    BY <1>1, <1>2

\* It returns true only behind a reply to the end of a mail, which the server has then taken.
LEMMA RecvLineKeeps ==
  ASSUME SmtpAssumption, SmtpInv, RecvLine
  PROVE  SmtpInv'
  <1>1. /\ SmtpType /\ client \in ClientType /\ client.hearing # "nothing"
        /\ toserver' = toserver /\ server' = server
    BY RecvLineDoes DEF SmtpInv, SmtpType
  <1>2. /\ ~BetweenMails /\ client.open /\ client.gotinitial
    BY <1>1 DEF SmtpInv, MailsReturned, BetweenMails
  <1>3. /\ client'.hearing = "nothing" /\ client'.open = client.open
        /\ client'.gotinitial = client.gotinitial /\ client'.mails = client.mails
        /\ \/ /\ client.script # <<>> /\ client'.script = client.script
              /\ client'.returned = client.returned
           \/ /\ client.script = <<>> \/ server.at = "gone"
              /\ client'.script = <<>>
              /\ \/ /\ client'.returned = Append(client.returned, TRUE)
                    /\ replies # <<>> /\ client.script = <<>>
                 \/ client'.returned = Append(client.returned, FALSE)
    <2>1. CASE client' = [client EXCEPT !.hearing = "nothing"] /\ client.script # <<>>
      BY <1>1, <2>1 DEF ClientType
    <2>2. CASE client' = Returns(TRUE) /\ replies # <<>> /\ client.script = <<>>
      BY <1>1, <2>2 DEF ClientType, Returns
    <2>3. CASE client' = Returns(FALSE) /\ (client.script = <<>> \/ server.at = "gone")
      BY <1>1, <2>3 DEF ClientType, Returns
    <2>4. QED
      BY <1>1, <2>1, <2>2, <2>3, RecvLineDoes
  <1>4. replies' \in Seq({"reply"})
        /\ (Len(replies) <= 1 => replies' = <<>>)
    <2>1. replies \in Seq({"reply"}) /\ Len(replies) \in Nat
      BY <1>1, LenProperties DEF SmtpType
    <2>2. CASE replies # <<>>
      <3>1. replies' = Tail(replies)
        BY <1>1, <2>2, RecvLineDoes
      <3>2. replies' \in Seq({"reply"}) /\ Len(replies') = Len(replies) - 1
        BY <2>1, <2>2, <3>1, HeadTailProperties
      <3>3. Len(replies) # 0
        BY <2>1, <2>2, EmptySeq
      <3>4. Len(replies) <= 1 => Len(replies') = 0
        BY <2>1, <3>2, <3>3
      <3>5. QED
        BY <3>2, <3>4, EmptySeq
    <2>3. CASE replies = <<>>
      BY <1>1, <2>1, <2>3, RecvLineDoes
    <2>4. QED
      BY <2>2, <2>3
  <1>5. client' \in ClientType
    <2>1. CASE client' = [client EXCEPT !.hearing = "nothing"]
      BY <1>1, <2>1 DEF ClientType, Replies
    <2>2. ASSUME NEW r, r \in BOOLEAN, client' = Returns(r) PROVE client' \in ClientType
      <3>1. PICK more : more = Append(client.returned, r)
        OBVIOUS
      <3>2. more \in Seq(BOOLEAN)
        BY <1>1, <2>2, <3>1, AppendProperties DEF ClientType
      <3>3. <<>> \in Seq(ScriptLines)
        OBVIOUS
      <3>4. client' = [client EXCEPT !.script = <<>>, !.hearing = "nothing", !.returned = more]
        BY <2>2, <3>1 DEF Returns
      <3>5. QED
        BY <1>1, <3>2, <3>3, <3>4 DEF ClientType, Replies
    <2>3. TRUE \in BOOLEAN /\ FALSE \in BOOLEAN
      OBVIOUS
    <2>4. QED
      BY <1>1, <2>1, <2>2, <2>3, RecvLineDoes
  <1>6. SmtpType'
    BY <1>1, <1>4, <1>5 DEF SmtpType
  <1>7. InStep'
    <2>1. SUFFICES ASSUME server.refused = 0, server.at # "gone"
                   PROVE  \E P \in Seq(Positions) : OnTheWay(P)'
      BY <1>1 DEF InStep
    <2>2. PICK P \in Seq(Positions) : OnTheWay(P)
      BY <2>1 DEF SmtpInv, InStep
    <2>3. client'.script = client.script
      BY <1>3, <2>1
    <2>4. OnTheWay(P)'
      BY <1>1, <1>3, <2>2, <2>3 DEF OnTheWay, ServerAt, ClientAt
    <2>5. QED
      BY <2>4
  <1>8. Lockstep'
    <2>1. SUFFICES ASSUME server.refused = 0, ~server.long
                   PROVE  Lockstep'
      BY <1>1 DEF Lockstep
    <2>2. Len(replies) <= 1 /\ replies' = <<>> /\ Len(replies') <= 1
      BY <1>2, <1>4, <2>1 DEF SmtpInv, Lockstep
    <2>3. CASE server.at = "gone"
      BY <1>1, <2>2, <2>3 DEF Lockstep
    <2>4. CASE server.at # "gone"
      <3>1. replies # <<>> /\ toserver = <<>> /\ server.at # "greeting"
        BY <1>1, <1>2, <2>1, <2>4, RecvLineDoes DEF SmtpInv, Lockstep
      <3>2. \A i \in 1 .. Len(toserver') : FALSE
        BY <1>1, <3>1
      <3>3. QED
        BY <1>1, <2>2, <3>1, <3>2 DEF Lockstep
    <2>5. QED
      BY <2>3, <2>4
  <1>9. PICK returned \in Seq(BOOLEAN) : returned = client.returned
    BY <1>1 DEF ClientType
  <1>10. PICK n \in Nat : n = Len(returned) /\ DOMAIN returned = 1 .. n
    BY LenProperties
  <1>11. Len(client.mails) \in Nat /\ n = Len(client.mails) - 1
    BY <1>1, <1>2, <1>9, <1>10, LenProperties DEF SmtpInv, MailsReturned, ClientType
  <1>12. MailsReturned'
    <2>1. CASE client'.returned = returned /\ client'.script = client.script
               /\ client.script # <<>>
      BY <1>2, <1>3, <1>9, <2>1 DEF SmtpInv, MailsReturned, BetweenMails
    <2>2. ASSUME NEW r, r \in BOOLEAN, client'.returned = Append(returned, r),
                 client'.script = <<>>
          PROVE  MailsReturned'
      <3>1. Len(client'.returned) = n + 1
        BY <1>10, <2>2, AppendProperties
      <3>2. Len(client'.returned) = Len(client'.mails)
        BY <1>3, <1>11, <3>1
      <3>3. client'.mails = <<>> <=> ~client'.gotinitial
        BY <1>3 DEF SmtpInv, MailsReturned
      <3>4. BetweenMails'
        BY <1>3, <2>2 DEF BetweenMails
      <3>5. Len(client'.mails) = Len(client'.mails) - 0
        BY <1>3, <1>11
      <3>6. QED
        BY <1>3, <2>2, <3>2, <3>3, <3>4, <3>5 DEF MailsReturned
    <2>3. TRUE \in BOOLEAN /\ FALSE \in BOOLEAN
      OBVIOUS
    <2>4. QED
      BY <1>3, <1>9, <2>1, <2>2, <2>3
  <1>13. MailArrives'
    <2>1. SUFFICES ASSUME server.refused = 0
                   PROVE  MailArrives'
      BY <1>1 DEF MailArrives
    <2>2. PICK taken : taken = server.taken
      OBVIOUS
    <2>3. /\ server.data = 0 /\ Len(taken) <= Len(client.mails)
          /\ \A i \in DOMAIN taken : taken[i] = Meant(client.mails[i])
          /\ ~server.long => \A i \in 1 .. n : returned[i] => i <= Len(taken)
      BY <1>9, <1>10, <2>1, <2>2 DEF SmtpInv, MailArrives
    <2>4. ASSUME ~server.long
          PROVE  \A i \in DOMAIN client'.returned : client'.returned[i] => i <= Len(taken)
      <3>1. CASE client'.returned = returned
        BY <1>10, <2>3, <2>4, <3>1
      <3>2. ASSUME NEW r, r \in BOOLEAN, client'.returned = Append(returned, r)
            PROVE  /\ DOMAIN client'.returned = 1 .. n + 1 /\ client'.returned[n + 1] = r
                   /\ \A i \in 1 .. n : client'.returned[i] = returned[i]
        <4>1. /\ client'.returned \in Seq(BOOLEAN) /\ Len(client'.returned) = n + 1
              /\ client'.returned[n + 1] = r
              /\ \A i \in 1 .. n : client'.returned[i] = returned[i]
          BY <1>10, <3>2, AppendProperties
        <4>2. QED
          BY <4>1, LenProperties
      <3>3. CASE client'.returned = Append(returned, FALSE)
        <4>1. ASSUME NEW i \in DOMAIN client'.returned, client'.returned[i]
              PROVE  i \in 1 .. n /\ returned[i]
          BY <1>10, <3>2, <3>3, <4>1
        <4>2. QED
          BY <2>3, <2>4, <4>1
      <3>4. CASE client'.returned = Append(returned, TRUE)
                 /\ replies # <<>> /\ client.script = <<>>
        <4>1. n + 1 <= Len(taken)
          <5>1. Len(client.mails) <= Len(taken)
            BY <1>2, <2>1, <2>2, <2>4, <3>4 DEF SmtpInv, Lockstep
          <5>2. QED
            BY <1>11, <5>1
        <4>2. ASSUME NEW i \in DOMAIN client'.returned, client'.returned[i]
              PROVE  i <= Len(taken)
          <5>1. i = n + 1 \/ (i \in 1 .. n /\ returned[i])
            BY <1>10, <3>2, <3>4, <4>2
          <5>2. QED
            BY <2>3, <2>4, <4>1, <5>1
        <4>3. QED
          BY <4>2
      <3>5. QED
        BY <1>3, <1>9, <3>1, <3>3, <3>4
    <2>5. QED
      BY <1>1, <1>3, <2>2, <2>3, <2>4 DEF MailArrives
  <1>14. QED
    BY <1>6, <1>7, <1>8, <1>12, <1>13 DEF SmtpInv

\* The QUIT follows everything else.
LEMMA QuitKeeps ==
  ASSUME SmtpAssumption, SmtpInv, Quit
  PROVE  SmtpInv'
  <1>1. /\ client \in ClientType /\ client.open /\ BetweenMails /\ client.script = <<>>
        /\ server' = server /\ replies' = replies
        /\ client' = [client EXCEPT !.open = FALSE]
    BY DEF Quit, SmtpInv, SmtpType, BetweenMails
  <1>2. /\ client'.script = client.script /\ client'.hearing = client.hearing
        /\ client'.open = FALSE /\ client'.gotinitial = client.gotinitial
        /\ client'.mails = client.mails /\ client'.returned = client.returned
    BY <1>1 DEF ClientType
  <1>3. PICK n \in Nat : n = Len(toserver)
    BY LenProperties DEF SmtpInv, SmtpType
  <1>4. \/ toserver' = toserver
        \/ /\ toserver' = Append(toserver, Command("QUIT")) /\ toserver' \in Seq(WireLines)
           /\ Len(toserver') = n + 1 /\ toserver'[n + 1] = Command("QUIT")
           /\ \A i \in 1 .. n : toserver'[i] = toserver[i]
    <2>1. CASE toserver' = toserver
      BY <2>1
    <2>2. CASE toserver' = Append(toserver, Command("QUIT"))
      <3>1. Command("QUIT") \in WireLines
        BY DEF Command, WireLines, Verbs
      <3>2. PICK line \in WireLines : line = Command("QUIT")
        BY <3>1
      <3>3. /\ toserver' \in Seq(WireLines)
            /\ Len(toserver') = n + 1 /\ toserver'[n + 1] = line
            /\ \A i \in 1 .. n : toserver'[i] = toserver[i]
        BY <1>3, <2>2, <3>2, AppendProperties DEF SmtpInv, SmtpType
      <3>4. QED
        BY <2>2, <3>2, <3>3
    <2>3. QED
      BY <2>1, <2>2 DEF Quit
  <1>5. SmtpType'
    BY <1>1, <1>4 DEF SmtpInv, SmtpType, ClientType
  <1>6. PICK count \in Nat : count = Len(client.mails)
    BY LenProperties DEF SmtpInv, SmtpType, ClientType
  <1>7. InStep'
    <2>1. SUFFICES ASSUME server.refused = 0, server.at # "gone"
                   PROVE  \E P \in Seq(Positions) : OnTheWay(P)'
      BY <1>1 DEF InStep
    <2>2. PICK P \in Seq(Positions) : OnTheWay(P)
      BY <2>1 DEF SmtpInv, InStep
    <2>3. Len(P) = n + 1 /\ ServerAt(P[1]) /\ P[n + 1] = At(count + 1, 1)
      BY <1>1, <1>3, <1>6, <2>2 DEF OnTheWay, ClientAt
    <2>4. ServerAt(P[1])'
      BY <1>1, <1>2, <2>3 DEF ServerAt
    <2>5. CASE toserver' = toserver
      <3>1. OnTheWay(P)'
        BY <1>2, <2>2, <2>4, <2>5 DEF OnTheWay
      <3>2. QED
        BY <3>1
    <2>6. CASE /\ Len(toserver') = n + 1 /\ toserver'[n + 1] = Command("QUIT")
               /\ \A i \in 1 .. n : toserver'[i] = toserver[i]
      <3>1. PICK p \in Positions : p = P[n + 1] /\ p.mail = count + 1
        <4>1. P[n + 1] \in Positions
          BY <1>3, <2>3, PositionTyped
        <4>2. QED
          BY <2>3, <4>1 DEF At
      <3>2. PICK q \in Positions : q = Following(p, client.mails)
        BY FollowingTyped
      <3>3. PICK Q : Q = Append(P, q)
        OBVIOUS
      <3>4. /\ Q \in Seq(Positions) /\ Len(Q) = n + 2 /\ Q[n + 2] = q
            /\ \A i \in 1 .. n + 1 : Q[i] = P[i]
        <4>1. /\ Q \in Seq(Positions) /\ Len(Q) = Len(P) + 1 /\ Q[Len(P) + 1] = q
              /\ \A i \in 1 .. Len(P) : Q[i] = P[i]
          BY <3>2, <3>3, AppendProperties
        <4>2. QED
          BY <2>3, <4>1
      <3>5. Command("QUIT") = LineAt(p, client.mails)
        BY <1>6, <3>1 DEF LineAt
      <3>6. ASSUME NEW i \in 1 .. n + 1
            PROVE  /\ toserver'[i] = LineAt(Q[i], client.mails)
                   /\ Q[i + 1] = Following(Q[i], client.mails)
        <4>1. CASE i = n + 1
          <5>1. Q[i] = p /\ Q[i + 1] = q /\ toserver'[i] = Command("QUIT")
            BY <2>6, <3>1, <3>4, <4>1
          <5>2. QED
            BY <3>2, <3>5, <5>1
        <4>2. CASE i # n + 1
          <5>1. i \in 1 .. n /\ i + 1 \in 1 .. n + 1
            BY <4>2
          <5>2. Q[i] = P[i] /\ Q[i + 1] = P[i + 1] /\ toserver'[i] = toserver[i]
            BY <2>6, <3>4, <5>1
          <5>3. /\ toserver[i] = LineAt(P[i], client.mails)
                /\ P[i + 1] = Following(P[i], client.mails)
            BY <1>3, <2>2, <5>1 DEF OnTheWay
          <5>4. QED
            BY <5>2, <5>3
        <4>3. QED
          BY <4>1, <4>2
      <3>7. ServerAt(Q[1])'
        <4>1. Q[1] = P[1]
          BY <3>4
        <4>2. QED
          BY <2>4, <4>1
      <3>8. Len(Q) = Len(toserver') + 1
        BY <2>6, <3>4
      <3>9. OnTheWay(Q)'
        BY <1>2, <2>6, <3>6, <3>7, <3>8 DEF OnTheWay
      <3>10. QED
        BY <3>4, <3>9
    <2>7. QED
      BY <1>4, <2>5, <2>6
  <1>8. Lockstep'
    BY <1>2 DEF Lockstep
  <1>9. MailsReturned'
    BY <1>1, <1>2 DEF SmtpInv, MailsReturned, BetweenMails
  <1>10. MailArrives'
    BY <1>1, <1>2 DEF SmtpInv, MailArrives
  <1>11. QED
    BY <1>5, <1>7, <1>8, <1>9, <1>10 DEF SmtpInv

\* The greeting comes before anything is sent, and the client waits for it.
LEMMA GreetKeeps ==
  ASSUME SmtpAssumption, SmtpInv, Greet
  PROVE  SmtpInv'
  <1>1. PICK next : next = [server EXCEPT !.at = "start"]
    OBVIOUS
  <1>2. /\ server \in ServerType /\ server.at = "greeting" /\ Answer(next)
        /\ client' = client /\ toserver' = toserver /\ SmtpType
    BY <1>1 DEF Greet, SmtpInv, SmtpType
  <1>3. next \in ServerType
    BY <1>1, <1>2 DEF ServerType
  <1>4. /\ server' \in ServerType /\ replies' \in Seq({"reply"})
        /\ server' = [next EXCEPT !.long = server'.long]
        /\ next.long => server'.long
        /\ ~server'.long => Len(replies') = Len(replies) + 1
    BY <1>2, <1>3, AnswerTyped
  <1>5. /\ server'.at = "start" /\ server'.taken = server.taken
        /\ server'.refused = server.refused /\ server'.data = server.data
        /\ server'.to = server.to /\ server'.lines = server.lines
        /\ server.long => server'.long
    BY <1>1, <1>2, <1>3, <1>4 DEF ServerType
  <1>6. SmtpType'
    BY <1>2, <1>4 DEF SmtpType
  <1>7. InStep'
    <2>1. SUFFICES ASSUME server.refused = 0
                   PROVE  \E P \in Seq(Positions) : OnTheWay(P)'
      BY <1>5 DEF InStep
    <2>2. PICK P \in Seq(Positions) : OnTheWay(P)
      BY <1>2, <2>1 DEF SmtpInv, InStep
    <2>3. ServerAt(P[1])'
      <3>1. ServerAt(P[1])
        BY <2>2 DEF OnTheWay
      <3>2. P[1].line = 1
        BY <1>2, <3>1 DEF ServerAt
      <3>3. QED
        BY <1>2, <1>5, <3>1, <3>2 DEF ServerAt
    <2>4. OnTheWay(P)'
      BY <1>2, <2>2, <2>3 DEF OnTheWay, ClientAt
    <2>5. QED
      BY <2>4
  <1>8. Lockstep'
    <2>1. SUFFICES ASSUME server'.refused = 0, ~server'.long, client.open
                   PROVE  Lockstep'
      BY <1>2 DEF Lockstep
    <2>2. /\ replies = <<>> /\ toserver = <<>> /\ Awaiting
      BY <1>2, <1>5, <2>1 DEF SmtpInv, Lockstep
    <2>3. Len(replies') <= 1
      <3>1. Len(replies) = 0 /\ Len(replies') = Len(replies) + 1
        BY <1>4, <2>1, <2>2
      <3>2. QED
        BY <3>1
    <2>4. client.script = <<>> => Len(client.mails) <= Len(server.taken)
      BY <1>2, <1>5, <2>1, <2>2, CaughtUp DEF SmtpInv
    <2>5. /\ Awaiting' /\ toserver' = <<>> /\ \A i \in 1 .. Len(toserver') : FALSE
      BY <1>2, <2>2 DEF Awaiting
    <2>6. QED
      BY <1>2, <1>5, <2>3, <2>4, <2>5 DEF Lockstep
  <1>9. MailsReturned'
    BY <1>2 DEF SmtpInv, MailsReturned, BetweenMails
  <1>10. MailArrives'
    BY <1>2, <1>5 DEF SmtpInv, MailArrives
  <1>11. QED
    BY <1>6, <1>7, <1>8, <1>9, <1>10 DEF SmtpInv

LEMMA ServerGoesKeeps ==
  ASSUME SmtpAssumption, SmtpInv, ServerGoes
  PROVE  SmtpInv'
  <1>1. /\ server \in ServerType /\ server' = [server EXCEPT !.at = "gone"]
        /\ client' = client /\ toserver' = toserver /\ replies' = replies
    BY DEF ServerGoes, SmtpInv, SmtpType
  <1>2. /\ server'.at = "gone" /\ server'.taken = server.taken
        /\ server'.refused = server.refused /\ server'.data = server.data
        /\ server'.long = server.long
    BY <1>1 DEF ServerType
  <1>3. SmtpType'
    BY <1>1 DEF SmtpInv, SmtpType, ServerType
  <1>4. InStep'
    BY <1>2 DEF InStep
  <1>5. Lockstep'
    BY <1>1, <1>2 DEF SmtpInv, Lockstep, Awaiting
  <1>6. MailsReturned'
    BY <1>1 DEF SmtpInv, MailsReturned, BetweenMails
  <1>7. MailArrives'
    BY <1>1, <1>2 DEF SmtpInv, MailArrives
  <1>8. QED
    BY <1>3, <1>4, <1>5, <1>6, <1>7 DEF SmtpInv

\* The server reads the line at its position, which is the client's, and what it makes of it.
LEMMA ServerReadsKeeps ==
  ASSUME SmtpAssumption, SmtpInv, ServerReads
  PROVE  SmtpInv'
  <1>1. /\ SmtpType /\ SmtpType' /\ client' = client
        /\ toserver # <<>> /\ toserver' = Tail(toserver)
        /\ server.at # "greeting" /\ server.at # "gone"
        /\ server.long => server'.long
    BY ReadsOne, ReadsTyped DEF SmtpInv
  <1>2. server'.refused = 0 => server.refused = 0
    <2>1. server.refused <= server'.refused /\ server.refused \in Nat
      BY ReadsTyped DEF SmtpInv, SmtpType, ServerType
    <2>2. QED
      BY <2>1
  <1>3. PICK n \in Nat : n + 1 = Len(toserver) /\ Head(toserver) = toserver[1]
    <2>1. Len(toserver) \in Nat /\ Len(toserver) # 0 /\ Head(toserver) = toserver[1]
      BY <1>1, LenProperties, EmptySeq, HeadTailProperties DEF SmtpType
    <2>2. PICK n \in Int : n = Len(toserver) - 1
      BY <2>1
    <2>3. QED
      BY <2>1, <2>2
  <1>4. /\ toserver' \in Seq(WireLines) /\ Len(toserver') = n
        /\ \A i \in 1 .. n : toserver'[i] = toserver[i + 1]
    <2>1. toserver \in Seq(WireLines)
      BY <1>1 DEF SmtpType
    <2>2. QED
      BY <1>1, <1>3, <2>1, HeadTailProperties
  <1>5. MailsReturned'
    BY <1>1 DEF SmtpInv, MailsReturned, BetweenMails
  <1>6. ASSUME server'.refused # 0
        PROVE  SmtpInv'
    BY <1>1, <1>5, <1>6 DEF SmtpInv, InStep, Lockstep, MailArrives
  <1>7. ASSUME server'.refused = 0
        PROVE  SmtpInv'
    <2>1. PICK P \in Seq(Positions) : OnTheWay(P)
      BY <1>1, <1>2, <1>7 DEF SmtpInv, InStep
    <2>2. Len(P) = n + 2
      BY <1>3, <2>1 DEF OnTheWay
    <2>3. PICK p \in Positions : p = P[1] /\ p.mail \in Nat
      <3>1. 1 \in 1 .. Len(P)
        BY <2>2
      <3>2. QED
        BY <3>1, PositionTyped
    <2>4. client.open => ClientAt(P[n + 2])
      BY <2>1, <2>2 DEF OnTheWay
    <2>5. /\ ServerAt(p) /\ Head(toserver) = LineAt(p, client.mails)
          /\ P[2] = Following(p, client.mails)
          /\ client.open => p.mail <= Len(client.mails)
      <3>1. 1 \in 1 .. Len(toserver)
        BY <1>3
      <3>2. QED
        BY <1>3, <2>1, <2>3, <3>1 DEF OnTheWay
    <2>6. Len(client.mails) \in Nat
      BY <1>1, LenProperties DEF SmtpType, ClientType
    <2>7. TakenRightly(p)
      BY <1>1, <1>7, <2>5, LineIsTaken
    <2>8. /\ server'.data = server.data /\ server'.at # "greeting"
          /\ \/ server'.at = "gone" /\ ~client.open
             \/ ServerAt(P[2])'
          /\ \/ server'.taken = server.taken
             \/ /\ Len(server.taken) < Len(client.mails)
                /\ server'.taken = Append(server.taken,
                                          Meant(client.mails[Len(server.taken) + 1]))
          /\ \/ replies' = replies
             \/ Asks(toserver[1]) /\ (~server'.long => Len(replies') = Len(replies) + 1)
      <3>1. ~client.open \/ ~(p.mail > Len(client.mails))
        BY <2>3, <2>5, <2>6
      <3>2. QED
        BY <1>3, <2>5, <2>7, <3>1 DEF TakenRightly
    <2>9. InStep'
      <3>1. SUFFICES ASSUME server'.at # "gone"
                     PROVE  \E Q \in Seq(Positions) : OnTheWay(Q)'
        BY DEF InStep
      <3>2. PICK Q : Q = Tail(P)
        OBVIOUS
      <3>3. /\ Q \in Seq(Positions) /\ Len(Q) = n + 1
            /\ \A i \in 1 .. n + 1 : Q[i] = P[i + 1]
        <4>1. P # <<>>
          <5>1. Len(P) # 0
            BY <2>2
          <5>2. QED
            BY <5>1, EmptySeq
        <4>2. /\ Q \in Seq(Positions) /\ Len(Q) = Len(P) - 1
              /\ \A i \in 1 .. Len(P) - 1 : Q[i] = P[i + 1]
          BY <3>2, <4>1, HeadTailProperties
        <4>3. QED
          BY <2>2, <4>2
      <3>4. ServerAt(Q[1])'
        <4>1. Q[1] = P[2]
          BY <3>3
        <4>2. QED
          BY <2>8, <3>1, <4>1
      <3>5. client'.open => ClientAt(Q[n + 1])'
        <4>1. Q[n + 1] = P[n + 2]
          BY <3>3
        <4>2. QED
          BY <1>1, <2>4, <4>1 DEF ClientAt
      <3>6. ASSUME NEW i \in 1 .. n
            PROVE  /\ toserver'[i] = LineAt(Q[i], client.mails)
                   /\ Q[i + 1] = Following(Q[i], client.mails)
                   /\ client.open => Q[i].mail <= Len(client.mails)
        <4>1. PICK j \in Nat : j = i + 1 /\ j \in 1 .. n + 1 /\ i \in 1 .. n + 1
          OBVIOUS
        <4>2. Q[i] = P[j] /\ Q[j] = P[j + 1] /\ toserver'[i] = toserver[j]
          BY <1>4, <3>3, <4>1
        <4>3. /\ toserver[j] = LineAt(P[j], client.mails)
              /\ P[j + 1] = Following(P[j], client.mails)
              /\ client.open => P[j].mail <= Len(client.mails)
          BY <1>3, <2>1, <4>1 DEF OnTheWay
        <4>4. QED
          BY <4>1, <4>2, <4>3
      <3>7. OnTheWay(Q)'
        BY <1>1, <1>4, <3>3, <3>4, <3>5, <3>6 DEF OnTheWay
      <3>8. QED
        BY <3>3, <3>7
    <2>10. Lockstep'
      <3>1. SUFFICES ASSUME ~server'.long, client.open
                     PROVE  Lockstep'
        BY <1>1 DEF Lockstep
      <3>2. server.refused = 0 /\ ~server.long /\ server'.at # "gone"
        <4>1. ServerAt(P[2])'
          BY <2>8, <3>1
        <4>2. server'.at # "gone"
          BY <4>1 DEF ServerAt
        <4>3. QED
          BY <1>1, <1>2, <1>7, <3>1, <4>2
      <3>3. /\ replies = <<>>
            /\ \A i \in 1 .. n + 1 : Asks(toserver[i]) => i = n + 1 /\ Awaiting
        BY <1>1, <1>3, <3>1, <3>2 DEF SmtpInv, Lockstep
      <3>4. Awaiting' <=> Awaiting
        BY <1>1 DEF Awaiting
      <3>5. CASE replies' = replies
        <4>1. ASSUME NEW i \in 1 .. n, Asks(toserver'[i])
              PROVE  i = n /\ Awaiting
          <5>1. i + 1 \in 1 .. n + 1 /\ toserver'[i] = toserver[i + 1]
            BY <1>4
          <5>2. i + 1 = n + 1 /\ Awaiting
            BY <3>3, <4>1, <5>1
          <5>3. QED
            BY <5>2
        <4>2. Len(replies') <= 1
          BY <3>3, <3>5, EmptySeq
        <4>3. \A i \in 1 .. Len(toserver') :
                Asks(toserver'[i]) => i = Len(toserver') /\ Awaiting' /\ replies' = <<>>
          BY <1>4, <3>3, <3>4, <3>5, <4>1
        <4>4. QED
          BY <2>8, <3>3, <3>5, <4>2, <4>3 DEF Lockstep, Asks
      <3>6. CASE Asks(toserver[1]) /\ Len(replies') = Len(replies) + 1
        <4>1. n = 0 /\ Awaiting
          BY <3>3, <3>6
        <4>2. toserver' = <<>> /\ Len(replies') <= 1
          BY <1>4, <3>3, <3>6, <4>1, EmptySeq
        <4>3. client'.script = <<>> => Len(client'.mails) <= Len(server'.taken)
          <5>1. \A i \in 1 .. Len(toserver') : FALSE
            BY <1>4, <4>1
          <5>2. PICK Q \in Seq(Positions) : OnTheWay(Q)'
            BY <1>7, <2>9, <3>2 DEF InStep
          <5>3. Len(Q) = 1 /\ ServerAt(Q[1])' /\ ClientAt(Q[1])'
            BY <1>1, <1>4, <3>1, <4>1, <5>2 DEF OnTheWay
          <5>4. SUFFICES ASSUME client'.script = <<>>
                         PROVE  Len(client'.mails) <= Len(server'.taken)
            OBVIOUS
          <5>5. Q[1].mail = Len(client'.mails) + 1 /\ Q[1].mail = Len(server'.taken) + 1
            BY <5>3, <5>4 DEF ClientAt, ServerAt, At
          <5>6. Len(client'.mails) \in Nat /\ Len(server'.taken) \in Nat
            BY <1>1, LenProperties DEF SmtpType, ClientType, ServerType
          <5>7. QED
            BY <5>5, <5>6
        <4>4. \A i \in 1 .. Len(toserver') : FALSE
          BY <1>4, <4>1
        <4>5. QED
          BY <2>8, <3>4, <4>1, <4>2, <4>3, <4>4 DEF Lockstep
      <3>7. QED
        BY <2>8, <3>1, <3>5, <3>6
    <2>11. MailArrives'
      <3>1. PICK taken : taken = server.taken
        OBVIOUS
      <3>2. PICK t \in Nat : t = Len(taken) /\ DOMAIN taken = 1 .. t
        BY <1>1, <3>1, LenProperties DEF SmtpType, ServerType
      <3>3. PICK count \in Nat : count = Len(client.mails)
        BY <2>6
      <3>4. /\ server.data = 0 /\ t <= count
            /\ \A i \in 1 .. t : taken[i] = Meant(client.mails[i])
            /\ ~server.long => \A i \in DOMAIN client.returned : client.returned[i] => i <= t
        BY <1>2, <1>7, <3>1, <3>2, <3>3 DEF SmtpInv, MailArrives
      <3>5. CASE server'.taken = taken
        BY <1>1, <2>8, <3>1, <3>2, <3>3, <3>4, <3>5 DEF MailArrives
      <3>6. CASE t < count /\ server'.taken = Append(taken, Meant(client.mails[t + 1]))
        <4>1. PICK mail : mail = Meant(client.mails[t + 1])
          OBVIOUS
        <4>2. mail \in [to : Nat, body : Seq(Lines)]
          <5>1. t + 1 \in 1 .. count
            BY <3>6
          <5>2. PICK m \in Mails : m = client.mails[t + 1]
            BY <1>1, <3>3, <5>1, ElementOfSeq DEF SmtpType, ClientType
          <5>3. QED
            BY <4>1, <5>2, MeantIs
        <4>3. /\ server'.taken \in Seq([to : Nat, body : Seq(Lines)])
              /\ Len(server'.taken) = t + 1 /\ server'.taken[t + 1] = mail
              /\ \A i \in 1 .. t : server'.taken[i] = taken[i]
          <5>1. taken \in Seq([to : Nat, body : Seq(Lines)])
            BY <1>1, <3>1 DEF SmtpType, ServerType
          <5>2. QED
            BY <3>2, <3>6, <4>1, <4>2, <5>1, AppendProperties
        <4>4. DOMAIN server'.taken = 1 .. t + 1
          BY <4>3, LenProperties
        <4>5. ASSUME NEW i \in DOMAIN server'.taken
              PROVE  server'.taken[i] = Meant(client'.mails[i])
          <5>1. i = t + 1 \/ i \in 1 .. t
            BY <4>4
          <5>2. QED
            BY <1>1, <3>4, <4>1, <4>3, <5>1
        <4>6. Len(server'.taken) <= Len(client'.mails)
          BY <1>1, <3>3, <3>6, <4>3
        <4>7. ~server'.long =>
                \A i \in DOMAIN client'.returned : client'.returned[i] => i <= Len(server'.taken)
          <5>1. SUFFICES ASSUME ~server'.long, NEW i \in DOMAIN client.returned,
                                client.returned[i]
                         PROVE  i <= t + 1
            BY <1>1, <4>3
          <5>2. i <= t
            BY <1>1, <3>4, <5>1
          <5>3. i \in Nat
            BY <1>1, <5>1, LenProperties DEF SmtpType, ClientType
          <5>4. QED
            BY <5>2, <5>3
        <4>8. QED
          BY <2>8, <3>4, <4>5, <4>6, <4>7 DEF MailArrives
      <3>7. QED
        BY <2>8, <3>1, <3>2, <3>3, <3>5, <3>6
    <2>12. QED
      BY <1>1, <1>5, <2>9, <2>10, <2>11 DEF SmtpInv
  <1>8. QED
    BY <1>6, <1>7

\* MailArrives of SmtpSession: what the server takes is what was meant, and a true result
\* stands for a mail that is taken.
THEOREM MailsArrive ==
  ASSUME SmtpAssumption
  PROVE  SmtpSpec => []MailArrives
  <1>1. SmtpInit => SmtpInv
    BY SmtpInitHolds
  <1>2. SmtpInv /\ [SmtpNext]_smtpvars => SmtpInv'
    <2>1. SUFFICES ASSUME SmtpInv, [SmtpNext]_smtpvars
                   PROVE  SmtpInv'
      OBVIOUS
    <2>2. ASSUME NEW body \in Bodies, NEW n \in Recipients,
                 SendMail([to |-> n[1], cc |-> n[2], body |-> body])
          PROVE  SmtpInv'
      <3>1. [to |-> n[1], cc |-> n[2], body |-> body] \in Mails
        BY DEF SmtpAssumption, Mails, Lines
      <3>2. QED
        BY <2>1, <2>2, <3>1, SendMailKeeps
    <2>3. CASE UNCHANGED smtpvars
      <3>1. client' = client /\ toserver' = toserver /\ replies' = replies /\ server' = server
        BY <2>3 DEF smtpvars
      <3>2. InStep'
        <4>1. ASSUME NEW P, OnTheWay(P) PROVE OnTheWay(P)'
          BY <3>1, <4>1 DEF OnTheWay, ClientAt, ServerAt
        <4>2. QED
          BY <2>1, <3>1, <4>1 DEF SmtpInv, InStep
      <3>3. SmtpType' /\ Lockstep' /\ MailsReturned' /\ MailArrives'
        BY <2>1, <3>1 DEF SmtpInv, SmtpType, Lockstep, Awaiting, MailsReturned, BetweenMails,
                          MailArrives
      <3>4. QED
        BY <3>2, <3>3 DEF SmtpInv
    <2>4. QED
      BY <2>1, <2>2, <2>3, SendLineKeeps, RecvLineKeeps, QuitKeeps, GreetKeeps,
         ServerReadsKeeps, ServerGoesKeeps DEF SmtpNext
  <1>3. SmtpInv => MailArrives
    BY DEF SmtpInv
  <1>4. QED
    BY <1>1, <1>2, <1>3, PTL DEF SmtpSpec

=============================================================================
