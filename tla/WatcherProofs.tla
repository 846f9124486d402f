---------------------------- MODULE WatcherProofs ----------------------------
(***************************************************************************)
(* Proofs about Watcher, for any number of files, any texts and any clock: *)
(* a content that is read is never older than its stat, a hash that is     *)
(* remembered is that of a text that was processed, and no edit is lost.   *)
(***************************************************************************)
EXTENDS Watcher, TLAPS

\* A file was last written after it was last looked for, or not since.
DatedAt(f) ==
  /\ disk[f] # Nothing => disk[f].mtime <= now
  /\ statCache[f] \in Stat => /\ statCache[f].mtime <= now
                              /\ disk[f] # Nothing => statCache[f].mtime <= disk[f].mtime
Dated == \A f \in File : DatedAt(f)

\* In a transaction, a file is looked for before it is read.
LookedFor ==
  /\ \A f \in File : readCache[f] # Nothing => statCache[f] # Nothing
  /\ phase = "build" => \A f \in todo : statCache[f] # Nothing
  /\ \A f \in changed : statCache[f] # Nothing
  /\ hashing # Nothing => statCache[hashing] \in Stat

\* Where in a transaction the variables of a look are in use.
Tidy ==
  /\ phase \notin {"find", "store"} => hashing = Nothing
  /\ phase \in {"down", "build", "flush", "idle"} => changed = {}
  /\ phase \in {"down", "idle"} => statCache = Unread /\ readCache = Unread

IInv == TypeOK /\ Dated /\ LookedFor /\ Tidy /\ ContentNotOlder

-----------------------------------------------------------------------------
\* The rest of the transaction goes on with the text that read() returns now.
Kept(f) == Read(f) # Nothing /\ (native \/ readCache[f] # Nothing)
Agreed == {f \in File : Kept(f) /\ built[f] = Read(f).text}

\* The watcher's memory is that of the text that was processed.
Matching == {f \in File : fileData[f] # Nothing => built[f] = fileData[f].hash}

\* Another look at the file in this transaction takes no note of anything.
Settled == {f \in File : \/ statCache[f] = NoStat /\ fileData[f] = Nothing
                         \/ statCache[f] \in Stat /\ LooksSame(f, statCache[f])}

\* The file will be processed, with the text the watcher remembers.
Noted == {f \in Settled : statCache[f] # NoStat => Kept(f) /\ fileData[f].hash = Read(f).text}

\* While the native parser is in use nobody writes files during a transaction.
NativeKept == native => \A f \in File : readCache[f] # Nothing => readCache[f] = disk[f]

InUse ==
  /\ changed \subseteq watched
  /\ phase \in {"build", "find", "store"} => todo \subseteq watched
  /\ phase \in {"down", "build"} => fileData = Unread

Building == phase = "build" => watched \ todo \subseteq Agreed
Finding ==
  phase = "find" =>
    /\ todo \cap changed = {} /\ hashing \notin changed \cup todo /\ hashing \in watched \cup {Nothing}
    /\ watched \ changed \subseteq Matching /\ changed \subseteq Noted
    /\ follow => watched \ (todo \cup {hashing}) \subseteq Settled
Updating ==
  phase = "update" =>
    /\ watched \ changed \subseteq Matching /\ changed \subseteq Noted
    /\ follow => watched \subseteq Settled \cup Agreed
Storing ==
  phase = "store" =>
    /\ watched \subseteq Matching /\ watched \subseteq Settled \cup Agreed
    /\ hashing # Nothing => hashing \in watched \cap Agreed
Resting == phase \in {"flush", "idle"} => watched \subseteq Matching

RInv == NativeKept /\ InUse /\ Building /\ Finding /\ Updating /\ Storing /\ Resting

-----------------------------------------------------------------------------
USE SizeAssumption, ClockAssumption, NothingAssumption, NoStatAssumption

\* A stat is neither of the marks, and that of a version is a stat.
LEMMA Stats ==
  /\ NoStat \notin Stat /\ Nothing \notin Stat /\ NoStat # Nothing
  /\ \A v \in Version : /\ StatOf(v) = (IF v = Nothing THEN NoStat ELSE [mtime |-> v.mtime, size |-> Size(v.text)])
                        /\ [mtime |-> v.mtime, size |-> Size(v.text)] \in Stat
<1>1. \A v \in Version : [mtime |-> v.mtime, size |-> Size(v.text)] \in Stat
  BY DEF Version, Stat
<1>2. Stat \subseteq [mtime : Nat, size : Nat]
  BY DEF Stat, Time
<1>3. QED
  BY <1>1, <1>2 DEF StatOf

\* Every variable keeps its type.
LEMMA TypeStep == TypeOK /\ LookedFor /\ [Next]_vars => TypeOK'
<1> SUFFICES ASSUME TypeOK, LookedFor, [Next]_vars
             PROVE  TypeOK'
  OBVIOUS
<1> USE WrittenAssumption DEF TypeOK, server, caches, watcher
<1>1. CASE Tick
  BY <1>1 DEF Tick, Time
<1>2. ASSUME NEW f \in File, Delete(f) PROVE TypeOK'
  BY <1>2 DEF Delete
<1>3. ASSUME NEW f \in File, NEW t \in Written[f], Edit(f, t) PROVE TypeOK'
  <2>1. t \in Text
    OBVIOUS
  <2>2. disk' \in [File -> Version \cup {Nothing}]
    BY <1>3, <2>1 DEF Edit, Version
  <2>3. QED
    BY <1>3, <2>2 DEF Edit
<1>4. ASSUME NEW sources \in SUBSET File, Start(sources) PROVE TypeOK'
  BY <1>4, Stats DEF Start, StatOrNone, StatOf
<1>5. ASSUME NEW f \in File, Build(f) PROVE TypeOK'
  BY <1>5 DEF Build, Parse, Source, Read, CacheRead, Version
<1>6. ASSUME NEW f \in File, BuildFails(f) \/ Crash(f) PROVE TypeOK'
  BY <1>6 DEF BuildFails, Crash, GiveUp, FlushCaches, Unread
<1>7. CASE Built \/ Check \/ Found \/ Updated \/ Stored
  BY <1>7 DEF Built, Check, Found, Updated, Stored
<1>8. ASSUME NEW update \in SUBSET File, NEW remove \in SUBSET (File \ update), Recheck(update, remove) PROVE TypeOK'
  BY <1>8 DEF Recheck
<1>9. ASSUME NEW f \in File, Look(f) PROVE TypeOK'
  BY <1>9, Stats DEF Look, CacheStat, StatOrNone, StatOf
<1>10. ASSUME NEW f \in File, Hash(f) PROVE TypeOK'
  BY <1>10 DEF LookedFor, Hash, CacheRead, Read, Version, Stat, FileData
<1>11. ASSUME NEW f \in File, Update(f) PROVE TypeOK'
  BY <1>11 DEF Update, Parse, Source, Read, CacheRead, Version
<1>12. ASSUME NEW f \in File, Discover(f) PROVE TypeOK'
  BY <1>12, Stats DEF Discover, CacheStat, StatOrNone, StatOf
<1>13. ASSUME NEW f \in File, Load(f) PROVE TypeOK'
  BY <1>13 DEF Load, Parse, Source, Read, CacheRead, Version
<1>14. CASE Flush
  BY <1>14 DEF Flush, FlushCaches, Unread
<1>15. CASE UNCHANGED vars
  BY <1>15 DEF vars
<1>16. QED
  BY <1>1, <1>2, <1>3, <1>4, <1>5, <1>6, <1>7, <1>8, <1>9, <1>10, <1>11, <1>12, <1>13, <1>14, <1>15 DEF Next

-----------------------------------------------------------------------------
\* What a look at a file does to the cache: only a file that has not been looked
\* for gets a new stat, that of the file as it is now.
LEMMA CachedStat ==
  ASSUME IInv, NEW f \in File, CacheStat(f), UNCHANGED <<disk, now, readCache>>
  PROVE  /\ \A g \in File : statCache[g] # Nothing => statCache'[g] = statCache[g]
         /\ \A g \in File : g # f => statCache'[g] = statCache[g]
         /\ statCache'[f] = StatOrNone(f) /\ statCache'[f] \in Stat \cup {NoStat}
         /\ Dated' /\ ContentNotOlder'
<1> USE DEF IInv, TypeOK
<1>1. /\ statCache' = [statCache EXCEPT ![f] = StatOrNone(f)]
      /\ StatOrNone(f) \in Stat \cup {NoStat}
      /\ statCache[f] = Nothing => StatOrNone(f) = StatOf(disk[f])
      /\ statCache[f] # Nothing => StatOrNone(f) = statCache[f]
  BY Stats DEF CacheStat, StatOrNone, StatOf
<1>2. statCache[f] = Nothing /\ StatOf(disk[f]) \in Stat => disk[f] # Nothing /\ StatOf(disk[f]).mtime = disk[f].mtime
  BY Stats DEF StatOf
<1>3. Dated'
  <2> SUFFICES ASSUME NEW g \in File PROVE DatedAt(g)'
    BY DEF Dated
  <2>1. DatedAt(g)
    BY DEF Dated
  <2>2. CASE g # f \/ statCache[f] # Nothing
    BY <1>1, <2>1, <2>2 DEF DatedAt
  <2>3. CASE g = f /\ statCache[f] = Nothing
    BY <1>1, <1>2, <2>1, <2>3 DEF DatedAt, Time, Version
  <2>4. QED
    BY <2>2, <2>3
<1>4. ContentNotOlder'
  <2> SUFFICES ASSUME NEW g \in File, readCache[g] # Nothing, statCache'[g] \in Stat
               PROVE  readCache[g].mtime >= statCache'[g].mtime
    BY DEF ContentNotOlder
  <2>1. statCache[g] # Nothing
    BY DEF LookedFor
  <2>2. statCache'[g] = statCache[g]
    BY <1>1, <2>1
  <2>3. QED
    BY <2>2 DEF ContentNotOlder
<1>5. QED
  BY <1>1, <1>3, <1>4

\* A file that has been looked for is read as it is now, or as it was read before.
LEMMA CachedRead ==
  ASSUME IInv, NEW f \in File, CacheRead(f), statCache[f] # Nothing, UNCHANGED <<disk, now, statCache>>
  PROVE  /\ Dated' /\ ContentNotOlder'
         /\ \A g \in File : readCache'[g] # Nothing => statCache[g] # Nothing
<1> USE DEF IInv, TypeOK
<1>1. readCache' = [readCache EXCEPT ![f] = Read(f)] /\ (readCache[f] # Nothing => Read(f) = readCache[f])
  BY DEF CacheRead, Read
<1>2. readCache[f] = Nothing => Read(f) = disk[f]
  BY DEF Read
<1>3. Dated'
  BY DEF Dated, DatedAt
<1>4. ContentNotOlder'
  <2> SUFFICES ASSUME NEW g \in File, readCache'[g] # Nothing, statCache[g] \in Stat
               PROVE  readCache'[g].mtime >= statCache[g].mtime
    BY DEF ContentNotOlder
  <2>1. CASE readCache'[g] = readCache[g]
    BY <2>1 DEF ContentNotOlder
  <2>2. CASE readCache'[g] # readCache[g]
    <3>1. g = f /\ readCache'[g] = disk[g] /\ disk[g] # Nothing
      BY <1>1, <1>2, <2>2
    <3>2. statCache[g].mtime <= disk[g].mtime
      BY <3>1 DEF Dated, DatedAt
    <3>3. disk[g] \in Version /\ statCache[g].mtime \in Nat /\ disk[g].mtime \in Nat
      BY <3>1 DEF Version, Stat, Time
    <3>4. QED
      BY <3>1, <3>2, <3>3
  <2>3. QED
    BY <2>1, <2>2
<1>5. QED
  BY <1>1, <1>3, <1>4 DEF LookedFor

\* The invariant is inductive.
LEMMA InvStep == IInv /\ [Next]_vars => IInv'
<1> SUFFICES ASSUME IInv, [Next]_vars
             PROVE  Dated' /\ LookedFor' /\ Tidy' /\ ContentNotOlder'
  BY TypeStep DEF IInv
<1> USE DEF server, caches, watcher
<1>1. CASE Tick
  <2>1. Dated'
    BY <1>1 DEF Tick, IInv, TypeOK, Dated, DatedAt, Version, Stat, Time
  <2>2. QED
    BY <1>1, <2>1 DEF Tick, IInv, LookedFor, Tidy, ContentNotOlder
<1>2. ASSUME NEW f \in File, Delete(f)
      PROVE  Dated' /\ LookedFor' /\ Tidy' /\ ContentNotOlder'
  BY <1>2 DEF Delete, IInv, TypeOK, Dated, DatedAt, LookedFor, Tidy, ContentNotOlder
<1>3. ASSUME NEW f \in File, NEW t \in Written[f], Edit(f, t)
      PROVE  Dated' /\ LookedFor' /\ Tidy' /\ ContentNotOlder'
  <2>1. Dated'
    BY <1>3 DEF Edit, IInv, TypeOK, Dated, DatedAt, Time
  <2>2. QED
    BY <1>3, <2>1 DEF Edit, IInv, LookedFor, Tidy, ContentNotOlder
<1>4. ASSUME NEW sources \in SUBSET File, Start(sources)
      PROVE  Dated' /\ LookedFor' /\ Tidy' /\ ContentNotOlder'
  <2>1. statCache = Unread /\ readCache = Unread /\ hashing = Nothing /\ changed = {}
    BY <1>4 DEF Start, IInv, Tidy
  <2>2. \A f \in File : statCache'[f] = IF f \in sources THEN StatOf(disk[f]) ELSE Nothing
    BY <1>4, <2>1 DEF Start, StatOrNone, Unread
  <2>3. \A f \in sources : /\ disk[f] \in Version /\ disk[f].mtime <= now /\ disk[f].mtime \in Nat
                           /\ StatOf(disk[f]) \in Stat /\ StatOf(disk[f]).mtime = disk[f].mtime
    <3> SUFFICES ASSUME NEW f \in sources
                 PROVE  /\ disk[f] \in Version /\ disk[f].mtime <= now /\ disk[f].mtime \in Nat
                        /\ StatOf(disk[f]) \in Stat /\ StatOf(disk[f]).mtime = disk[f].mtime
      OBVIOUS
    <3>1. disk[f] \in Version /\ disk[f] # Nothing /\ disk[f].mtime <= now
      BY <1>4 DEF Start, IInv, TypeOK, Dated, DatedAt
    <3>2. disk[f].mtime \in Nat
      BY <3>1 DEF Version, Time
    <3>3. StatOf(disk[f]) = [mtime |-> disk[f].mtime, size |-> Size(disk[f].text)] /\ StatOf(disk[f]) \in Stat
      BY <3>1, Stats
    <3>4. QED
      BY <3>1, <3>2, <3>3
  <2>4. Dated'
    <3> SUFFICES ASSUME NEW f \in File PROVE DatedAt(f)'
      BY DEF Dated
    <3>1. DatedAt(f)
      BY DEF IInv, Dated
    <3>2. QED
      BY <1>4, <2>2, <2>3, <3>1, Stats DEF Start, DatedAt
  <2>5. LookedFor'
    BY <1>4, <2>1, <2>2, <2>3, Stats DEF Start, LookedFor, Unread
  <2>6. QED
    BY <1>4, <2>1, <2>4, <2>5 DEF Start, Tidy, ContentNotOlder, Unread
<1>5. ASSUME NEW f \in File, Build(f)
      PROVE  Dated' /\ LookedFor' /\ Tidy' /\ ContentNotOlder'
  <2>1. statCache[f] # Nothing
    BY <1>5 DEF Build, IInv, LookedFor
  <2>2. CASE native
    BY <1>5, <2>2 DEF Build, Parse, IInv, Dated, DatedAt, LookedFor, Tidy, ContentNotOlder
  <2>3. CASE CacheRead(f)
    BY <1>5, <2>1, <2>3, CachedRead DEF Build, IInv, LookedFor, Tidy
  <2>4. QED
    BY <1>5, <2>2, <2>3 DEF Build, Parse, IInv
<1>6. ASSUME NEW f \in File, BuildFails(f) \/ Crash(f)
      PROVE  Dated' /\ LookedFor' /\ Tidy' /\ ContentNotOlder'
  BY <1>6, Stats DEF BuildFails, Crash, GiveUp, FlushCaches, Unread, IInv, Dated, DatedAt, LookedFor, Tidy, ContentNotOlder
<1>7. CASE Built \/ Found \/ Updated \/ Stored
  BY <1>7 DEF Built, Found, Updated, Stored, IInv, Dated, DatedAt, LookedFor, Tidy, ContentNotOlder
<1>8. CASE Check
  BY <1>8 DEF Check, IInv, Dated, DatedAt, LookedFor, Tidy, ContentNotOlder
<1>9. ASSUME NEW update \in SUBSET File, NEW remove \in SUBSET (File \ update), Recheck(update, remove)
      PROVE  Dated' /\ LookedFor' /\ Tidy' /\ ContentNotOlder'
  BY <1>9 DEF Recheck, IInv, Dated, DatedAt, LookedFor, Tidy, ContentNotOlder
<1>10. ASSUME NEW f \in File, Look(f)
       PROVE  Dated' /\ LookedFor' /\ Tidy' /\ ContentNotOlder'
  <2>1. /\ \A g \in File : statCache[g] # Nothing => statCache'[g] = statCache[g]
        /\ statCache'[f] = StatOrNone(f) /\ statCache'[f] \in Stat \cup {NoStat}
        /\ Dated' /\ ContentNotOlder'
    BY <1>10, CachedStat DEF Look
  <2>2. LookedFor'
    BY <1>10, <2>1, Stats DEF Look, IInv, TypeOK, LookedFor
  <2>3. QED
    BY <1>10, <2>1, <2>2 DEF Look, IInv, Tidy
<1>11. ASSUME NEW f \in File, Hash(f)
       PROVE  Dated' /\ LookedFor' /\ Tidy' /\ ContentNotOlder'
  <2>1. statCache[f] # Nothing
    BY <1>11, Stats DEF Hash, IInv, LookedFor
  <2>2. Dated' /\ ContentNotOlder' /\ \A g \in File : readCache'[g] # Nothing => statCache[g] # Nothing
    BY <1>11, <2>1, CachedRead DEF Hash
  <2>3. changed' \subseteq changed \cup {f}
    BY <1>11 DEF Hash
  <2>4. QED
    BY <1>11, <2>1, <2>2, <2>3 DEF Hash, IInv, LookedFor, Tidy
<1>12. ASSUME NEW f \in File, Update(f)
       PROVE  Dated' /\ LookedFor' /\ Tidy' /\ ContentNotOlder'
  <2>1. statCache[f] # Nothing
    BY <1>12 DEF Update, IInv, LookedFor
  <2>2. CASE UNCHANGED readCache
    BY <1>12, <2>2 DEF Update, IInv, Dated, DatedAt, LookedFor, Tidy, ContentNotOlder
  <2>3. CASE CacheRead(f)
    BY <1>12, <2>1, <2>3, CachedRead DEF Update, IInv, LookedFor, Tidy
  <2>4. QED
    BY <1>12, <2>2, <2>3 DEF Update, Parse
<1>13. ASSUME NEW f \in File, Discover(f)
       PROVE  Dated' /\ LookedFor' /\ Tidy' /\ ContentNotOlder'
  <2>1. /\ \A g \in File : statCache[g] # Nothing => statCache'[g] = statCache[g]
        /\ Dated' /\ ContentNotOlder'
    BY <1>13, CachedStat DEF Discover
  <2>2. LookedFor'
    BY <1>13, <2>1, Stats DEF Discover, IInv, TypeOK, LookedFor
  <2>3. QED
    BY <1>13, <2>1, <2>2 DEF Discover, IInv, Tidy
<1>14. ASSUME NEW f \in File, Load(f)
       PROVE  Dated' /\ LookedFor' /\ Tidy' /\ ContentNotOlder'
  <2>1. statCache[f] # Nothing
    BY <1>14 DEF Load
  <2>2. CASE UNCHANGED readCache
    BY <1>14, <2>2 DEF Load, IInv, Dated, DatedAt, LookedFor, Tidy, ContentNotOlder
  <2>3. CASE CacheRead(f)
    BY <1>14, <2>1, <2>3, CachedRead DEF Load, IInv, LookedFor, Tidy
  <2>4. QED
    BY <1>14, <2>2, <2>3 DEF Load, Parse
<1>15. CASE Flush
  BY <1>15, Stats DEF Flush, FlushCaches, Unread, IInv, TypeOK, Dated, DatedAt, LookedFor, Tidy, ContentNotOlder
<1>16. CASE UNCHANGED vars
  BY <1>16 DEF vars, IInv, Dated, DatedAt, LookedFor, Tidy, ContentNotOlder
<1>17. QED
  BY <1>1, <1>2, <1>3, <1>4, <1>5, <1>6, <1>7, <1>8, <1>9, <1>10, <1>11, <1>12, <1>13, <1>14, <1>15, <1>16 DEF Next

\* The invariant holds before the first request.
LEMMA InitInv == Init => IInv
<1> SUFFICES ASSUME Init PROVE IInv
  OBVIOUS
<1>1. TypeOK
  BY DEF Init, TypeOK, Unread, Version, Time
<1>2. Dated
  BY <1>1, Stats DEF Init, TypeOK, Dated, DatedAt, Unread, Version
<1>3. QED
  BY <1>1, <1>2 DEF Init, IInv, LookedFor, Tidy, ContentNotOlder, Unread

\* "The contents of the file are always from the same or later time compared to the
\* reported mtime of the file, even if mtime is queried after reading a file": for
\* any files, texts and edits, with either parser.
THEOREM AlwaysContentNotOlder == Spec => []ContentNotOlder
<1>1. Init => IInv
  BY InitInv
<1>2. IInv /\ [Next]_vars => IInv'
  BY InvStep
<1>3. IInv => ContentNotOlder
  BY DEF IInv
<1>4. QED
  BY <1>1, <1>2, <1>3, PTL DEF Spec

-----------------------------------------------------------------------------
(* Remembered hashes. *)

\* What is said of files is about those files alone.
LEMMA Alone ==
  ASSUME NEW F \in SUBSET File, native' = native,
         \A f \in F : /\ disk'[f] = disk[f] /\ readCache'[f] = readCache[f] /\ statCache'[f] = statCache[f]
                      /\ fileData'[f] = fileData[f] /\ built'[f] = built[f]
  PROVE  \A f \in F : /\ f \in Agreed' <=> f \in Agreed
                      /\ f \in Matching' <=> f \in Matching
                      /\ f \in Settled' <=> f \in Settled
                      /\ f \in Noted' <=> f \in Noted
<1> SUFFICES ASSUME NEW f \in F
             PROVE  /\ f \in Agreed' <=> f \in Agreed
                    /\ f \in Matching' <=> f \in Matching
                    /\ f \in Settled' <=> f \in Settled
                    /\ f \in Noted' <=> f \in Noted
  OBVIOUS
<1>1. Read(f)' = Read(f)
  BY DEF Read
<1>2. f \in Settled' <=> f \in Settled
  BY DEF Settled, LooksSame
<1>3. QED
  BY <1>1, <1>2 DEF Agreed, Kept, Matching, Noted

\* An edit in a transaction changes no text that is kept.
LEMMA Edited ==
  ASSUME IInv, RInv, UNCHANGED <<server, caches, watcher, built>>,
         native => disk' = disk \/ phase \in {"down", "idle"}
  PROVE  RInv'
<1> USE DEF server, caches, watcher
<1>1. NativeKept'
  BY DEF IInv, Tidy, RInv, NativeKept, Unread
<1>2. ASSUME phase \notin {"down", "idle"}, NEW f \in File
      PROVE  /\ f \in Agreed => f \in Agreed'
             /\ f \in Noted => f \in Noted'
  <2>1. Kept(f) => Kept(f)' /\ Read(f)' = Read(f)
    BY <1>2 DEF Kept, Read
  <2>2. QED
    BY <2>1 DEF Agreed, Noted, Settled, LooksSame
<1>3. \A f \in File : (f \in Matching' <=> f \in Matching) /\ (f \in Settled' <=> f \in Settled)
  BY DEF Matching, Settled, LooksSame
<1>4. QED
  BY <1>1, <1>2, <1>3
  DEF RInv, InUse, Building, Finding, Updating, Storing, Resting, IInv, TypeOK

\* What a file is processed with is what is kept.
LEMMA Parsed ==
  ASSUME IInv, RInv, NEW f \in File, Parse(f), UNCHANGED <<disk, native>>
  PROVE  /\ NativeKept' /\ f \in Agreed'
         /\ Kept(f) => Read(f)' = Read(f)
         /\ \A g \in File : g # f => readCache'[g] = readCache[g] /\ built'[g] = built[g]
<1> USE DEF IInv, TypeOK
<1>1. /\ Source(f) # Nothing
      /\ built' = [built EXCEPT ![f] = Source(f).text]
      /\ native => UNCHANGED readCache
      /\ ~native => readCache' = [readCache EXCEPT ![f] = Read(f)]
  BY DEF Parse, CacheRead
<1>2. CASE native
  <2>1. Read(f) = disk[f] /\ Read(f)' = Read(f) /\ Source(f) = Read(f)
    BY <1>1, <1>2 DEF RInv, NativeKept, Read, Source
  <2>2. QED
    BY <1>1, <1>2, <2>1 DEF RInv, NativeKept, Agreed, Kept
<1>3. CASE ~native
  <2>1. Source(f) = Read(f) /\ readCache'[f] = Read(f) /\ Read(f)' = Read(f)
    BY <1>1, <1>3 DEF Source, Read
  <2>2. QED
    BY <1>1, <1>3, <2>1 DEF NativeKept, Agreed, Kept
<1>4. QED
  BY <1>2, <1>3

\* Remembering what has been processed is inductive as long as nobody writes files
\* while the native parser works.
LEMMA RememberStep == TRUE \notin BusyEdits /\ IInv /\ RInv /\ [Next]_vars => RInv'
<1> SUFFICES ASSUME TRUE \notin BusyEdits, IInv, RInv, [Next]_vars
             PROVE  RInv'
  OBVIOUS
<1> USE DEF server, caches, watcher
<1>1. CASE Tick
  BY <1>1, Edited DEF Tick
<1>2. ASSUME NEW f \in File, Delete(f) PROVE RInv'
  BY <1>2, Edited DEF Delete, MayWrite, IInv, TypeOK
<1>3. ASSUME NEW f \in File, NEW t \in Written[f], Edit(f, t) PROVE RInv'
  BY <1>3, Edited DEF Edit, MayWrite, IInv, TypeOK
<1>4. ASSUME NEW sources \in SUBSET File, Start(sources) PROVE RInv'
  BY <1>4 DEF Start, IInv, Tidy, RInv, NativeKept, InUse, Building, Finding, Updating, Storing, Resting
<1>5. ASSUME NEW f \in File, Build(f) PROVE RInv'
  <2>1. f \in Agreed' /\ NativeKept'
    BY <1>5, Parsed DEF Build
  <2>2. ASSUME NEW g \in watched \ todo', g # f PROVE g \in Agreed'
    <3>1. g \in File /\ g \in Agreed
      BY <1>5, <2>2 DEF Build, IInv, TypeOK, RInv, Building
    <3>2. QED
      BY <1>5, <2>2, <3>1, Parsed, Alone DEF Build
  <2>3. QED
    BY <1>5, <2>1, <2>2 DEF Build, RInv, InUse, Building, Finding, Updating, Storing, Resting
<1>6. ASSUME NEW f \in File, BuildFails(f) \/ Crash(f) PROVE RInv'
  BY <1>6 DEF BuildFails, Crash, GiveUp, FlushCaches, Unread, RInv, NativeKept, InUse, Building, Finding, Updating, Storing, Resting
<1>7. CASE Built
  <2>1. \A f \in File : f \in Agreed' <=> f \in Agreed
    BY <1>7, Alone DEF Built
  <2>2. \A f \in watched : f \in Agreed' /\ fileData[f] = Nothing
    BY <1>7, <2>1 DEF Built, RInv, Building, InUse, Unread, IInv, TypeOK
  <2>3. \A f \in watched : f \in Matching'
    BY <1>7, <2>2 DEF Built, Matching, IInv, TypeOK
  <2>4. Storing' /\ InUse'
    BY <1>7, <2>2, <2>3 DEF Built, IInv, TypeOK, Tidy, RInv, InUse, Storing
  <2>5. QED
    BY <1>7, <2>4 DEF Built, RInv, NativeKept, Building, Finding, Updating, Resting
<1>8. CASE Check
  BY <1>8 DEF Check, IInv, TypeOK, Tidy, RInv, NativeKept, InUse, Building, Finding, Updating, Storing, Resting, Matching
<1>9. ASSUME NEW update \in SUBSET File, NEW remove \in SUBSET (File \ update), Recheck(update, remove) PROVE RInv'
  <2>1. \A f \in watched' : f \in Matching'
    BY <1>9 DEF Recheck, IInv, TypeOK, RInv, Resting, Matching
  <2>2. QED
    BY <1>9, <2>1 DEF Recheck, IInv, TypeOK, Tidy, RInv, NativeKept, InUse, Building, Finding, Updating, Storing, Resting
<1>10. ASSUME NEW f \in File, Look(f) PROVE RInv'
  <2>1. /\ f \in todo /\ f \in watched /\ hashing = Nothing /\ changed \subseteq watched /\ watched \subseteq File
        /\ todo' = todo \ {f} /\ changed' \in {changed, changed \cup {f}} /\ hashing' \in {Nothing, f}
        /\ UNCHANGED <<disk, native, phase, follow, readCache, watched, built>>
    BY <1>10 DEF Look, IInv, TypeOK, RInv, InUse
  <2>2. /\ \A g \in File : g # f => statCache'[g] = statCache[g] /\ fileData'[g] = fileData[g]
        /\ statCache'[f] = StatOrNone(f) /\ statCache'[f] \in Stat \cup {NoStat}
    BY <1>10, CachedStat DEF Look, IInv, TypeOK
  <2>3. \A g \in File \ {f} : /\ g \in Agreed' <=> g \in Agreed
                              /\ g \in Matching' <=> g \in Matching
                              /\ g \in Settled' <=> g \in Settled
                              /\ g \in Noted' <=> g \in Noted
    BY <2>1, <2>2, Alone
  <2>4. f \in Agreed' <=> f \in Agreed
    BY <2>1 DEF Agreed, Kept, Read
  <2>5. f \in Matching => f \in Matching'
    BY <1>10 DEF Look, Matching, IInv, TypeOK
  <2>6. /\ hashing' = f => f \notin changed' \/ f \in changed
        /\ hashing' # f => f \in Settled'
        /\ f \in changed' => f \in changed \/ f \in Noted'
        /\ hashing' = f => f \notin Settled
    <3>1. CASE StatOrNone(f) = NoStat
      <4>1. statCache'[f] = NoStat /\ fileData'[f] = Nothing /\ hashing' = Nothing
        BY <1>10, <2>1, <2>2, <3>1 DEF Look, IInv, TypeOK
      <4>2. QED
        BY <4>1 DEF Settled, Noted
    <3>2. CASE StatOrNone(f) # NoStat /\ LooksSame(f, StatOrNone(f))
      <4>1. fileData' = fileData /\ changed' = changed /\ hashing' = Nothing /\ statCache'[f] \in Stat
        BY <1>10, <2>1, <2>2, <3>2 DEF Look
      <4>2. f \in Settled'
        BY <2>2, <3>2, <4>1 DEF Settled, LooksSame
      <4>3. QED
        BY <4>1, <4>2
    <3>3. CASE StatOrNone(f) # NoStat /\ ~LooksSame(f, StatOrNone(f))
      <4>1. changed' = changed /\ hashing' = f
        BY <1>10, <3>3 DEF Look
      <4>2. f \notin Settled
        BY <3>3, Stats DEF Settled, StatOrNone
      <4>3. QED
        BY <4>1, <4>2
    <3>4. QED
      BY <3>1, <3>2, <3>3
  <2>7. Finding'
    BY <2>1, <2>3, <2>5, <2>6 DEF Finding, RInv, IInv, TypeOK
  <2>8. Storing'
    BY <2>1, <2>3, <2>4, <2>5, <2>6 DEF Storing, RInv
  <2>9. QED
    BY <1>10, <2>1, <2>7, <2>8 DEF Look, RInv, NativeKept, InUse, Building, Updating, Resting
<1>11. ASSUME NEW f \in File, Hash(f) PROVE RInv'
  <2>1. /\ hashing = f /\ hashing' = Nothing /\ phase \in {"find", "store"} /\ statCache[f] \in Stat
        /\ Read(f) # Nothing /\ readCache' = [readCache EXCEPT ![f] = Read(f)]
        /\ UNCHANGED <<disk, native, phase, follow, todo, statCache, watched, built>>
        /\ watched \subseteq File /\ changed \subseteq watched
    BY <1>11 DEF Hash, CacheRead, IInv, TypeOK, Tidy, LookedFor, RInv, InUse
  <2>2. Read(f)' = Read(f) /\ Kept(f)' /\ NativeKept'
    BY <2>1 DEF Read, Kept, NativeKept, RInv, IInv, TypeOK
  <2>3. /\ fileData'[f] = [mtime |-> statCache[f].mtime, size |-> statCache[f].size, hash |-> Read(f).text]
        /\ \A g \in File \ {f} : fileData'[g] = fileData[g]
        /\ \/ changed' = changed \cup {f}
           \/ changed' = changed /\ fileData[f] # Nothing /\ Read(f).text = fileData[f].hash
    <3>1. fileData' = [fileData EXCEPT ![f] =
             [mtime |-> statCache[f].mtime, size |-> statCache[f].size, hash |-> Read(f).text]]
      BY <1>11 DEF Hash
    <3>2. \/ changed' = changed \cup {f}
          \/ changed' = changed /\ fileData[f] # Nothing /\ Read(f).text = fileData[f].hash
      BY <1>11 DEF Hash
    <3>3. fileData \in [File -> FileData \cup {Nothing}]
      BY DEF IInv, TypeOK
    <3>4. /\ fileData'[f] = [mtime |-> statCache[f].mtime, size |-> statCache[f].size, hash |-> Read(f).text]
          /\ \A g \in File \ {f} : fileData'[g] = fileData[g]
      BY <3>1, <3>3
    <3>5. QED
      BY <3>2, <3>4
  <2>4. \A g \in File \ {f} : /\ g \in Agreed' <=> g \in Agreed
                              /\ g \in Matching' <=> g \in Matching
                              /\ g \in Settled' <=> g \in Settled
                              /\ g \in Noted' <=> g \in Noted
    BY <2>1, <2>3, Alone DEF IInv, TypeOK
  <2>5. f \in Settled' /\ f \in Noted'
    <3>1. fileData'[f] # Nothing
      <4>1. statCache[f].mtime \in Nat /\ statCache[f].size \in Nat
        BY <2>1 DEF Stat, Time
      <4>2. Read(f).text \in Text
        BY <2>1 DEF Read, Version, IInv, TypeOK
      <4>3. QED
        BY <2>3, <4>1, <4>2
    <3>2. f \in Settled'
      BY <2>1, <2>3, <3>1 DEF Settled, LooksSame
    <3>3. QED
      BY <2>2, <2>3, <3>2 DEF Noted
  <2>6. f \in watched
    BY <2>1 DEF RInv, Finding, Storing
  <2>7. Finding'
    <3>1. CASE phase = "find"
      <4>1. f \notin changed \cup todo /\ f \in Matching
        BY <2>1, <2>6, <3>1 DEF RInv, Finding
      <4>2. f \notin changed' => f \in Matching'
        BY <2>1, <2>3, <4>1 DEF Matching
      <4>3. QED
        BY <2>1, <2>3, <2>4, <2>5, <2>6, <3>1, <4>1, <4>2 DEF RInv, Finding, IInv, TypeOK
    <3>2. QED
      BY <2>1, <3>1 DEF Finding
  <2>8. Storing'
    <3>1. phase = "store" => f \in Matching'
      BY <2>1, <2>3 DEF RInv, Storing, Agreed, Matching
    <3>2. QED
      BY <2>1, <2>4, <2>5, <3>1 DEF RInv, Storing
  <2>9. QED
    BY <2>1, <2>2, <2>3, <2>6, <2>7, <2>8 DEF RInv, InUse, Building, Updating, Resting
<1>12. ASSUME NEW f \in File, Update(f) PROVE RInv'
  <2>1. /\ phase = "update" /\ f \in changed /\ changed' = changed \ {f}
        /\ UNCHANGED <<disk, native, phase, follow, todo, hashing, statCache, watched, fileData>>
        /\ watched \subseteq File /\ changed \subseteq watched
        /\ f \in Settled /\ f \in Noted
    BY <1>12 DEF Update, IInv, TypeOK, RInv, InUse, Updating, Noted
  <2>2. NativeKept' /\ f \in Matching' /\ \A g \in File : g # f => readCache'[g] = readCache[g] /\ built'[g] = built[g]
    <3>1. CASE statCache[f] = NoStat
      BY <1>12, <2>1, <3>1, Stats DEF Update, Settled, Matching, RInv, NativeKept, IInv, TypeOK
    <3>2. CASE statCache[f] # NoStat
      <4>1. f \in Agreed' /\ NativeKept' /\ Read(f)' = Read(f) /\ fileData[f].hash = Read(f).text
            /\ \A g \in File : g # f => readCache'[g] = readCache[g] /\ built'[g] = built[g]
        BY <1>12, <2>1, <3>2, Parsed DEF Update, Noted
      <4>2. QED
        BY <2>1, <4>1 DEF Agreed, Matching
    <3>3. QED
      BY <3>1, <3>2
  <2>3. \A g \in File \ {f} : /\ g \in Agreed' <=> g \in Agreed
                              /\ g \in Matching' <=> g \in Matching
                              /\ g \in Settled' <=> g \in Settled
                              /\ g \in Noted' <=> g \in Noted
    BY <2>1, <2>2, Alone
  <2>4. f \in Settled'
    BY <2>1 DEF Settled, LooksSame
  <2>5. Updating'
    BY <2>1, <2>2, <2>3, <2>4 DEF RInv, Updating
  <2>6. QED
    BY <2>1, <2>2, <2>5 DEF RInv, InUse, Building, Finding, Storing, Resting
<1>13. ASSUME NEW f \in File, Discover(f) PROVE RInv'
  <2>1. /\ phase = "update" /\ f \notin watched /\ watched \subseteq File /\ changed \subseteq watched
        /\ UNCHANGED <<disk, native, phase, follow, todo, hashing, changed, readCache, watched, fileData, built>>
        /\ \A g \in File : g # f => statCache'[g] = statCache[g]
    BY <1>13, CachedStat DEF Discover, IInv, TypeOK, RInv, InUse
  <2>2. \A g \in watched : /\ g \in Agreed' <=> g \in Agreed
                           /\ g \in Matching' <=> g \in Matching
                           /\ g \in Settled' <=> g \in Settled
                           /\ g \in Noted' <=> g \in Noted
    BY <2>1, Alone
  <2>3. QED
    BY <2>1, <2>2 DEF RInv, NativeKept, InUse, Building, Finding, Updating, Storing, Resting
<1>14. ASSUME NEW f \in File, Load(f) PROVE RInv'
  <2>1. /\ phase = "update" /\ f \notin watched /\ watched \subseteq File /\ changed \subseteq watched
        /\ UNCHANGED <<disk, native, phase, follow, todo, hashing, changed, statCache>>
        /\ watched' = watched \cup {f} /\ fileData'[f] = Nothing /\ \A g \in watched : fileData'[g] = fileData[g]
    BY <1>14 DEF Load, IInv, TypeOK, RInv, InUse
  <2>2. f \in Agreed' /\ NativeKept' /\ \A g \in File : g # f => readCache'[g] = readCache[g] /\ built'[g] = built[g]
    BY <1>14, <2>1, Parsed DEF Load
  <2>3. \A g \in watched : /\ g \in Agreed' <=> g \in Agreed
                           /\ g \in Matching' <=> g \in Matching
                           /\ g \in Settled' <=> g \in Settled
                           /\ g \in Noted' <=> g \in Noted
    BY <2>1, <2>2, Alone
  <2>4. f \in Matching'
    BY <2>1 DEF Matching
  <2>5. QED
    BY <2>1, <2>2, <2>3, <2>4 DEF RInv, InUse, Building, Finding, Updating, Storing, Resting
<1>15. CASE Found \/ Updated \/ Stored
  <2>1. \A f \in File : /\ f \in Agreed' <=> f \in Agreed
                        /\ f \in Matching' <=> f \in Matching
                        /\ f \in Settled' <=> f \in Settled
                        /\ f \in Noted' <=> f \in Noted
    BY <1>15, Alone DEF Found, Updated, Stored
  <2>2. CASE Found
    BY <2>1, <2>2 DEF Found, IInv, TypeOK, RInv, NativeKept, InUse, Building, Finding, Updating, Storing, Resting
  <2>3. CASE Updated
    BY <2>1, <2>3 DEF Updated, IInv, TypeOK, Tidy, RInv, NativeKept, InUse, Building, Finding, Updating, Storing, Resting
  <2>4. CASE Stored
    BY <2>1, <2>4 DEF Stored, IInv, TypeOK, RInv, NativeKept, InUse, Building, Finding, Updating, Storing, Resting
  <2>5. QED
    BY <1>15, <2>2, <2>3, <2>4
<1>16. CASE Flush
  BY <1>16 DEF Flush, FlushCaches, Unread, IInv, Tidy, RInv, NativeKept, InUse, Building, Finding, Updating, Storing, Resting, Matching
<1>17. CASE UNCHANGED vars
  <2>1. \A f \in File : /\ f \in Agreed' <=> f \in Agreed
                        /\ f \in Matching' <=> f \in Matching
                        /\ f \in Settled' <=> f \in Settled
                        /\ f \in Noted' <=> f \in Noted
    BY <1>17, Alone DEF vars
  <2>2. QED
    BY <1>17, <2>1 DEF vars, IInv, TypeOK, RInv, NativeKept, InUse, Building, Finding, Updating, Storing, Resting
<1>18. QED
  BY <1>1, <1>2, <1>3, <1>4, <1>5, <1>6, <1>7, <1>8, <1>9, <1>10, <1>11, <1>12, <1>13, <1>14, <1>15, <1>16, <1>17 DEF Next

\* Nothing is remembered before the first request.
LEMMA InitRemember == Init => RInv
BY DEF Init, Unread, RInv, NativeKept, InUse, Building, Finding, Updating, Storing, Resting

\* Between requests, a hash that the watcher remembers is that of the text that was
\* processed, provided that nobody writes files while the native parser works.
THEOREM AlwaysRememberedIsBuilt ==
  ASSUME TRUE \notin BusyEdits
  PROVE  Spec => []RememberedIsBuilt
<1>1. Init => IInv /\ RInv
  BY InitInv, InitRemember
<1>2. IInv /\ RInv /\ [Next]_vars => IInv' /\ RInv'
  BY InvStep, RememberStep
<1>3. RInv => RememberedIsBuilt
  BY DEF RInv, Resting, Matching, RememberedIsBuilt
<1>4. QED
  BY <1>1, <1>2, <1>3, PTL DEF Spec

(***************************************************************************)
(* No edit is lost: after a request, the build has processed every watched *)
(* file that nobody has written meanwhile, for any number of files and any *)
(* sequence of edits by an editor with the habit that Watcher describes.   *)
(***************************************************************************)
\* The editor's habit covers what the watcher compares.
Habit == \A t, u \in Time : t \div Second = u \div Second => t \div Grain = u \div Grain

Stamp(st) == <<st.mtime \div Grain, st.size>>

\* What has been seen of a file are stamps it has had; as long as it has the stamp it
\* was looked for with, it is the version that was read.
StampedAt(f) ==
  /\ disk[f] # Nothing => Stamp(StatOf(disk[f])) \in stamps[f]
  /\ statCache[f] \in Stat => Stamp(statCache[f]) \in stamps[f]
  /\ fileData[f] # Nothing => Stamp(fileData[f]) \in stamps[f]
  /\ disk[f] # Nothing /\ statCache[f] \in Stat /\ Stamp(statCache[f]) = Stamp(StatOf(disk[f]))
       => readCache[f] \in {Nothing, disk[f]}
Stamped == stamps = [f \in File |-> stamps[f]] /\ \A f \in File : StampedAt(f)

\* A file that looks the same has the same text.
TellingAt(f) == disk[f] # Nothing /\ LooksSame(f, StatOf(disk[f])) => disk[f].text = fileData[f].hash
Telling == \A f \in File : TellingAt(f)

\* The caches are true of files that were not written.
Cached == \A f \in untouched : statCache[f] \in {Nothing, StatOf(disk[f])} /\ readCache[f] \in {Nothing, disk[f]}

\* Files that have been processed and not been remembered.
Owed == {f \in File : fileData[f] = Nothing /\ built[f] # Nothing}
Looked == {f \in File : statCache[f] \in Stat}
Remembered == {f \in File : fileData[f] # Nothing}

Owing ==
  /\ \A f \in File \ watched : built[f] = Nothing
  /\ phase \in {"down", "build", "find", "update"} /\ ~follow => \A f \in File \ watched : statCache[f] = Nothing
  /\ phase = "build" => watched \subseteq Looked
  /\ phase = "find" => Owed \subseteq changed
  /\ phase = "update" => Owed \subseteq changed \cup (IF follow THEN Looked ELSE {})
  /\ phase = "store" => Owed \subseteq Looked \cap (todo \cup {hashing})
  /\ phase \in {"flush", "idle"} => Owed = {}
  /\ phase = "down" => watched = {}
  /\ phase = "update" /\ follow => watched \cap Remembered \subseteq Settled
  /\ phase = "store" => todo \cap Remembered \subseteq Settled

\* Files whose present text has been processed.
Good == {f \in File : built[f] = TextOf(disk[f])}
Asked == watched \cap untouched

Current ==
  /\ phase = "build" => Asked \ todo \subseteq Good
  /\ phase = "find" => Asked \ (todo \cup {hashing} \cup changed) \subseteq Good
  /\ phase = "update" => Asked \ changed \subseteq Good
  /\ phase \in {"store", "flush", "idle"} => Asked \subseteq Good

Seen == Stamped /\ Telling /\ Cached
UInv == Seen /\ Owing /\ Current

-----------------------------------------------------------------------------
USE SizeAssumption, ClockAssumption, NothingAssumption, NoStatAssumption

\* A look at a file takes its stat as it is now, or as it was looked for before.
LEMMA SeenStat ==
  ASSUME IInv, Seen, NEW f \in File, CacheStat(f), UNCHANGED <<disk, stamps, readCache>>,
         fileData' \in {fileData, [fileData EXCEPT ![f] = Nothing]}, untouched' \in {untouched, untouched \cup {f}},
         untouched' = untouched \/ statCache[f] = Nothing
  PROVE  Seen'
<1> USE DEF IInv, TypeOK, Seen
<1>1. /\ \A g \in File : g # f => statCache'[g] = statCache[g]
      /\ statCache[f] # Nothing => statCache'[f] = statCache[f]
      /\ statCache[f] = Nothing => statCache'[f] = StatOf(disk[f]) /\ readCache[f] = Nothing
  BY DEF CacheStat, StatOrNone, LookedFor
<1>2. ASSUME NEW g \in File
      PROVE  StampedAt(g)' /\ TellingAt(g)'
  <2>1. StampedAt(g) /\ TellingAt(g)
    BY DEF Stamped, Telling
  <2>2. fileData'[g] = fileData[g] \/ fileData'[g] = Nothing
    OBVIOUS
  <2>3. TellingAt(g)'
    BY <2>1, <2>2 DEF TellingAt, LooksSame
  <2>4. CASE statCache'[g] = statCache[g]
    BY <2>1, <2>2, <2>3, <2>4 DEF StampedAt
  <2>5. CASE g = f /\ statCache[f] = Nothing
    BY <1>1, <2>1, <2>2, <2>3, <2>5, Stats DEF StampedAt, StatOf
  <2>6. QED
    BY <1>1, <2>4, <2>5
<1>3. Cached'
  BY <1>1 DEF Cached
<1>4. QED
  BY <1>2, <1>3 DEF Stamped, Telling

\* A file that has been looked for is read as it is now, or as it was read before.
LEMMA SeenRead ==
  ASSUME IInv, Seen, NEW f \in File, CacheRead(f),
         UNCHANGED <<disk, stamps, statCache, untouched>>,
         fileData' \in {fileData, [fileData EXCEPT ![f] = Nothing]}
  PROVE  Seen'
<1> USE DEF IInv, TypeOK, Seen
<1>1. /\ \A g \in File : g # f => readCache'[g] = readCache[g]
      /\ readCache'[f] \in {readCache[f], disk[f]} /\ (readCache[f] # Nothing => readCache'[f] = readCache[f])
  BY DEF CacheRead, Read
<1>2. ASSUME NEW g \in File
      PROVE  StampedAt(g)' /\ TellingAt(g)'
  <2>1. StampedAt(g) /\ TellingAt(g)
    BY DEF Stamped, Telling
  <2>2. fileData'[g] = fileData[g] \/ fileData'[g] = Nothing
    OBVIOUS
  <2>3. TellingAt(g)'
    BY <2>1, <2>2 DEF TellingAt, LooksSame
  <2>4. QED
    BY <1>1, <2>1, <2>2, <2>3 DEF StampedAt
<1>3. Cached'
  BY <1>1 DEF Cached
<1>4. QED
  BY <1>2, <1>3 DEF Stamped, Telling

\* Nothing new is seen when nothing is looked for or read.
LEMMA SeenLess ==
  ASSUME IInv, Seen, UNCHANGED <<disk, stamps>>,
         \A f \in File : fileData'[f] \in {fileData[f], Nothing},
         \/ UNCHANGED <<statCache, readCache>>
         \/ statCache' = Unread /\ readCache' = Unread,
         untouched' \subseteq untouched \/ (statCache' = Unread /\ readCache' = Unread),
         untouched' \subseteq File
  PROVE  Seen'
<1> USE DEF IInv, TypeOK, Seen
<1>1. ASSUME NEW f \in File
      PROVE  StampedAt(f)' /\ TellingAt(f)'
  <2>1. StampedAt(f) /\ TellingAt(f)
    BY DEF Stamped, Telling
  <2>2. TellingAt(f)'
    BY <2>1 DEF TellingAt, LooksSame
  <2>3. CASE UNCHANGED <<statCache, readCache>>
    BY <2>1, <2>2, <2>3 DEF StampedAt
  <2>4. CASE statCache' = Unread /\ readCache' = Unread
    BY <2>1, <2>2, <2>4, Stats DEF StampedAt, Unread
  <2>5. QED
    BY <2>3, <2>4
<1>2. Cached'
  BY DEF Cached, Unread
<1>3. QED
  BY <1>1, <1>2 DEF Stamped, Telling

\* What has been seen of the files stays true of them while an editor writes.
LEMMA SeenStep == Habit /\ IInv /\ IInv' /\ Seen /\ [Next]_vars => Seen'
<1> SUFFICES ASSUME Habit, IInv, IInv', Seen, [Next]_vars
             PROVE  Seen'
  OBVIOUS
<1> USE DEF server, caches, watcher
<1>1. CASE Tick
  BY <1>1, SeenLess DEF Tick, IInv, TypeOK
<1>2. ASSUME NEW f \in File, Delete(f) PROVE Seen'
  <2>1. /\ disk' = [disk EXCEPT ![f] = Nothing] /\ untouched' = untouched \ {f}
        /\ UNCHANGED <<stamps, statCache, readCache, fileData>>
    BY <1>2 DEF Delete
  <2>2. ASSUME NEW g \in File PROVE StampedAt(g)' /\ TellingAt(g)'
    BY <2>1 DEF IInv, TypeOK, Seen, Stamped, Telling, StampedAt, TellingAt, LooksSame
  <2>3. Cached'
    BY <2>1 DEF IInv, TypeOK, Seen, Cached
  <2>4. QED
    BY <2>1, <2>2, <2>3 DEF Seen, Stamped, Telling
<1>3. ASSUME NEW f \in File, NEW t \in Written[f], Edit(f, t) PROVE Seen'
  <2> DEFINE v == [text |-> t, mtime |-> now]
  <2>1. /\ disk' = [disk EXCEPT ![f] = v] /\ untouched' = untouched \ {f}
        /\ stamps' = [stamps EXCEPT ![f] = @ \cup {<<now \div Grain, Size(t)>>}]
        /\ <<now \div Grain, Size(t)>> \notin stamps[f]
        /\ UNCHANGED <<statCache, readCache, fileData>>
    BY <1>3 DEF Edit
  <2>2. t \in Text /\ v \in Version /\ now \in Time
    BY WrittenAssumption DEF IInv, TypeOK, Version
  <2>3. v # Nothing => StatOf(v) = [mtime |-> now, size |-> Size(t)] /\ Stamp(StatOf(v)) = <<now \div Grain, Size(t)>>
    BY <2>2, Stats DEF Stamp
  <2>4. ASSUME NEW g \in File, g # f PROVE StampedAt(g)' /\ TellingAt(g)'
    <3>1. StampedAt(g) /\ TellingAt(g) /\ disk'[g] = disk[g] /\ \A x \in stamps[g] : x \in stamps'[g]
      BY <2>1, <2>4 DEF Seen, Stamped, Telling, IInv, TypeOK
    <3>2. QED
      BY <2>1, <2>4, <3>1 DEF StampedAt, TellingAt, LooksSame
  <2>5. StampedAt(f)' /\ TellingAt(f)'
    <3>1. disk'[f] = v
      BY <2>1 DEF IInv, TypeOK
    <3>2. stamps'[f] = stamps[f] \cup {<<now \div Grain, Size(t)>>}
      BY <2>1 DEF Seen, Stamped
    <3>3. StampedAt(f)'
      BY <2>1, <2>3, <3>1, <3>2 DEF Seen, Stamped, StampedAt
    <3>4. v # Nothing => ~LooksSame(f, StatOf(v))
      <4>1. SUFFICES ASSUME v # Nothing, LooksSame(f, StatOf(v)) PROVE FALSE
        OBVIOUS
      <4>2. /\ fileData[f] \in FileData /\ fileData[f].size = Size(t) /\ Stamp(fileData[f]) \in stamps[f]
            /\ now \div Second = fileData[f].mtime \div Second
        BY <2>3, <4>1 DEF LooksSame, IInv, TypeOK, Seen, Stamped, StampedAt
      <4>3. fileData[f].mtime \in Time
        BY <4>2 DEF FileData
      <4>4. now \div Grain = fileData[f].mtime \div Grain
        BY <2>2, <4>2, <4>3 DEF Habit
      <4>5. QED
        BY <2>1, <4>2, <4>4 DEF Stamp
    <3>5. QED
      BY <2>1, <3>1, <3>3, <3>4 DEF TellingAt, LooksSame
  <2>6. Cached'
    BY <2>1 DEF IInv, TypeOK, Seen, Cached
  <2>7. QED
    BY <2>1, <2>4, <2>5, <2>6 DEF Seen, Stamped, Telling
<1>4. ASSUME NEW sources \in SUBSET File, Start(sources) PROVE Seen'
  <2>1. /\ statCache = Unread /\ readCache = Unread /\ untouched' = sources
        /\ \A f \in File : statCache'[f] = IF f \in sources THEN StatOf(disk[f]) ELSE Nothing
        /\ UNCHANGED <<disk, stamps, readCache, fileData>>
    BY <1>4 DEF Start, IInv, Tidy, StatOrNone, Unread
  <2>2. ASSUME NEW f \in File PROVE StampedAt(f)' /\ TellingAt(f)'
    <3>1. StampedAt(f) /\ TellingAt(f)
      BY DEF Seen, Stamped, Telling
    <3>2. TellingAt(f)'
      BY <2>1, <3>1 DEF TellingAt, LooksSame
    <3>3. statCache'[f] \in Stat => disk[f] # Nothing /\ statCache'[f] = StatOf(disk[f])
      BY <2>1, Stats DEF StatOf
    <3>4. QED
      BY <2>1, <3>1, <3>2, <3>3 DEF StampedAt, Unread
  <2>3. Cached'
    BY <2>1 DEF Cached, Unread
  <2>4. QED
    BY <2>1, <2>2, <2>3 DEF Seen, Stamped, Telling
<1>5. ASSUME NEW f \in File, Build(f) \/ Load(f) \/ (Update(f) /\ statCache[f] # NoStat) PROVE Seen'
  <2>1. CASE UNCHANGED readCache
    BY <1>5, <2>1, SeenLess DEF Build, Load, Update, IInv, TypeOK
  <2>2. CASE CacheRead(f)
    BY <1>5, <2>2, SeenRead DEF Build, Load, Update
  <2>3. QED
    BY <1>5, <2>1, <2>2 DEF Build, Load, Update, Parse
<1>6. ASSUME NEW f \in File, Update(f), statCache[f] = NoStat PROVE Seen'
  BY <1>6, SeenLess DEF Update, IInv, TypeOK
<1>7. ASSUME NEW f \in File, BuildFails(f) \/ Crash(f) PROVE Seen'
  BY <1>7, SeenLess DEF BuildFails, Crash, GiveUp, FlushCaches, Unread
<1>8. CASE Built \/ Found \/ Updated \/ Stored \/ Flush
  BY <1>8, SeenLess DEF Built, Found, Updated, Stored, Flush, FlushCaches, IInv, TypeOK
<1>9. CASE Check
  BY <1>9, SeenLess DEF Check, IInv, TypeOK, Tidy
<1>10. ASSUME NEW update \in SUBSET File, NEW remove \in SUBSET (File \ update), Recheck(update, remove) PROVE Seen'
  BY <1>10, SeenLess DEF Recheck, IInv, TypeOK, Tidy
<1>11. ASSUME NEW f \in File, Look(f) PROVE Seen'
  BY <1>11, SeenStat DEF Look
<1>12. ASSUME NEW f \in File, Discover(f) PROVE Seen'
  BY <1>12, SeenStat DEF Discover
<1>13. ASSUME NEW f \in File, Hash(f) PROVE Seen'
  <2> DEFINE st == statCache[f]
  <2>1. /\ fileData' = [fileData EXCEPT ![f] = [mtime |-> st.mtime, size |-> st.size, hash |-> Read(f).text]]
        /\ readCache' = [readCache EXCEPT ![f] = Read(f)] /\ st \in Stat
        /\ UNCHANGED <<disk, stamps, statCache, untouched>>
    BY <1>13 DEF Hash, CacheRead, IInv, LookedFor
  <2>2. ASSUME NEW g \in File PROVE StampedAt(g) /\ TellingAt(g)
    BY DEF Seen, Stamped, Telling
  <2>3. ASSUME NEW g \in File, g # f PROVE StampedAt(g)' /\ TellingAt(g)'
    <3>1. fileData'[g] = fileData[g] /\ readCache'[g] = readCache[g]
      BY <2>1, <2>3 DEF IInv, TypeOK
    <3>2. QED
      BY <2>1, <2>2, <3>1 DEF StampedAt, TellingAt, LooksSame
  <2>4. fileData'[f] = [mtime |-> st.mtime, size |-> st.size, hash |-> Read(f).text] /\ readCache'[f] = Read(f)
    BY <2>1 DEF IInv, TypeOK
  <2>5. readCache[f] \in {Nothing, disk[f]} => Read(f) = disk[f]
    BY DEF Read
  <2>6. Stamp(fileData'[f]) = Stamp(st)
    BY <2>4 DEF Stamp
  <2>7. StampedAt(f)'
    BY <2>1, <2>2, <2>4, <2>5, <2>6 DEF StampedAt
  <2>8. TellingAt(f)'
    <3>1. SUFFICES ASSUME disk[f] # Nothing, fileData'[f].size = StatOf(disk[f]).size,
                          StatOf(disk[f]).mtime \div Second = fileData'[f].mtime \div Second
                   PROVE  disk[f].text = fileData'[f].hash
      BY <2>1 DEF TellingAt, LooksSame
    <3>2. StatOf(disk[f]) \in Stat
      <4>1. disk[f] \in Version
        BY <3>1 DEF IInv, TypeOK
      <4>2. QED
        BY <3>1, <4>1, Stats
    <3>3. StatOf(disk[f]).mtime \in Time /\ st.mtime \in Time
      BY <2>1, <3>2 DEF Stat
    <3>4. Stamp(st) = Stamp(StatOf(disk[f]))
      BY <2>4, <3>1, <3>3 DEF Habit, Stamp
    <3>5. Read(f) = disk[f]
      BY <2>1, <2>2, <2>5, <3>1, <3>4 DEF StampedAt
    <3>6. QED
      BY <2>4, <3>5
  <2>9. Cached'
    BY <2>1, <2>5 DEF Seen, Cached, IInv, TypeOK
  <2>10. QED
    BY <2>1, <2>3, <2>7, <2>8, <2>9 DEF Seen, Stamped, Telling
<1>14. CASE UNCHANGED vars
  BY <1>14, SeenLess DEF vars, IInv, TypeOK
<1>15. QED
  BY <1>1, <1>2, <1>3, <1>4, <1>5, <1>6, <1>7, <1>8, <1>9, <1>10, <1>11, <1>12, <1>13, <1>14 DEF Next

-----------------------------------------------------------------------------
\* What is said of files is about those files alone.
LEMMA AloneToo ==
  ASSUME NEW F \in SUBSET File,
         \A f \in F : disk'[f] = disk[f] /\ statCache'[f] = statCache[f] /\ fileData'[f] = fileData[f] /\ built'[f] = built[f]
  PROVE  \A f \in F : /\ f \in Owed' <=> f \in Owed
                      /\ f \in Looked' <=> f \in Looked
                      /\ f \in Remembered' <=> f \in Remembered
                      /\ f \in Settled' <=> f \in Settled
                      /\ f \in Good' <=> f \in Good
BY DEF Owed, Looked, Remembered, Settled, LooksSame, Good

\* Only a file that is not there has no stat.
LEMMA Absence ==
  ASSUME IInv, NEW f \in File, StatOf(disk[f]) = NoStat
  PROVE  disk[f] = Nothing
<1>1. disk[f] \in Version \cup {Nothing}
  BY DEF IInv, TypeOK
<1>2. ASSUME disk[f] # Nothing PROVE StatOf(disk[f]) \in Stat
  BY <1>1, <1>2, Stats
<1>3. QED
  BY <1>2, Stats

\* An untouched file is processed with its present text.
LEMMA ParsedGood ==
  ASSUME IInv, Seen, NEW f \in File, f \in untouched, Parse(f), UNCHANGED disk
  PROVE  f \in Good'
<1>1. Source(f) = disk[f] /\ disk[f] # Nothing
  BY DEF Parse, Source, Read, Seen, Cached
<1>2. built'[f] = disk[f].text
  BY <1>1 DEF Parse, IInv, TypeOK
<1>3. QED
  BY <1>1, <1>2 DEF Good, TextOf

\* What the build has is the present text of a file, or a change of it is still to be told.
LEMMA CurrentStep ==
  TRUE \notin BusyEdits /\ IInv /\ RInv /\ Seen /\ Owing /\ Current /\ IInv' /\ Seen' /\ [Next]_vars => Owing' /\ Current'
<1> SUFFICES ASSUME TRUE \notin BusyEdits, IInv, RInv, Seen, Owing, Current, IInv', Seen', [Next]_vars
             PROVE  Owing' /\ Current'
  OBVIOUS
<1> USE DEF server, caches, watcher
<1> DEFINE Same(F) == \A g \in F : /\ g \in Owed' <=> g \in Owed
                                   /\ g \in Looked' <=> g \in Looked
                                   /\ g \in Remembered' <=> g \in Remembered
                                   /\ g \in Settled' <=> g \in Settled
                                   /\ g \in Good' <=> g \in Good
<1>0. /\ Owed \subseteq File /\ Looked \subseteq File /\ Remembered \subseteq File /\ Settled \subseteq File /\ Good \subseteq File
      /\ Owed' \subseteq File /\ Looked' \subseteq File /\ Remembered' \subseteq File /\ Settled' \subseteq File /\ Good' \subseteq File
      /\ watched \subseteq File /\ untouched \subseteq File /\ todo \subseteq File /\ changed \subseteq File /\ Asked = watched \cap untouched
      /\ Owed \subseteq watched
      /\ \A f \in File : f \in Owed <=> fileData[f] = Nothing /\ built[f] # Nothing
      /\ \A f \in File : f \in Owed' <=> fileData'[f] = Nothing /\ built'[f] # Nothing
  BY DEF Owed, Looked, Remembered, Settled, Good, Asked, IInv, TypeOK, Owing
<1>1. ASSUME NEW F \in SUBSET File, untouched' \subseteq F, untouched' \subseteq untouched,
             UNCHANGED <<server, caches, watcher, built>>, \A g \in F : disk'[g] = disk[g]
      PROVE  Owing' /\ Current'
  <2>1. \A g \in F : g \in Good' <=> g \in Good
    BY <1>1, AloneToo
  <2>2. /\ Owed' = Owed /\ Looked' = Looked /\ Remembered' = Remembered /\ Settled' = Settled
    BY <1>1 DEF Owed, Looked, Remembered, Settled, LooksSame
  <2>3. Owing'
    BY <1>1, <2>2 DEF Owing
  <2>4. Current'
    BY <1>0, <1>1, <2>1 DEF Current, Asked
  <2>5. QED
    BY <2>3, <2>4
<1>2. CASE Tick
  BY <1>2, <1>1, <1>0 DEF Tick
<1>3. ASSUME NEW f \in File, Delete(f) PROVE Owing' /\ Current'
  <2> DEFINE F == File \ {f}
  <2>1. /\ F \in SUBSET File /\ untouched' = untouched \ {f} /\ UNCHANGED <<server, caches, watcher, built>>
        /\ \A g \in F : disk'[g] = disk[g]
    BY <1>3 DEF Delete, IInv, TypeOK
  <2>2. untouched' \subseteq F /\ untouched' \subseteq untouched
    BY <1>0, <2>1
  <2> HIDE DEF F
  <2>3. QED
    BY <2>1, <2>2, <1>1
<1>4. ASSUME NEW f \in File, NEW t \in Written[f], Edit(f, t) PROVE Owing' /\ Current'
  <2> DEFINE F == File \ {f}
  <2>1. /\ F \in SUBSET File /\ untouched' = untouched \ {f} /\ UNCHANGED <<server, caches, watcher, built>>
        /\ \A g \in F : disk'[g] = disk[g]
    BY <1>4 DEF Edit, IInv, TypeOK
  <2>2. untouched' \subseteq F /\ untouched' \subseteq untouched
    BY <1>0, <2>1
  <2> HIDE DEF F
  <2>3. QED
    BY <2>1, <2>2, <1>1
<1>5. ASSUME NEW sources \in SUBSET File, Start(sources) PROVE Owing' /\ Current'
  <2>1. /\ phase' = "build" /\ todo' = sources /\ watched' = sources /\ untouched' = sources
        /\ \A f \in File : statCache'[f] = IF f \in sources THEN StatOf(disk[f]) ELSE Nothing
        /\ \A f \in sources : disk[f] # Nothing
        /\ \A f \in File : built'[f] = Nothing
    BY <1>5 DEF Start, IInv, Tidy, StatOrNone, Unread, Owing
  <2>2. sources \subseteq Looked'
    <3>1. SUFFICES ASSUME NEW f \in sources PROVE statCache'[f] \in Stat
      BY DEF Looked
    <3>2. disk[f] \in Version /\ disk[f] # Nothing /\ statCache'[f] = StatOf(disk[f])
      BY <2>1 DEF IInv, TypeOK
    <3>3. QED
      BY <3>2, Stats
  <2>3. Owing'
    BY <2>1, <2>2 DEF Owing
  <2>4. Current'
    BY <2>1 DEF Current, Asked
  <2>5. QED
    BY <2>3, <2>4
<1>6. ASSUME NEW f \in File, Build(f) PROVE Owing' /\ Current'
  <2>1. /\ phase = "build" /\ f \in todo /\ f \in watched /\ todo' = todo \ {f}
        /\ UNCHANGED <<disk, phase, follow, statCache, watched, fileData, untouched>>
        /\ \A g \in File : g # f => built'[g] = built[g]
    BY <1>6, Parsed DEF Build, RInv, InUse
  <2>2. Same(File \ {f})
    BY <2>1, AloneToo
  <2>3. f \in untouched => f \in Good'
    BY <1>6, ParsedGood DEF Build
  <2>4. Owing'
    BY <1>0, <2>1, <2>2 DEF Owing, Looked
  <2>5. Current'
    BY <1>0, <2>1, <2>2, <2>3 DEF Current, Asked
  <2>6. QED
    BY <2>4, <2>5
<1>7. ASSUME NEW f \in File, BuildFails(f) \/ Crash(f) PROVE Owing' /\ Current'
  BY <1>7 DEF BuildFails, Crash, GiveUp, FlushCaches, Unread, Owing, Current
<1>8. CASE Built
  <2>1. Same(File)
    BY <1>8, AloneToo DEF Built
  <2>2. Remembered = {}
    BY <1>8 DEF Built, RInv, InUse, Unread, Remembered
  <2>3. Owing'
    BY <1>0, <1>8, <2>1, <2>2 DEF Built, Owing
  <2>4. Current'
    BY <1>0, <1>8, <2>1 DEF Built, Current, Asked
  <2>5. QED
    BY <2>3, <2>4
<1>9. CASE Check
  <2>1. Same(File)
    BY <1>9, AloneToo DEF Check
  <2>2. Owing'
    BY <1>0, <1>9, <2>1 DEF Check, Owing, IInv, Tidy, Unread
  <2>3. Current'
    BY <1>9 DEF Check, Current, Asked
  <2>4. QED
    BY <2>2, <2>3
<1>10. ASSUME NEW update \in SUBSET File, NEW remove \in SUBSET (File \ update), Recheck(update, remove) PROVE Owing' /\ Current'
  <2>1. /\ phase = "idle" /\ phase' = "find" /\ todo' = update /\ changed' = {} /\ UNCHANGED <<disk, statCache, follow>>
        /\ watched' = (watched \ remove) \cup update /\ untouched' = (untouched \ remove) \cup update
        /\ \A f \in File : /\ fileData'[f] = IF f \in remove \/ f \notin watched THEN Nothing ELSE fileData[f]
                           /\ built'[f] = IF f \in remove THEN Nothing ELSE built[f]
    BY <1>10 DEF Recheck
  <2>2. Owed' = {} /\ \A f \in File \ watched' : built'[f] = Nothing
    BY <1>0, <2>1 DEF Owing
  <2>3. Owing'
    BY <2>1, <2>2 DEF Owing, IInv, Tidy, Unread
  <2>4. Current'
    <3>1. SUFFICES ASSUME NEW f \in Asked', f \notin update PROVE f \in Good'
      BY <2>1 DEF Current
    <3>2. f \in Good /\ f \notin remove
      BY <1>0, <2>1, <3>1 DEF Current, Asked
    <3>3. QED
      BY <1>0, <2>1, <3>2 DEF Good
  <2>5. QED
    BY <2>3, <2>4
<1>11. ASSUME NEW f \in File, Look(f) PROVE Owing' /\ Current'
  <2>1. /\ phase \in {"find", "store"} /\ f \in todo /\ f \in watched /\ hashing = Nothing /\ hashing' \in {Nothing, f}
        /\ todo' = todo \ {f} /\ changed \subseteq changed' /\ changed' \subseteq changed \cup {f}
        /\ UNCHANGED <<disk, phase, follow, watched, built, untouched>>
    BY <1>11 DEF Look, RInv, InUse
  <2>2. /\ \A g \in File : g # f => statCache'[g] = statCache[g] /\ fileData'[g] = fileData[g]
        /\ \A g \in File : statCache[g] # Nothing => statCache'[g] = statCache[g]
        /\ statCache'[f] = StatOrNone(f) /\ statCache'[f] \in Stat \cup {NoStat}
    BY <1>11, CachedStat DEF Look, IInv, TypeOK
  <2>3. Same(File \ {f}) /\ (f \in Good' <=> f \in Good)
    <3>1. Same(File \ {f})
      BY <2>1, <2>2, AloneToo
    <3>2. QED
      BY <2>1, <3>1 DEF Good
  <2>4. f \in Looked => f \in Looked'
    BY <2>2, Stats DEF Looked
  <2>5. phase = "find" => f \notin changed /\ f \notin Owed /\ f \in Matching
    BY <1>0, <2>1 DEF RInv, Finding, Owing
  <2>6. CASE StatOrNone(f) = NoStat
    <3>1. /\ fileData'[f] = Nothing /\ hashing' = Nothing
          /\ fileData[f] # Nothing => f \in changed'
      BY <1>11, <2>6 DEF Look, IInv, TypeOK
    <3>2. phase = "store" => f \notin Owed'
      <4>1. f \notin Looked
        BY <2>2, <2>6, Stats DEF Looked
      <4>2. f \in Settled => fileData[f] = Nothing
        BY <4>1 DEF Settled, Looked
      <4>3. phase = "store" => fileData[f] = Nothing
        BY <2>1, <4>2 DEF Owing, Remembered
      <4>4. QED
        BY <1>0, <2>1, <4>1, <4>3 DEF Owing
    <3>3. f \notin Remembered'
      BY <3>1 DEF Remembered
    <3>4. phase = "find" => f \notin Owed' \/ f \in changed'
      BY <1>0, <2>1, <2>5, <3>1
    <3>5. phase = "find" /\ f \in untouched /\ f \notin changed' => f \in Good
      <4>1. f \in untouched => disk[f] = Nothing
        <5>1. f \in untouched => statCache[f] \in {Nothing, StatOf(disk[f])}
          BY DEF Seen, Cached
        <5>2. f \in untouched => StatOf(disk[f]) = NoStat
          BY <2>6, <5>1 DEF StatOrNone
        <5>3. QED
          BY <5>2, Absence
      <4>2. phase = "find" /\ f \notin changed' => built[f] = Nothing
        BY <1>0, <2>5, <3>1
      <4>3. QED
        BY <4>1, <4>2 DEF Good, TextOf
    <3>6. Owing'
      BY <1>0, <2>1, <2>2, <2>3, <3>1, <3>2, <3>3, <3>4 DEF Owing
    <3>7. Current'
      BY <1>0, <2>1, <2>3, <3>1, <3>5 DEF Current, Asked
    <3>8. QED
      BY <3>6, <3>7
  <2>7. CASE StatOrNone(f) # NoStat /\ LooksSame(f, StatOrNone(f))
    <3>1. fileData' = fileData /\ hashing' = Nothing /\ changed' = changed /\ fileData[f] # Nothing
      BY <1>11, <2>7 DEF Look, LooksSame
    <3>2. f \notin Owed' /\ f \notin Owed
      BY <1>0, <3>1
    <3>3. phase = "find" /\ f \in untouched => f \in Good
      <4>1. f \in untouched => StatOrNone(f) = StatOf(disk[f]) /\ disk[f] # Nothing
        <5>1. f \in untouched => statCache[f] \in {Nothing, StatOf(disk[f])}
          BY DEF Seen, Cached
        <5>2. f \in untouched => StatOrNone(f) = StatOf(disk[f])
          BY <5>1 DEF StatOrNone
        <5>3. QED
          BY <2>7, <5>2 DEF StatOf
      <4>2. f \in untouched => disk[f].text = fileData[f].hash
        BY <2>7, <4>1 DEF Seen, Telling, TellingAt
      <4>3. f \in Matching => built[f] = fileData[f].hash
        BY <3>1 DEF Matching
      <4>4. QED
        BY <2>5, <4>1, <4>2, <4>3 DEF Good, TextOf
    <3>4. Owing'
      BY <1>0, <2>1, <2>2, <2>3, <3>1, <3>2 DEF Owing
    <3>5. Current'
      BY <1>0, <2>1, <2>3, <3>1, <3>3 DEF Current, Asked
    <3>6. QED
      BY <3>4, <3>5
  <2>8. CASE StatOrNone(f) # NoStat /\ ~LooksSame(f, StatOrNone(f))
    <3>1. fileData' = fileData /\ hashing' = f /\ changed' = changed
      BY <1>11, <2>8 DEF Look
    <3>2. f \in Owed' <=> f \in Owed
      BY <1>0, <2>1, <3>1
    <3>3. Owing'
      BY <1>0, <2>1, <2>2, <2>3, <2>4, <3>1, <3>2 DEF Owing
    <3>4. Current'
      BY <1>0, <2>1, <2>3, <3>1 DEF Current, Asked
    <3>5. QED
      BY <3>3, <3>4
  <2>9. QED
    BY <2>6, <2>7, <2>8
<1>12. ASSUME NEW f \in File, Hash(f) PROVE Owing' /\ Current'
  <2>1. /\ hashing = f /\ hashing' = Nothing /\ phase \in {"find", "store"} /\ f \in watched
        /\ Read(f) # Nothing /\ statCache[f] \in Stat
        /\ UNCHANGED <<disk, phase, follow, todo, statCache, watched, built, untouched>>
    BY <1>12 DEF Hash, IInv, Tidy, LookedFor, RInv, Finding, Storing
  <2>2. /\ fileData' = [fileData EXCEPT ![f] = [mtime |-> statCache[f].mtime, size |-> statCache[f].size, hash |-> Read(f).text]]
        /\ changed \subseteq changed' /\ changed' \subseteq changed \cup {f}
        /\ f \notin changed' => fileData[f] # Nothing /\ fileData[f].hash = Read(f).text
    BY <1>12 DEF Hash
  <2>3. \A g \in File \ {f} : fileData'[g] = fileData[g]
    BY <2>2 DEF IInv, TypeOK
  <2>4. Same(File \ {f}) /\ (f \in Good' <=> f \in Good) /\ Looked' = Looked
    <3>1. Same(File \ {f})
      BY <2>1, <2>3, AloneToo
    <3>2. QED
      BY <2>1, <3>1 DEF Good, Looked
  <2>5. fileData'[f] # Nothing /\ f \in Settled'
    <3>1. fileData'[f] = [mtime |-> statCache[f].mtime, size |-> statCache[f].size, hash |-> Read(f).text]
      BY <2>2 DEF IInv, TypeOK
    <3>2. statCache[f].mtime \in Nat /\ statCache[f].size \in Nat /\ Read(f).text \in Text
      BY <2>1 DEF Stat, Time, Read, Version, IInv, TypeOK
    <3>3. fileData'[f] # Nothing
      BY <3>1, <3>2
    <3>4. QED
      BY <2>1, <3>1, <3>3 DEF Settled, LooksSame
  <2>6. f \notin Owed'
    BY <1>0, <2>5
  <2>7. phase = "find" /\ f \in untouched /\ f \notin changed' => f \in Good
    <3>1. f \in untouched => Read(f) = disk[f]
      BY DEF Seen, Cached, Read
    <3>2. phase = "find" /\ f \notin changed' => built[f] = fileData[f].hash
      BY <2>1, <2>2 DEF RInv, Finding, Matching
    <3>3. QED
      BY <2>1, <2>2, <3>1, <3>2 DEF Good, TextOf
  <2>8. Owing'
    BY <1>0, <2>1, <2>2, <2>4, <2>5, <2>6 DEF Owing
  <2>9. Current'
    BY <1>0, <2>1, <2>2, <2>4, <2>7 DEF Current, Asked
  <2>10. QED
    BY <2>8, <2>9
<1>13. ASSUME NEW f \in File, Update(f) PROVE Owing' /\ Current'
  <2>1. /\ phase = "update" /\ f \in changed /\ f \in watched /\ f \in Settled /\ changed' = changed \ {f}
        /\ UNCHANGED <<disk, phase, follow, todo, hashing, statCache, watched, fileData, untouched>>
    BY <1>13 DEF Update, RInv, InUse, Updating, Noted
  <2>2. /\ \A g \in File : g # f => built'[g] = built[g]
        /\ f \notin Owed' /\ (f \in untouched => f \in Good')
    <3>1. CASE statCache[f] = NoStat
      <4>1. built' = [built EXCEPT ![f] = Nothing] /\ built'[f] = Nothing
        BY <1>13, <3>1 DEF Update, IInv, TypeOK
      <4>2. f \in untouched => disk[f] = Nothing
        <5>1. f \in untouched => StatOf(disk[f]) = NoStat
          BY <3>1, Stats DEF Seen, Cached
        <5>2. QED
          BY <5>1, Absence
      <4>3. QED
        BY <1>0, <2>1, <4>1, <4>2 DEF Good, TextOf, IInv, TypeOK
    <3>2. CASE statCache[f] # NoStat
      <4>1. Parse(f)
        BY <1>13, <3>2 DEF Update
      <4>2. fileData[f] # Nothing
        BY <2>1, <3>2 DEF Settled, LooksSame
      <4>3. \A g \in File : g # f => built'[g] = built[g]
        BY <1>13, <4>1, Parsed DEF Update
      <4>4. f \in untouched => f \in Good'
        BY <2>1, <4>1, ParsedGood
      <4>5. QED
        BY <1>0, <2>1, <4>2, <4>3, <4>4
    <3>3. QED
      BY <3>1, <3>2
  <2>3. Same(File \ {f})
    BY <2>1, <2>2, AloneToo
  <2>4. Looked' = Looked /\ Remembered' = Remembered /\ Settled' = Settled
    BY <2>1 DEF Looked, Remembered, Settled, LooksSame
  <2>5. Owing'
    BY <1>0, <2>1, <2>2, <2>3, <2>4 DEF Owing
  <2>6. Current'
    BY <1>0, <2>1, <2>2, <2>3 DEF Current, Asked
  <2>7. QED
    BY <2>5, <2>6
<1>14. ASSUME NEW f \in File, Discover(f) PROVE Owing' /\ Current'
  <2>1. /\ phase = "update" /\ follow /\ f \notin watched /\ untouched' = untouched \cup {f}
        /\ UNCHANGED <<disk, phase, follow, todo, hashing, changed, watched, fileData, built>>
        /\ \A g \in File : g # f => statCache'[g] = statCache[g]
        /\ \A g \in File : statCache[g] # Nothing => statCache'[g] = statCache[g]
    BY <1>14, CachedStat DEF Discover
  <2>2. Same(File \ {f}) /\ Good' = Good /\ Owed' = Owed
    <3>1. Same(File \ {f})
      BY <2>1, AloneToo
    <3>2. QED
      BY <2>1, <3>1 DEF Good, Owed
  <2>3. Owing'
    BY <1>0, <2>1, <2>2 DEF Owing
  <2>4. Current'
    BY <1>0, <2>1, <2>2 DEF Current, Asked
  <2>5. QED
    BY <2>3, <2>4
<1>15. ASSUME NEW f \in File, Load(f) PROVE Owing' /\ Current'
  <2>1. /\ phase = "update" /\ f \notin watched /\ f \notin changed /\ follow /\ f \in Looked
        /\ watched' = watched \cup {f} /\ UNCHANGED <<disk, phase, follow, todo, hashing, changed, statCache, untouched>>
    BY <1>15 DEF Load, Owing, Looked, IInv, TypeOK, RInv, InUse
  <2>2. /\ fileData'[f] = Nothing
        /\ \A g \in File : g # f => fileData'[g] = fileData[g] /\ built'[g] = built[g]
    BY <1>15, Parsed DEF Load, IInv, TypeOK
  <2>3. Same(File \ {f}) /\ Looked' = Looked /\ f \notin Remembered'
    <3>1. Same(File \ {f})
      BY <2>1, <2>2, AloneToo
    <3>2. QED
      BY <2>1, <2>2, <3>1 DEF Looked, Remembered
  <2>4. f \in untouched => f \in Good'
    BY <1>15, ParsedGood DEF Load
  <2>5. Owing'
    BY <1>0, <2>1, <2>2, <2>3 DEF Owing
  <2>6. Current'
    BY <1>0, <2>1, <2>3, <2>4 DEF Current, Asked
  <2>7. QED
    BY <2>5, <2>6
<1>16. CASE Found \/ Updated \/ Stored \/ Flush \/ UNCHANGED vars
  <2>1. /\ UNCHANGED <<disk, follow, watched, fileData, built, untouched>>
        /\ Owed' = Owed /\ Remembered' = Remembered /\ Good' = Good
    BY <1>16 DEF Found, Updated, Stored, Flush, vars, Owed, Remembered, Good
  <2>2. CASE Flush
    BY <2>1, <2>2 DEF Flush, FlushCaches, Owing, Current, Asked
  <2>3. ASSUME ~Flush PROVE UNCHANGED <<statCache>> /\ Looked' = Looked /\ Settled' = Settled
    BY <1>16, <2>1, <2>3 DEF Found, Updated, Stored, vars, Looked, Settled, LooksSame
  <2>4. CASE Found /\ ~Flush
    BY <1>0, <2>1, <2>3, <2>4 DEF Found, Owing, Current, Asked, RInv, Finding
  <2>5. CASE Updated /\ ~Flush
    BY <1>0, <2>1, <2>3, <2>5 DEF Updated, Owing, Current, Asked, IInv, Tidy
  <2>6. CASE Stored /\ ~Flush
    BY <1>0, <2>1, <2>3, <2>6 DEF Stored, Owing, Current, Asked
  <2>7. CASE UNCHANGED vars /\ ~Flush
    BY <2>1, <2>3, <2>7 DEF vars, Owing, Current, Asked
  <2>8. QED
    BY <1>16, <2>2, <2>4, <2>5, <2>6, <2>7
<1>17. QED
  BY <1>2, <1>3, <1>4, <1>5, <1>6, <1>7, <1>8, <1>9, <1>10, <1>11, <1>12, <1>13, <1>14, <1>15, <1>16 DEF Next

\* Nothing has been seen before the first request.
LEMMA InitSeen == Init => Seen
<1> SUFFICES ASSUME Init PROVE Seen
  OBVIOUS
<1>1. disk \in [File -> Version \cup {Nothing}] /\ \A f \in File : disk[f] # Nothing => disk[f].mtime = 0
  BY DEF Init, Version, Time
<1>2. ASSUME NEW f \in File PROVE StampedAt(f) /\ TellingAt(f)
  <2>1. statCache[f] = Nothing /\ fileData[f] = Nothing
    BY DEF Init, Unread
  <2>2. disk[f] # Nothing => Stamp(StatOf(disk[f])) \in stamps[f]
    <3>1. SUFFICES ASSUME disk[f] # Nothing PROVE Stamp(StatOf(disk[f])) \in stamps[f]
      OBVIOUS
    <3>2. StatOf(disk[f]) = [mtime |-> 0, size |-> Size(disk[f].text)] /\ stamps[f] = {<<0, Size(disk[f].text)>>}
      BY <1>1, <3>1 DEF Init, StatOf
    <3>3. 0 \div Grain = 0
      OBVIOUS
    <3>4. QED
      BY <3>2, <3>3 DEF Stamp
  <2>3. QED
    BY <2>1, <2>2, Stats DEF StampedAt, TellingAt, LooksSame
<1>3. stamps = [f \in File |-> stamps[f]] /\ Cached
  BY DEF Init, Cached
<1>4. QED
  BY <1>2, <1>3 DEF Seen, Stamped, Telling

\* No edit is lost, whenever it falls between the stat, the read and the two looks of
\* a transaction: when a request has been answered, the build has processed the
\* present text of every watched file that nobody has written since it was looked
\* for.  It takes the editor's habit, and nobody who writes files while the native
\* parser works.
THEOREM AlwaysUpToDate ==
  ASSUME Habit, TRUE \notin BusyEdits
  PROVE  Spec => []UpToDate
<1> DEFINE Inv == IInv /\ RInv /\ UInv
<1>1. Init => Inv
  <2> SUFFICES ASSUME Init PROVE Inv
    OBVIOUS
  <2>1. IInv
    BY InitInv
  <2>2. RInv
    BY <2>1, InitRemember
  <2>3. Seen
    BY <2>1, InitSeen
  <2>4. Owing /\ Current
    BY <2>1 DEF Init, Unread, Owing, Current, Owed, Asked
  <2>5. QED
    BY <2>1, <2>2, <2>3, <2>4 DEF UInv
<1>2. Inv /\ [Next]_vars => Inv'
  BY InvStep, RememberStep, SeenStep, CurrentStep DEF UInv
<1>3. Inv => UpToDate
  BY DEF UInv, Current, Asked, Good, UpToDate
<1>4. QED
  BY <1>1, <1>2, <1>3, PTL DEF Spec
=============================================================================
