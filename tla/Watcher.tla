------------------------------- MODULE Watcher -------------------------------
(***************************************************************************)
(* How the daemon learns which files changed: FileSystemCache keeps what   *)
(* was read during one transaction, FileSystemWatcher compares files with  *)
(* what it remembers, and the server runs one transaction per request,     *)
(* while an editor goes on writing files.                                  *)
(*                                                                         *)
(* A transaction is the first build or an increment.  An increment looks   *)
(* at the watched files, processes those that changed, may load files that *)
(* are not watched yet and, when imports are followed, looks once more to  *)
(* remember the state of the new ones.  Then the caches are flushed.       *)
(***************************************************************************)
EXTENDS Naturals, FiniteSets

CONSTANTS
  File,          \* paths
  Text,          \* what a file may contain; a hash identifies it
  Written,       \* the texts that are written to each file
  Size(_),       \* st_size of a text
  Second,        \* ticks of the clock in a second
  Grain,         \* the editor's habit: no two texts of one size in so many ticks
  BusyEdits,     \* the values of native with which files are written during a request
  MaxTime,       \* bound of the clock
  Nothing,       \* no file, nothing cached, nothing remembered
  NoStat        \* the stat of a file that is not there

ASSUME SizeAssumption == \A t \in Text : Size(t) \in Nat
ASSUME ClockAssumption == Second \in Nat \ {0} /\ Grain \in Nat \ {0} /\ MaxTime \in Nat
ASSUME WrittenAssumption == Written \in [File -> SUBSET Text]
ASSUME NothingAssumption == Nothing \notin Text \cup File
ASSUME NoStatAssumption ==
  /\ NoStat # Nothing
  /\ {NoStat, Nothing} \cap [mtime : Nat, size : Nat] = {}
  /\ Nothing \notin [mtime : Nat, size : Nat, hash : Text]

VARIABLES
  disk,          \* the file system: text and modification time, or Nothing
  now,           \* the clock
  stamps,        \* per file, the pairs of time and size it has had
  native,        \* options.native_parser
  phase,         \* what the server is doing
  follow,        \* following_imports()
  todo,          \* files that _find_changed has still to look at
  hashing,       \* the file whose hash _find_changed asks for, or Nothing
  changed,       \* what _find_changed will return
  statCache,     \* FileSystemCache.stat_or_none_cache
  readCache,     \* FileSystemCache.read_cache, with the time of what was read
  watched,       \* FileSystemWatcher._paths
  fileData,      \* FileSystemWatcher._file_data
  built,         \* what the build last processed of a file
  untouched      \* files that were not written since they were last looked for

server == <<native, phase, follow, todo, hashing, changed>>
caches == <<statCache, readCache>>
watcher == <<watched, fileData>>
vars == <<disk, now, stamps, server, caches, watcher, built, untouched>>

Time == 0..MaxTime
Version == [text : Text, mtime : Time]
Stat == [mtime : Time, size : Nat]
FileData == [mtime : Time, size : Nat, hash : Text]
Unread == [f \in File |-> Nothing]

StatOf(v) == IF v = Nothing THEN NoStat ELSE [mtime |-> v.mtime, size |-> Size(v.text)]
TextOf(v) == IF v = Nothing THEN Nothing ELSE v.text

\* FileSystemCache.stat_or_none and the cached part of read()
StatOrNone(f) == IF statCache[f] # Nothing THEN statCache[f] ELSE StatOf(disk[f])
Read(f) == IF readCache[f] # Nothing THEN readCache[f] ELSE disk[f]

CacheStat(f) == statCache' = [statCache EXCEPT ![f] = StatOrNone(f)]
CacheRead(f) == readCache' = [readCache EXCEPT ![f] = Read(f)]
FlushCaches == statCache' = Unread /\ readCache' = Unread

Init ==
  /\ disk \in [File -> [text : Text, mtime : {0}] \cup {Nothing}]
  /\ \A f \in File : TextOf(disk[f]) \in Written[f] \cup {Nothing}
  /\ now = 0
  /\ stamps = [f \in File |-> IF disk[f] = Nothing THEN {} ELSE {<<0, Size(disk[f].text)>>}]
  /\ phase = "down" /\ native \in BOOLEAN /\ follow \in BOOLEAN /\ todo = {} /\ hashing = Nothing /\ changed = {}
  /\ statCache = Unread /\ readCache = Unread
  /\ watched = {} /\ fileData = Unread
  /\ built = Unread /\ untouched = {}

-----------------------------------------------------------------------------
(* The editor and the clock. *)

Tick == now < MaxTime /\ now' = now + 1 /\ UNCHANGED <<disk, stamps, server, caches, watcher, built, untouched>>

MayWrite == phase \in {"down", "idle"} \/ native \in BusyEdits

Edit(f, t) ==
  /\ MayWrite
  /\ <<now \div Grain, Size(t)>> \notin stamps[f]
  /\ disk' = [disk EXCEPT ![f] = [text |-> t, mtime |-> now]]
  /\ stamps' = [stamps EXCEPT ![f] = @ \cup {<<now \div Grain, Size(t)>>}]
  /\ untouched' = untouched \ {f}
  /\ UNCHANGED <<now, server, caches, watcher, built>>

Delete(f) ==
  /\ MayWrite /\ now < MaxTime /\ disk[f] # Nothing
  /\ disk' = [disk EXCEPT ![f] = Nothing]
  /\ untouched' = untouched \ {f}
  /\ UNCHANGED <<now, stamps, server, caches, watcher, built>>

-----------------------------------------------------------------------------
(* The first build reads the sources, then remembers their state. *)

\* The native parser opens files itself; the other one is given what read() returns.
Source(f) == IF native THEN disk[f] ELSE Read(f)
Parse(f) ==
  /\ Source(f) # Nothing
  /\ built' = [built EXCEPT ![f] = Source(f).text]
  /\ IF native THEN UNCHANGED readCache ELSE CacheRead(f)

\* Mutation of Start: the sources are not looked for before they are read.
StartUnseen(sources) ==
  /\ phase = "down"
  /\ \A f \in sources : disk[f] # Nothing
  /\ phase' = "build" /\ todo' = sources /\ watched' = sources /\ untouched' = sources
  /\ UNCHANGED <<disk, now, stamps, native, follow, hashing, changed, caches, fileData, built>>

\* The sources are looked for (update_sources, requires_read) before any is read.
Start(sources) ==
  /\ phase = "down"
  /\ \A f \in sources : disk[f] # Nothing
  /\ phase' = "build" /\ todo' = sources /\ watched' = sources /\ untouched' = sources
  /\ statCache' = [f \in File |-> IF f \in sources THEN StatOrNone(f) ELSE statCache[f]]
  /\ UNCHANGED <<disk, now, stamps, native, follow, hashing, changed, readCache, fileData, built>>

Build(f) ==
  /\ phase = "build" /\ f \in todo
  /\ Parse(f)
  /\ todo' = todo \ {f}
  /\ UNCHANGED <<disk, now, stamps, native, phase, follow, hashing, changed, statCache, watcher, untouched>>

Built ==
  /\ phase = "build" /\ todo = {}
  /\ phase' = "store" /\ todo' = watched
  /\ UNCHANGED <<disk, now, stamps, native, follow, hashing, changed, caches, watcher, built, untouched>>

\* Everything starts over with the next request, or with the next daemon.
GiveUp ==
  /\ phase' = "down" /\ hashing' = Nothing /\ todo' = {} /\ changed' = {}
  /\ FlushCaches
  /\ watched' = {} /\ fileData' = Unread /\ built' = Unread /\ untouched' = {}
  /\ UNCHANGED <<disk, now, stamps, native, follow>>

\* A source that cannot be read ends the first build.
BuildFails(f) == phase = "build" /\ f \in todo /\ Source(f) = Nothing /\ GiveUp

-----------------------------------------------------------------------------
(* An increment. *)

Check ==
  /\ phase = "idle"
  /\ phase' = "find" /\ todo' = watched /\ changed' = {} /\ untouched' = watched
  /\ UNCHANGED <<disk, now, stamps, native, follow, hashing, caches, watcher, built>>

\* Mutation of Recheck: a file that is removed is remembered as a missing one.
RecheckMissing(update, remove) ==
  /\ phase = "idle" /\ ~follow
  /\ phase' = "find" /\ todo' = update /\ changed' = {}
  /\ watched' = (watched \ remove) \cup update
  /\ fileData' = [f \in File |-> IF f \in remove THEN NoStat ELSE IF f \notin watched THEN Nothing ELSE fileData[f]]
  /\ untouched' = (untouched \ remove) \cup update
  /\ built' = [f \in File |-> IF f \in remove THEN Nothing ELSE built[f]]
  /\ UNCHANGED <<disk, now, stamps, native, follow, hashing, caches>>

\* recheck --update --remove, only without following imports: update_changed()
Recheck(update, remove) ==
  /\ phase = "idle" /\ ~follow
  /\ phase' = "find" /\ todo' = update /\ changed' = {}
  /\ watched' = (watched \ remove) \cup update
  /\ fileData' = [f \in File |-> IF f \in remove \/ f \notin watched THEN Nothing ELSE fileData[f]]
  /\ untouched' = (untouched \ remove) \cup update
  /\ built' = [f \in File |-> IF f \in remove THEN Nothing ELSE built[f]]
  /\ UNCHANGED <<disk, now, stamps, native, follow, hashing, caches>>

\* Mutation of LooksSame: only the size is compared.
LooksSameBySize(f, st) == fileData[f] # Nothing /\ st.size = fileData[f].size

\* What _find_changed makes of a file with stat st; int() of both times.
LooksSame(f, st) ==
  /\ fileData[f] # Nothing
  /\ st.size = fileData[f].size
  /\ st.mtime \div Second = fileData[f].mtime \div Second

Look(f) ==
  /\ phase \in {"find", "store"} /\ f \in todo /\ hashing = Nothing
  /\ CacheStat(f)
  /\ todo' = todo \ {f}
  /\ \/ /\ StatOrNone(f) = NoStat
        /\ changed' = IF fileData[f] = Nothing THEN changed ELSE changed \cup {f}
        /\ fileData' = [fileData EXCEPT ![f] = Nothing]
        /\ UNCHANGED hashing
     \/ /\ StatOrNone(f) # NoStat /\ LooksSame(f, StatOrNone(f))
        /\ UNCHANGED <<changed, fileData, hashing>>
     \/ /\ StatOrNone(f) # NoStat /\ ~LooksSame(f, StatOrNone(f))
        /\ hashing' = f
        /\ UNCHANGED <<changed, fileData>>
  /\ UNCHANGED <<disk, now, stamps, native, phase, follow, readCache, watched, built, untouched>>

\* hash_digest() reads the file unless the transaction has read it already.
Hash(f) ==
  /\ hashing = f /\ Read(f) # Nothing
  /\ LET st == statCache[f]
         old == fileData[f]
     IN /\ fileData' = [fileData EXCEPT ![f] =
                         [mtime |-> st.mtime, size |-> st.size, hash |-> Read(f).text]]
        /\ changed' = IF old = Nothing \/ st.size # old.size \/ Read(f).text # old.hash
                      THEN changed \cup {f} ELSE changed
  /\ CacheRead(f)
  /\ hashing' = Nothing
  /\ UNCHANGED <<disk, now, stamps, native, phase, follow, todo, statCache, watched, built, untouched>>

\* The file is gone by the time it is read: OSError ends the daemon.
Crash(f) ==
  /\ \/ hashing = f /\ Read(f) = Nothing
     \/ phase = "update" /\ f \in changed /\ statCache[f] # NoStat /\ Source(f) = Nothing
  /\ GiveUp

Found ==
  /\ phase = "find" /\ todo = {} /\ hashing = Nothing
  /\ phase' = "update"
  /\ UNCHANGED <<disk, now, stamps, native, follow, todo, hashing, changed, caches, watcher, built, untouched>>

\* The build processes what changed.
Update(f) ==
  /\ phase = "update" /\ f \in changed
  /\ \/ statCache[f] = NoStat /\ built' = [built EXCEPT ![f] = Nothing] /\ UNCHANGED readCache
     \/ statCache[f] # NoStat /\ Parse(f)
  /\ changed' = changed \ {f}
  /\ UNCHANGED <<disk, now, stamps, native, phase, follow, todo, hashing, statCache, watcher, untouched>>

\* Following imports finds a file that is not watched yet, and loads it.
Discover(f) ==
  /\ phase = "update" /\ follow /\ f \notin watched /\ statCache[f] = Nothing
  /\ CacheStat(f)
  /\ untouched' = untouched \cup {f}
  /\ UNCHANGED <<disk, now, stamps, server, readCache, watcher, built>>

Load(f) ==
  /\ phase = "update" /\ f \notin watched
  /\ statCache[f] \notin {Nothing, NoStat}
  /\ Parse(f)
  /\ watched' = watched \cup {f} /\ fileData' = [fileData EXCEPT ![f] = Nothing]
  /\ UNCHANGED <<disk, now, stamps, server, statCache, untouched>>

\* Mutation of Updated: the second look does not use the caches.
UpdatedAnew ==
  /\ phase = "update" /\ changed = {}
  /\ phase' = IF follow THEN "store" ELSE "flush"
  /\ todo' = IF follow THEN watched ELSE {}
  /\ FlushCaches
  /\ UNCHANGED <<disk, now, stamps, native, follow, hashing, changed, watcher, built, untouched>>

Updated ==
  /\ phase = "update" /\ changed = {}
  /\ phase' = IF follow THEN "store" ELSE "flush"
  /\ todo' = IF follow THEN watched ELSE {}
  /\ UNCHANGED <<disk, now, stamps, native, follow, hashing, changed, caches, watcher, built, untouched>>

Stored ==
  /\ phase = "store" /\ todo = {} /\ hashing = Nothing
  /\ phase' = "flush" /\ changed' = {}
  /\ UNCHANGED <<disk, now, stamps, native, follow, todo, hashing, caches, watcher, built, untouched>>

\* flush_caches() at the end of a request
Flush ==
  /\ phase = "flush"
  /\ phase' = "idle" /\ FlushCaches
  /\ UNCHANGED <<disk, now, stamps, native, follow, todo, hashing, changed, watcher, built, untouched>>

Next ==
  \/ Tick
  \/ \E f \in File : Delete(f) \/ \E t \in Written[f] : Edit(f, t)
  \/ \E sources \in (SUBSET File) \ {{}} : Start(sources)
  \/ \E f \in File : Build(f) \/ BuildFails(f)
  \/ Built \/ Check
  \/ \E update \in SUBSET File : \E remove \in SUBSET (File \ update) : Recheck(update, remove)
  \/ \E f \in File : Look(f) \/ Hash(f) \/ Crash(f) \/ Update(f) \/ Discover(f) \/ Load(f)
  \/ Found \/ Updated \/ Stored \/ Flush

Spec == Init /\ [][Next]_vars

-----------------------------------------------------------------------------
(* Properties. *)

\* Every variable keeps its type.
TypeOK ==
  /\ disk \in [File -> Version \cup {Nothing}] /\ now \in Time
  /\ phase \in {"down", "build", "find", "update", "store", "flush", "idle"}
  /\ native \in BOOLEAN /\ follow \in BOOLEAN /\ todo \subseteq File /\ hashing \in File \cup {Nothing} /\ changed \subseteq File
  /\ statCache \in [File -> Stat \cup {NoStat, Nothing}]
  /\ readCache \in [File -> Version \cup {Nothing}]
  /\ watched \subseteq File /\ fileData \in [File -> FileData \cup {Nothing}]
  /\ built \in [File -> Text \cup {Nothing}] /\ untouched \subseteq File

\* When a request has been answered, the build has processed the present text of
\* every watched file that nobody has written since it was last looked for: no
\* edit is lost, whenever it falls between the stat, the read and the two looks
\* of a transaction.  It takes an editor that never writes two texts of one size
\* in one Grain.
UpToDate ==
  phase = "idle" => \A f \in watched \cap untouched : built[f] = TextOf(disk[f])

\* "The contents of the file are always from the same or later time compared to
\* the reported mtime of the file, even if mtime is queried after reading a file"
\* (FileSystemCache).
ContentNotOlder ==
  \A f \in File : readCache[f] # Nothing /\ statCache[f] \in Stat => readCache[f].mtime >= statCache[f].mtime

\* Between requests, a hash the watcher remembers is that of the text the build has
\* processed: a look never takes note of a text that is then not processed.
RememberedIsBuilt ==
  phase = "idle" => \A f \in watched : fileData[f] # Nothing => built[f] = fileData[f].hash
=============================================================================
