-------------------------- MODULE RotatingFileSink --------------------------
(***************************************************************************)
(* spdlite::rotating_file_sink: a log file with a size cap, whose full     *)
(* files are renamed to numbered archives of which a window is kept.       *)
(*                                                                         *)
(* The sink object lives in one process and dies with it; the directory    *)
(* survives. Every call that touches the directory is a step of its own,   *)
(* so that a crash, or the failure of one call, can fall between any two.  *)
(* A file is the set of log lines it holds, each with its byte range; the  *)
(* bytes past `synced` are still in the stdio buffer. An absent active     *)
(* file and an empty one are the same state: opening makes them the same.  *)
(***************************************************************************)
EXTENDS Naturals

CONSTANTS
  MaxSize,      \* max_size of the constructor
  WindowSizes,  \* the max_files values a (re)start may be configured with
  MaxAttempts,  \* max_attempts of try_rename_ (5 in the code)
  SizeMax,      \* numeric_limits<size_t>::max(), the width of the counter
  MsgSizes,     \* sizes of the formatted lines handed to write()
  MaxMsgs,      \* bound: how many write() calls a behaviour makes
  InitTop,      \* highest archive index a file may have before the first start
  InitKinds,    \* what those entries may be
  InitSizes,    \* sizes the active file may have before the first start
  Faults        \* which environment failures happen

(* The process dies; a stdio write ends early when it is asked for ("short") *)
(* or when the buffer is written out ("close"); a rename or a remove fails;  *)
(* the file cannot be opened; the directory cannot be listed ("scan"); the   *)
(* status of an entry or the size of the active file cannot be read.         *)
FaultKinds == {"crash", "close", "short", "rename", "remove", "open", "scan", "stat"}

max_files_limit == 1000

(* What a directory entry with an archive's name can be. *)
Kinds == {"absent", "regular", "symlink", "emptydir", "fulldir"}

ASSUME SinkAssumption ==
  /\ MaxSize \in Nat \ {0}
  /\ WindowSizes # {} /\ WindowSizes \subseteq 0 .. max_files_limit
  /\ MaxAttempts \in Nat \ {0}
  /\ MsgSizes \subseteq Nat \ {0}
  /\ MaxMsgs \in Nat
  /\ SizeMax \in Nat /\ InitTop \in Nat /\ InitTop < SizeMax
  /\ InitKinds \subseteq Kinds
  /\ InitSizes # {} /\ InitSizes \subseteq Nat
  /\ Faults \subseteq FaultKinds

VARIABLES
  \* the sink object
  pc,            \* the next directory call of the constructor or of write()
  file_open,     \* file_ is not null
  current_size,  \* current_size_
  next_index,    \* next_index_
  max_files,     \* max_files_
  attempt,       \* the loop counter of try_rename_
  pending,       \* bytes of the line being written
  \* the directory
  size,          \* bytes of the active file, stdio buffer included
  synced,        \* how many of them the kernel has
  lines,         \* lines of the active file
  kind,          \* entry named archive_path_(i), for every index i
  archive,       \* lines of that entry when it is a regular file
  \* history
  nmsg,          \* write() calls so far; the id of the latest line
  used,          \* highest index an active file was renamed to
  listed,        \* no constructor has overlooked the highest archive
  undeleted,     \* archives this process should have removed and has left
  uncounted      \* bytes of the open active file that current_size_ misses

sinkVars == <<pc, file_open, current_size, next_index, max_files, attempt, pending>>
fileVars == <<size, synced, lines>>
dirVars  == <<kind, archive>>
histVars == <<nmsg, used, listed, undeleted, uncounted>>
vars == <<sinkVars, fileVars, dirVars, histVars>>

Index == 0 .. SizeMax
Line  == [id : Nat, from : Nat, to : Nat, uncounted : Nat]

-----------------------------------------------------------------------------
(* parse_archive_index_ rejects 0 and SIZE_MAX; the scan also skips what is *)
(* not a regular file.                                                      *)
Archives == {i \in 1 .. SizeMax - 1 : kind[i] = "regular"}

(* What scan_and_prune_archives_ returns when it could read every entry.    *)
(* Mutation: the last archive listed instead of the highest.                *)
IsLastListed(h) == h \in Archives \/ (h = 0 /\ Archives = {})
IsHighest(h) ==
  /\ h \in Archives \/ (h = 0 /\ Archives = {})
  /\ \A i \in Archives : i <= h

(* Archives below [highest - max_files_ + 1, highest]. Mutations: the bound  *)
(* off by one, either way.                                                  *)
OrphansTooFew == {i \in Archives : i + max_files + 1 < next_index}
OrphansTooMany == {i \in Archives : i + max_files <= next_index}
Orphans == {i \in Archives : i + max_files < next_index}

(* ++next_index_ on a size_t. Mutation: the index wraps within the window. *)
IncrementInWindow(n) == (n % max_files) + 1
Increment(n) == IF n = SizeMax THEN 0 ELSE n + 1

(* The entry that can be left after filesystem::remove of an entry k. *)
AfterRemove(k) ==
  CASE k = "absent"  -> {"absent"}
    [] k = "fulldir" -> {"fulldir"}
    [] OTHER -> {"absent"} \cup (IF "remove" \in Faults THEN {k} ELSE {})

SetEntry(i, k) ==
  /\ kind' = [kind EXCEPT ![i] = k]
  /\ archive' = [archive EXCEPT ![i] = IF k = "regular" THEN @ ELSE {}]

(* Only the first n bytes of the active file survive. Mutation: the count   *)
(* of bytes the kernel has is not reset.                                    *)
KeepNotSynced(n) ==
  /\ size' = n
  /\ lines' = {e \in lines : e.to <= n}
  /\ UNCHANGED synced
Keep(n) ==
  /\ size' = n
  /\ synced' = n
  /\ lines' = {e \in lines : e.to <= n}

(* fclose and fflush write the buffer out, unless the write fails midway. *)
AfterClose == IF "close" \in Faults THEN synced .. size ELSE {size}

(* Mutation: the cap is tested before the line is added. *)
NeedsRotationLate(bytes) == current_size > MaxSize
NeedsRotation(bytes) == current_size + bytes > MaxSize /\ current_size > 0

-----------------------------------------------------------------------------
Init ==
  /\ pc = "down"
  /\ file_open = FALSE
  /\ current_size = 0
  /\ next_index = 1
  /\ max_files \in WindowSizes
  /\ attempt = 0
  /\ pending = 0
  /\ size \in InitSizes
  /\ synced = size
  /\ lines = {}
  /\ \E k \in [1 .. InitTop -> InitKinds] :
       kind = [i \in Index |-> IF i \in 1 .. InitTop THEN k[i] ELSE "absent"]
  /\ archive = [i \in Index |-> {}]
  /\ nmsg = 0
  /\ used = 0
  /\ listed = TRUE
  /\ undeleted = {}
  /\ uncounted = 0

(* The constructor up to the end of the first pass over the directory.     *)
(* `highest` is the index found.                                           *)
Construct(highest) ==
  /\ pc = "down"
  /\ max_files' \in WindowSizes
  /\ next_index' = highest + 1
  /\ pc' = IF highest > max_files' THEN "relist" ELSE "open"
  /\ UNCHANGED <<file_open, current_size, attempt, pending, fileVars, dirVars,
                 nmsg, used, undeleted, uncounted>>

ScanArchives ==
  /\ \E h \in 0 .. SizeMax - 1 : IsHighest(h) /\ Construct(h)
  /\ UNCHANGED listed

(* A directory that cannot be listed looks empty, and an entry whose status *)
(* cannot be read is skipped like one that is no regular file.              *)
ScanFails ==
  /\ \E h \in Archives \cup {0} :
       /\ ~IsHighest(h)
       /\ "stat" \in Faults \/ ("scan" \in Faults /\ h = 0)
       /\ Construct(h)
  /\ listed' = FALSE

(* The second pass opens the directory again; when that fails it is empty.  *)
Relist ==
  /\ pc = "relist"
  /\ pc' = "sweep"
  /\ UNCHANGED <<file_open, current_size, next_index, max_files, attempt, pending,
                 fileVars, dirVars, histVars>>

RelistFails ==
  /\ pc = "relist"
  /\ "scan" \in Faults
  /\ undeleted' = undeleted \cup Orphans
  /\ pc' = "open"
  /\ UNCHANGED <<file_open, current_size, next_index, max_files, attempt, pending,
                 fileVars, dirVars, nmsg, used, listed, uncounted>>

(* It removes the orphans in directory order, which is any order. The error *)
(* code of a failed remove is the one the loop tests, so one failure ends   *)
(* the pass; one of a status only skips the entry.                          *)
SweepRemove ==
  /\ pc = "sweep"
  /\ \E i \in Orphans \ undeleted : SetEntry(i, "absent")
  /\ UNCHANGED <<sinkVars, fileVars, histVars>>

SweepSkips ==
  /\ pc = "sweep"
  /\ "stat" \in Faults
  /\ \E i \in Orphans \ undeleted : undeleted' = undeleted \cup {i}
  /\ UNCHANGED <<sinkVars, fileVars, dirVars, nmsg, used, listed, uncounted>>

SweepFails ==
  /\ pc = "sweep"
  /\ "remove" \in Faults
  /\ ~(Orphans \subseteq undeleted)
  /\ undeleted' = undeleted \cup Orphans
  /\ pc' = "open"
  /\ UNCHANGED <<file_open, current_size, next_index, max_files, attempt, pending,
                 fileVars, dirVars, nmsg, used, listed, uncounted>>

SweepDone ==
  /\ pc = "sweep"
  /\ Orphans \subseteq undeleted
  /\ pc' = "open"
  /\ UNCHANGED <<file_open, current_size, next_index, max_files, attempt, pending,
                 fileVars, dirVars, histVars>>

(* The end of the constructor: file_size of the active file, open_(false).  *)
(* Mutation: the file is opened with open_(true).                           *)
OpenTruncated ==
  /\ pc = "open"
  /\ Keep(0)
  /\ current_size' = 0
  /\ uncounted' = 0
  /\ file_open' = TRUE
  /\ pc' = "ready"
  /\ UNCHANGED <<next_index, max_files, attempt, pending, dirVars, nmsg, used, listed, undeleted>>

OpenActive ==
  /\ pc = "open"
  /\ current_size' = size
  /\ uncounted' = 0
  /\ file_open' = TRUE
  /\ pc' = "ready"
  /\ UNCHANGED <<next_index, max_files, attempt, pending, fileVars, dirVars,
                 nmsg, used, listed, undeleted>>

(* file_size fails: current_size_ keeps its initial 0 and the file is opened *)
(* for appending all the same.                                               *)
OpenUnmeasured ==
  /\ pc = "open"
  /\ "stat" \in Faults
  /\ uncounted' = size
  /\ file_open' = TRUE
  /\ pc' = "ready"
  /\ UNCHANGED <<current_size, next_index, max_files, attempt, pending, fileVars, dirVars,
                 nmsg, used, listed, undeleted>>

(* Advancing the directory iterator and open_ throw out of the constructor. *)
ConstructThrows ==
  /\ \/ pc = "sweep" /\ "scan" \in Faults
     \/ pc = "open" /\ "open" \in Faults
  /\ pc' = "down"
  /\ next_index' = 1
  /\ undeleted' = {}
  /\ UNCHANGED <<file_open, current_size, max_files, attempt, pending, fileVars, dirVars,
                 nmsg, used, listed, uncounted>>

-----------------------------------------------------------------------------
(* write(), up to its first directory call. *)
DropDegraded ==
  /\ ~file_open
  /\ UNCHANGED <<sinkVars, fileVars>>

BeginAppend(bytes) ==
  /\ file_open /\ ~NeedsRotation(bytes)
  /\ pc' = "append"
  /\ pending' = bytes
  /\ UNCHANGED <<file_open, current_size, next_index, max_files, attempt, fileVars>>

BeginRotate(bytes) ==
  /\ file_open /\ NeedsRotation(bytes)
  /\ pc' = "rename"
  /\ pending' = bytes
  /\ attempt' = 0
  /\ file_open' = FALSE
  /\ \E n \in AfterClose : Keep(n)
  /\ UNCHANGED <<current_size, next_index, max_files>>

Write(bytes) ==
  /\ pc = "ready"
  /\ nmsg < MaxMsgs
  /\ nmsg' = nmsg + 1
  /\ DropDegraded \/ BeginAppend(bytes) \/ BeginRotate(bytes)
  /\ UNCHANGED <<dirVars, used, listed, undeleted, uncounted>>

(* One round of try_rename_: remove the target, then rename over it. *)
RenameSucceeds ==
  /\ pc = "rename"
  /\ AfterRemove(kind[next_index]) \cap {"absent", "regular", "symlink"} # {}
  /\ kind' = [kind EXCEPT ![next_index] = "regular"]
  /\ archive' = [archive EXCEPT ![next_index] = lines]
  /\ size' = 0 /\ synced' = 0 /\ lines' = {}
  /\ used' = IF next_index > used THEN next_index ELSE used
  /\ next_index' = Increment(next_index)
  /\ pc' = "trim"
  /\ UNCHANGED <<file_open, current_size, max_files, attempt, pending, nmsg,
                 listed, undeleted, uncounted>>

(* Mutation: no limit on the retries. *)
RenameRetries ==
  /\ pc = "rename"
  /\ \E k \in AfterRemove(kind[next_index]) :
       /\ "rename" \in Faults \/ k \in {"emptydir", "fulldir"}
       /\ SetEntry(next_index, k)
  /\ UNCHANGED <<sinkVars, fileVars, histVars>>

RenameFails ==
  /\ pc = "rename"
  /\ \E k \in AfterRemove(kind[next_index]) :
       /\ "rename" \in Faults \/ k \in {"emptydir", "fulldir"}
       /\ SetEntry(next_index, k)
  /\ attempt' = attempt + 1
  /\ pc' = IF attempt + 1 < MaxAttempts THEN "rename" ELSE "truncate"
  /\ UNCHANGED <<file_open, current_size, next_index, max_files, pending, fileVars, histVars>>

(* rotate_ drops the archive that left the window. *)
Trim ==
  /\ pc = "trim"
  /\ IF next_index > max_files + 1
     THEN LET i == next_index - max_files - 1
          IN  \E k \in AfterRemove(kind[i]) :
                /\ SetEntry(i, k)
                /\ undeleted' = IF k = "regular" THEN undeleted \cup {i} ELSE undeleted
     ELSE UNCHANGED <<dirVars, undeleted>>
  /\ pc' = "reopen"
  /\ UNCHANGED <<file_open, current_size, next_index, max_files, attempt, pending,
                 fileVars, nmsg, used, listed, uncounted>>

(* open_(false) after a rename, open_(true) after none succeeded. *)
Reopen ==
  /\ pc \in {"reopen", "truncate"}
  /\ Keep(0)
  /\ file_open' = TRUE
  /\ current_size' = 0
  /\ uncounted' = 0
  /\ pc' = "append"
  /\ UNCHANGED <<next_index, max_files, attempt, pending, dirVars, nmsg, used, listed, undeleted>>

(* open_ throws out of write(); file_ stays null and the line is lost. *)
ReopenThrows ==
  /\ pc \in {"reopen", "truncate"}
  /\ "open" \in Faults
  /\ pc' = "ready"
  /\ pending' = 0
  /\ UNCHANGED <<file_open, current_size, next_index, max_files, attempt, fileVars, dirVars, histVars>>

(* fwrite_bytes, the last step of write(). *)
Append ==
  /\ pc = "append"
  /\ lines' = lines \cup {[id |-> nmsg, from |-> size, to |-> size + pending, uncounted |-> uncounted]}
  /\ size' = size + pending
  /\ current_size' = current_size + pending
  /\ pc' = "ready"
  /\ pending' = 0
  /\ UNCHANGED <<file_open, next_index, max_files, attempt, synced, dirVars, histVars>>

(* A short write leaves its bytes in the file and current_size_ as it was. *)
AppendShort ==
  /\ pc = "append"
  /\ "short" \in Faults
  /\ \E n \in 0 .. pending - 1 : size' = size + n /\ uncounted' = uncounted + n
  /\ pc' = "ready"
  /\ pending' = 0
  /\ UNCHANGED <<file_open, current_size, next_index, max_files, attempt, synced, lines,
                 dirVars, nmsg, used, listed, undeleted>>

Flush ==
  /\ pc = "ready" /\ file_open
  /\ synced' \in AfterClose
  /\ UNCHANGED <<sinkVars, size, lines, dirVars, histVars>>

-----------------------------------------------------------------------------
(* The process ends: by the sink's destructor, or anywhere by a crash. *)
Die ==
  /\ pc' = "down"
  /\ file_open' = FALSE
  /\ current_size' = 0
  /\ next_index' = 1
  /\ attempt' = 0
  /\ pending' = 0
  /\ undeleted' = {}
  /\ uncounted' = 0
  /\ UNCHANGED <<max_files, dirVars, nmsg, used, listed>>

Destroy ==
  /\ pc = "ready"
  /\ \E n \in AfterClose : Keep(n)
  /\ Die

Crash ==
  /\ "crash" \in Faults
  /\ pc # "down"
  /\ \E n \in synced .. size : Keep(n)
  /\ Die

SinkStep ==
  \/ Relist \/ RelistFails \/ SweepRemove \/ SweepSkips \/ SweepFails \/ SweepDone
  \/ OpenActive \/ OpenUnmeasured \/ ConstructThrows
  \/ RenameSucceeds \/ RenameFails \/ Trim \/ Reopen \/ ReopenThrows
  \/ Append \/ AppendShort

Next ==
  \/ ScanArchives \/ ScanFails
  \/ \E bytes \in MsgSizes : Write(bytes)
  \/ SinkStep
  \/ Flush \/ Destroy \/ Crash

(* The thread inside the constructor or inside write() keeps running. *)
Spec == Init /\ [][Next]_vars /\ WF_vars(SinkStep)

-----------------------------------------------------------------------------
(* Every variable has its type; a closed or dead sink has nothing pending.  *)
TypeOK ==
  /\ pc \in {"down", "relist", "sweep", "open", "ready", "rename", "trim", "reopen", "truncate", "append"}
  /\ file_open \in BOOLEAN
  /\ current_size \in Nat /\ pending \in Nat
  /\ attempt \in 0 .. MaxAttempts /\ (pc = "rename" => attempt < MaxAttempts)
  /\ next_index \in Index
  /\ max_files \in WindowSizes
  /\ size \in Nat /\ synced \in 0 .. size
  /\ lines \subseteq Line
  /\ kind \in [Index -> Kinds]
  /\ archive \in [Index -> SUBSET Line]
  /\ nmsg \in 0 .. MaxMsgs
  /\ used \in Index
  /\ listed \in BOOLEAN
  /\ undeleted \subseteq Index
  /\ uncounted \in Nat

Before(S, T) == \A d \in S, e \in T : d.id < e.id

Disjoint(S) == \A d, e \in S : d.id < e.id => d.to <= e.from

(* Read in index order and then the active file, the lines on disk are in   *)
(* the order they were written, across rotations, crashes and restarts, and *)
(* no two lines of a file overlap.                                          *)
Chronological ==
  listed =>
    /\ \A i \in Index : Before(archive[i], lines)
    /\ \A i, j \in Index : i < j => Before(archive[i], archive[j])
    /\ Disjoint(lines)

(* try_rename_ removes its target first: the target is never an archive.    *)
NoClobber ==
  pc = "rename" /\ listed => kind[next_index] # "regular"

(* current_size_ bounds the real file: a line reaches past max_size only as *)
(* the first counted line of its file, also in a file taken over from an    *)
(* earlier process. What a short write left, and an active file whose size  *)
(* could not be read, are not counted and come on top of max_size.          *)
WithinCap(S) == \A e \in S : e.from > e.uncounted => e.to <= MaxSize + e.uncounted

CapHolds == WithinCap(lines) /\ \A i \in Index : WithinCap(archive[i])

(* Between calls every archive is below the counter, and within max_files   *)
(* of it but for those this process should have removed and could not,      *)
(* whatever window the process before this one used.                        *)
WindowHolds ==
  pc = "ready" /\ listed =>
    \A i \in Archives : i < next_index /\ (i \notin undeleted => next_index <= i + max_files)

(* The counter resumes across restarts: an index once used for an archive   *)
(* is not used again as long as the window keeps at least one archive.      *)
CounterResumes ==
  0 \notin WindowSizes /\ pc # "down" /\ listed => used < next_index

(* The lines in the directory. *)
OnDisk(m) == (\E e \in lines : e.id = m) \/ \E i \in Index : \E e \in archive[i] : e.id = m

(* What a step may lose: archives that are out of the window, the active    *)
(* file once every rename failed, and lines that were still (in part) in    *)
(* the stdio buffer. In particular a flushed line survives any crash, and a *)
(* restart, a rename or a reopen loses nothing.                             *)
MayLose(m) ==
  \/ \E i \in Archives : i + max_files' < next_index' /\ \E e \in archive[i] : e.id = m
  \/ pc = "truncate" /\ attempt = MaxAttempts /\ \E e \in lines : e.id = m
  \/ \E e \in lines : e.id = m /\ synced < e.to

NothingElseLoses ==
  [][ listed =>
        \A m \in 1 .. MaxMsgs : OnDisk(m) /\ ~OnDisk(m)' => MayLose(m) ]_vars

(* Neither the constructor nor write() runs forever: the retries end.       *)
CallReturns == pc \notin {"down", "ready"} ~> pc \in {"down", "ready"}

-----------------------------------------------------------------------------
(* What comments and tests say of the sink and some behaviour contradicts.  *)

(* "archives use a monotonic counter that resumes across restarts": also    *)
(* after a directory that could not be listed.                              *)
ResumesAlways ==
  0 \notin WindowSizes /\ pc = "rename" => used < next_index

=============================================================================
