----------------------- MODULE RotatingFileSinkProofs -----------------------
(* Proofs about RotatingFileSink for every value of its constants. Every    *)
(* invariant is proved from IInv of RotatingFileSinkInv, one lemma for each *)
(* part of it: the part holds after any step from a state in which IInv     *)
(* holds.                                                                   *)
EXTENDS RotatingFileSinkInv, TLAPS

(* A step is one of the named actions: the case split of every lemma.       *)
LEMMA StepCases ==
  ASSUME [Next]_vars
  PROVE  \/ ScanArchives \/ ScanFails \/ Relist \/ RelistFails
         \/ SweepRemove \/ SweepSkips \/ SweepFails \/ SweepDone
         \/ OpenActive \/ OpenUnmeasured \/ ConstructThrows
         \/ (\E bytes \in MsgSizes : Write(bytes))
         \/ RenameSucceeds \/ RenameFails \/ Trim \/ Reopen \/ ReopenThrows
         \/ Append \/ AppendShort \/ Flush \/ Destroy \/ Crash \/ UNCHANGED vars
BY DEF Next, SinkStep

(* filesystem::remove leaves nothing or what was there.                     *)
LEMMA AfterRemoveType ==
  ASSUME NEW k0 \in Kinds, NEW k \in AfterRemove(k0)
  PROVE  k \in {k0, "absent"} /\ k \in Kinds
BY DEF AfterRemove, Kinds

(* A wrapped or a successor index is still a size_t.                        *)
LEMMA IndexType ==
  /\ 0 \in Index /\ 1 \in Index
  /\ \A i \in Index : Increment(i) \in Index
  /\ \A h \in 0 .. SizeMax - 1 : h + 1 \in Index
BY SinkAssumption DEF Index, Increment

LEMMA ArchivesType == Orphans \subseteq Archives /\ Archives \subseteq Index
BY SinkAssumption DEF Orphans, Archives, Index

LEMMA WindowType == WindowSizes \subseteq Nat
BY SinkAssumption DEF max_files_limit

(* Cutting the active file keeps its type.                                  *)
LEMMA KeepType ==
  ASSUME TypeOK, NEW n \in Nat, Keep(n)
  PROVE  size' \in Nat /\ synced' \in 0 .. size' /\ lines' \subseteq Line
BY DEF TypeOK, Keep

(* What survives a close or a crash is a number of bytes of the file.       *)
LEMMA SurvivingType ==
  ASSUME TypeOK
  PROVE  AfterClose \subseteq synced .. size /\ synced .. size \subseteq Nat
BY DEF TypeOK, AfterClose

LEMMA SetEntryType ==
  ASSUME TypeOK, NEW i \in Index, NEW k \in Kinds, SetEntry(i, k)
  PROVE  kind' \in [Index -> Kinds] /\ archive' \in [Index -> SUBSET Line]
BY DEF TypeOK, SetEntry

LEMMA InitType == Init => TypeOK
<1> SUFFICES ASSUME Init PROVE TypeOK
  OBVIOUS
<1>1. PICK k \in [1 .. InitTop -> InitKinds] :
        kind = [i \in Index |-> IF i \in 1 .. InitTop THEN k[i] ELSE "absent"]
  BY DEF Init
<1>2. \A i \in 1 .. InitTop : k[i] \in Kinds
  BY <1>1, SinkAssumption
<1>3. kind \in [Index -> Kinds]
  BY <1>1, <1>2 DEF Kinds
<1>4. size \in Nat /\ synced \in 0 .. size
  BY SinkAssumption DEF Init
<1>5. archive \in [Index -> SUBSET Line] /\ lines \subseteq Line
  BY DEF Init
<1>6. attempt \in 0 .. MaxAttempts /\ nmsg \in 0 .. MaxMsgs
  BY SinkAssumption DEF Init
<1>. QED BY <1>3, <1>4, <1>5, <1>6, IndexType DEF Init, TypeOK

LEMMA TypeStep ==
  ASSUME TypeOK, [Next]_vars
  PROVE  TypeOK'
<1> USE DEF TypeOK
<1>1. CASE ScanArchives
  BY <1>1, IndexType DEF ScanArchives, Construct, fileVars, dirVars
<1>2. CASE ScanFails
  <2>1. PICK h \in 0 .. SizeMax - 1 : Construct(h)
    BY <1>2, SinkAssumption DEF ScanFails, Archives
  <2>. QED BY <1>2, <2>1, IndexType DEF ScanFails, Construct, fileVars, dirVars
<1>3. CASE SweepRemove
  <2>1. PICK i \in Index : SetEntry(i, "absent")
    BY <1>3, ArchivesType DEF SweepRemove
  <2>2. kind' \in [Index -> Kinds] /\ archive' \in [Index -> SUBSET Line]
    BY <2>1, SetEntryType DEF Kinds
  <2>. QED BY <1>3, <2>2 DEF SweepRemove, sinkVars, fileVars, histVars
<1>4. CASE RelistFails \/ SweepSkips \/ SweepFails
  BY <1>4, ArchivesType DEF RelistFails, SweepSkips, SweepFails, sinkVars, fileVars, dirVars
<1>5. CASE Relist \/ SweepDone
  BY <1>5 DEF Relist, SweepDone, fileVars, dirVars, histVars
<1>6. CASE OpenActive \/ OpenUnmeasured
  <2>1. CASE OpenActive
    BY <2>1 DEF OpenActive, fileVars, dirVars
  <2>2. CASE OpenUnmeasured
    BY <2>2 DEF OpenUnmeasured, fileVars, dirVars
  <2>. QED BY <1>6, <2>1, <2>2
<1>7. CASE ConstructThrows
  BY <1>7, IndexType DEF ConstructThrows, fileVars, dirVars, histVars
<1>8. ASSUME NEW bytes \in MsgSizes, Write(bytes)
      PROVE  TypeOK'
  <2>0. bytes \in Nat /\ nmsg' \in 0 .. MaxMsgs /\ 0 \in 0 .. MaxAttempts /\ 0 < MaxAttempts
    BY <1>8, SinkAssumption DEF Write
  <2>1. CASE DropDegraded
    BY <1>8, <2>0, <2>1 DEF Write, DropDegraded, sinkVars, fileVars, dirVars
  <2>2. CASE BeginAppend(bytes)
    BY <1>8, <2>0, <2>2 DEF Write, BeginAppend, fileVars, dirVars
  <2>3. CASE BeginRotate(bytes)
    <3>1. PICK n \in Nat : Keep(n)
      BY <2>3, SurvivingType DEF BeginRotate
    <3>2. size' \in Nat /\ synced' \in 0 .. size' /\ lines' \subseteq Line
      BY <3>1, KeepType
    <3>. QED BY <1>8, <2>0, <2>3, <3>2 DEF Write, BeginRotate, dirVars
  <2>. QED BY <1>8, <2>1, <2>2, <2>3 DEF Write
<1>9. CASE RenameSucceeds
  BY <1>9, IndexType DEF RenameSucceeds, Kinds
<1>10. CASE RenameFails
  <2>1. PICK k \in Kinds : SetEntry(next_index, k)
    BY <1>10, AfterRemoveType DEF RenameFails
  <2>2. kind' \in [Index -> Kinds] /\ archive' \in [Index -> SUBSET Line]
    BY <2>1, SetEntryType
  <2>3. attempt + 1 \in 0 .. MaxAttempts
    BY <1>10, SinkAssumption DEF RenameFails
  <2>. QED BY <1>10, <2>2, <2>3 DEF RenameFails, fileVars, histVars
<1>11. CASE Trim
  <2>1. CASE next_index > max_files + 1
    <3> DEFINE i == next_index - max_files - 1
    <3>1. i \in Index
      BY <2>1, WindowType, SinkAssumption DEF Index
    <3>2. PICK k \in AfterRemove(kind[i]) :
            /\ SetEntry(i, k)
            /\ undeleted' = IF k = "regular" THEN undeleted \cup {i} ELSE undeleted
      BY <1>11, <2>1 DEF Trim
    <3>3. k \in Kinds
      BY <3>1, <3>2, AfterRemoveType
    <3>4. kind' \in [Index -> Kinds] /\ archive' \in [Index -> SUBSET Line]
      BY <3>1, <3>2, <3>3, SetEntryType
    <3>. QED BY <1>11, <3>1, <3>2, <3>4 DEF Trim, fileVars
  <2>2. CASE ~(next_index > max_files + 1)
    BY <1>11, <2>2 DEF Trim, dirVars, fileVars
  <2>. QED BY <2>1, <2>2
<1>12. CASE Reopen
  <2>1. size' \in Nat /\ synced' \in 0 .. size' /\ lines' \subseteq Line
    BY <1>12, KeepType DEF Reopen
  <2>. QED BY <1>12, <2>1 DEF Reopen, dirVars, histVars
<1>13. CASE ReopenThrows
  BY <1>13 DEF ReopenThrows, fileVars, dirVars, histVars
<1>14. CASE Append
  <2>1. [id |-> nmsg, from |-> size, to |-> size + pending, uncounted |-> uncounted] \in Line
    BY SinkAssumption DEF Line
  <2>. QED BY <1>14, <2>1 DEF Append, dirVars, histVars
<1>15. CASE AppendShort
  BY <1>15 DEF AppendShort, dirVars
<1>16. CASE Flush
  BY <1>16, SurvivingType DEF Flush, sinkVars, dirVars, histVars
<1>17. ASSUME NEW n \in synced .. size, Keep(n), Die
       PROVE  TypeOK'
  <2>1. size' \in Nat /\ synced' \in 0 .. size' /\ lines' \subseteq Line
    BY <1>17, SurvivingType, KeepType
  <2>2. 0 \in 0 .. MaxAttempts
    BY SinkAssumption
  <2>. QED BY <1>17, <2>1, <2>2, IndexType DEF Die, dirVars, histVars
<1>18. CASE Destroy \/ Crash
  BY <1>17, <1>18, SurvivingType DEF Destroy, Crash
<1>19. CASE UNCHANGED vars
  BY <1>19 DEF vars, sinkVars, fileVars, dirVars, histVars
<1>. QED
  BY <1>1, <1>2, <1>3, <1>4, <1>5, <1>6, <1>7, <1>8, <1>9, <1>10, <1>11, <1>12,
     <1>13, <1>14, <1>15, <1>16, <1>18, <1>19, StepCases

(* The sink's variables keep their types; in particular next_index_ stays a *)
(* size_t through the wrap of ++next_index_ and archive_path_ is never      *)
(* asked for an index outside it.                                           *)
THEOREM TypeCorrect == Spec => []TypeOK
BY InitType, TypeStep, PTL DEF Spec

-----------------------------------------------------------------------------
(* Only a rename makes an archive: every other step leaves the archives or  *)
(* removes some, and an entry that is no archive has no lines.              *)
Shrinks ==
  /\ Archives' \subseteq Archives
  /\ \A j \in Index : kind'[j] = "regular" => kind[j] = "regular"
  /\ \A j \in Index : archive'[j] \subseteq archive[j]
  /\ \A j \in Index : kind[j] = "regular" /\ archive'[j] # {} => kind'[j] = "regular"

LEMMA SetEntryEffect ==
  ASSUME TypeOK, NEW i \in Index, NEW k \in {kind[i], "absent"}, SetEntry(i, k)
  PROVE  /\ Shrinks
         /\ kind'[i] = k
         /\ \A j \in Index \ {i} : kind'[j] = kind[j] /\ archive'[j] = archive[j]
<1>1. /\ kind'[i] = k
      /\ \A j \in Index \ {i} : kind'[j] = kind[j] /\ archive'[j] = archive[j]
      /\ archive'[i] = IF k = "regular" THEN archive[i] ELSE {}
  BY DEF TypeOK, SetEntry
<1>2. \A j \in Index : kind'[j] = "regular" => kind[j] = "regular"
  BY <1>1
<1>3. Archives' \subseteq Archives
  BY <1>2, SinkAssumption DEF Archives, Index
<1>. QED BY <1>1, <1>2, <1>3 DEF Shrinks

LEMMA TrimEffect ==
  ASSUME TypeOK, Trim, next_index > max_files + 1
  PROVE  /\ next_index - max_files - 1 \in Index
         /\ \E k \in {kind[next_index - max_files - 1], "absent"} :
              /\ SetEntry(next_index - max_files - 1, k)
              /\ undeleted \subseteq undeleted'
              /\ k = "regular" => next_index - max_files - 1 \in undeleted'
<1> DEFINE i == next_index - max_files - 1
<1>1. i \in Index
  BY WindowType, SinkAssumption DEF TypeOK, Index
<1>2. PICK k \in AfterRemove(kind[i]) :
        /\ SetEntry(i, k)
        /\ undeleted' = IF k = "regular" THEN undeleted \cup {i} ELSE undeleted
  BY DEF Trim
<1>3. k \in {kind[i], "absent"}
  BY <1>1, <1>2, AfterRemoveType DEF TypeOK
<1>. QED BY <1>1, <1>2, <1>3

LEMMA RenameFailsEffect ==
  ASSUME TypeOK, RenameFails
  PROVE  \E k \in {kind[next_index], "absent"} : SetEntry(next_index, k)
BY AfterRemoveType DEF RenameFails, TypeOK

LEMMA StepShrinks ==
  ASSUME TypeOK, [Next]_vars
  PROVE  Shrinks \/ RenameSucceeds
<1>1. CASE UNCHANGED dirVars
  BY <1>1 DEF dirVars, Shrinks, Archives
<1>2. CASE SweepRemove
  BY <1>2, ArchivesType, SetEntryEffect DEF SweepRemove
<1>3. CASE RenameFails
  BY <1>3, RenameFailsEffect, SetEntryEffect DEF TypeOK
<1>4. CASE Trim
  BY <1>4, <1>1, TrimEffect, SetEntryEffect DEF Trim
<1>5. \/ UNCHANGED dirVars \/ SweepRemove \/ RenameFails \/ Trim \/ RenameSucceeds
  BY StepCases DEF ScanArchives, ScanFails, Construct, Relist, RelistFails, SweepSkips,
     SweepFails, SweepDone, OpenActive, OpenUnmeasured,
     ConstructThrows, Write, Reopen, ReopenThrows, Append, AppendShort, Flush, Destroy,
     Crash, Die, vars, dirVars
<1>. QED BY <1>1, <1>2, <1>3, <1>4, <1>5

-----------------------------------------------------------------------------
LEMMA PhaseStep ==
  ASSUME TypeOK, PhaseInv, [Next]_vars
  PROVE  PhaseInv'
<1>1. CASE Destroy \/ Crash
  BY <1>1 DEF Destroy, Crash, Die, PhaseInv
<1>2. CASE \E bytes \in MsgSizes : Write(bytes)
  BY <1>2 DEF Write, DropDegraded, BeginAppend, BeginRotate, PhaseInv, sinkVars
<1>3. CASE ScanArchives \/ ScanFails
  BY <1>3 DEF ScanArchives, ScanFails, Construct, PhaseInv
<1>4. CASE SweepRemove \/ Relist \/ RelistFails \/ SweepSkips \/ SweepFails \/ SweepDone
           \/ OpenActive \/ OpenUnmeasured \/ ConstructThrows
  BY <1>4 DEF SweepRemove, Relist, RelistFails, SweepSkips, SweepFails, SweepDone, OpenActive,
     OpenUnmeasured, ConstructThrows, PhaseInv, sinkVars, fileVars
<1>5. CASE RenameSucceeds \/ Trim
  BY <1>5 DEF RenameSucceeds, Trim, PhaseInv, fileVars
<1>8. CASE RenameFails
  BY <1>8, SinkAssumption DEF RenameFails, PhaseInv, TypeOK, fileVars
<1>6. CASE Reopen \/ ReopenThrows \/ Append \/ AppendShort
  BY <1>6 DEF Reopen, ReopenThrows, Append, AppendShort, PhaseInv, fileVars
<1>7. CASE Flush \/ UNCHANGED vars
  BY <1>7 DEF Flush, vars, sinkVars, fileVars, PhaseInv
<1>. QED BY <1>1, <1>2, <1>3, <1>4, <1>5, <1>6, <1>7, <1>8, StepCases

(* next_index_ never wraps: each use of it was paid for by a write().       *)
LEMMA CounterStep ==
  ASSUME NoWrap, TypeOK, CounterInv, [Next]_vars
  PROVE  CounterInv'
<1> USE DEF CounterInv
<1>0. /\ InitTop \in Nat /\ SizeMax \in Nat /\ nmsg \in Nat /\ next_index \in Nat /\ used \in Nat
      /\ InitTop + nmsg < SizeMax
  BY SinkAssumption DEF TypeOK, Index, NoWrap
<1>1. ASSUME Shrinks, nmsg' >= nmsg, nmsg' \in Nat
      PROVE  /\ \A i \in Index : kind'[i] = "regular" => i \in 1 .. InitTop + nmsg'
             /\ \A i \in Index : archive'[i] # {} => kind'[i] = "regular"
  <2>1. ASSUME NEW i \in Index, kind'[i] = "regular"
        PROVE  i \in 1 .. InitTop + nmsg'
    BY <1>0, <1>1, <2>1 DEF Shrinks
  <2>2. ASSUME NEW i \in Index, archive'[i] # {}
        PROVE  kind'[i] = "regular"
    BY <1>1, <2>2 DEF Shrinks
  <2>. QED BY <2>1, <2>2
<1>2. CASE ScanArchives \/ ScanFails
  <2>1. PICK h \in Nat : Construct(h) /\ h <= InitTop + nmsg
    <3>1. CASE ScanFails
      <4>1. PICK h \in Archives \cup {0} : Construct(h)
        BY <3>1 DEF ScanFails
      <4>. QED BY <1>0, <4>1, ArchivesType DEF Archives
    <3>2. CASE ScanArchives
      <4>1. PICK h \in 0 .. SizeMax - 1 : IsHighest(h) /\ Construct(h)
        BY <3>2 DEF ScanArchives
      <4>2. h <= InitTop + nmsg
        BY <1>0, <4>1, ArchivesType DEF IsHighest, Archives
      <4>. QED BY <4>1, <4>2
    <3>. QED BY <1>2, <3>1, <3>2
  <2>2. Shrinks
    BY <2>1 DEF Construct, dirVars, Shrinks, Archives
  <2>3. next_index' = h + 1 /\ pc' # "rename" /\ nmsg' = nmsg /\ used' = used
    BY <2>1 DEF Construct
  <2>. QED BY <1>0, <1>1, <2>1, <2>2, <2>3
<1>3. ASSUME NEW bytes \in MsgSizes, Write(bytes)
      PROVE  CounterInv'
  <2>1. Shrinks /\ nmsg' = nmsg + 1 /\ used' = used
    BY <1>3 DEF Write, dirVars, Shrinks, Archives
  <2>2. next_index' = next_index
    BY <1>3 DEF Write, DropDegraded, BeginAppend, BeginRotate, sinkVars
  <2>. QED BY <1>0, <1>1, <2>1, <2>2
<1>4. CASE RenameSucceeds
  <2>1. /\ next_index' = next_index + 1 /\ pc' = "trim" /\ nmsg' = nmsg
        /\ used' = IF next_index > used THEN next_index ELSE used
        /\ kind' = [kind EXCEPT ![next_index] = "regular"]
        /\ archive' = [archive EXCEPT ![next_index] = lines]
        /\ next_index <= InitTop + nmsg
    BY <1>0, <1>4 DEF RenameSucceeds, Increment
  <2>2. ASSUME NEW i \in Index PROVE kind'[i] = "regular" => i \in 1 .. InitTop + nmsg'
    BY <1>0, <2>1 DEF TypeOK
  <2>3. ASSUME NEW i \in Index PROVE archive'[i] # {} => kind'[i] = "regular"
    BY <2>1 DEF TypeOK
  <2>. QED BY <1>0, <2>1, <2>2, <2>3
<1>5. CASE Destroy \/ Crash
  <2>1. Shrinks /\ next_index' = 1 /\ pc' = "down" /\ nmsg' = nmsg /\ used' = used
    BY <1>5 DEF Destroy, Crash, Die, dirVars, histVars, Shrinks, Archives
  <2>. QED BY <1>0, <1>1, <2>1
<1>6. CASE ConstructThrows
  <2>1. Shrinks /\ next_index' = 1 /\ pc' = "down" /\ nmsg' = nmsg /\ used' = used
    BY <1>6 DEF ConstructThrows, dirVars, histVars, Shrinks, Archives
  <2>. QED BY <1>0, <1>1, <2>1
<1>7. CASE \/ SweepRemove \/ Relist \/ RelistFails \/ SweepSkips \/ SweepFails \/ SweepDone
           \/ OpenActive \/ OpenUnmeasured \/ RenameFails \/ Trim
           \/ Reopen \/ ReopenThrows \/ Append \/ AppendShort \/ Flush \/ UNCHANGED vars
  <2>1. /\ next_index' = next_index /\ nmsg' = nmsg /\ used' = used
        /\ pc' = "rename" => pc = "rename"
    BY <1>7 DEF SweepRemove, Relist, RelistFails, SweepSkips, SweepFails, SweepDone, OpenActive,
       OpenUnmeasured, RenameFails, Trim, Reopen,
       ReopenThrows, Append, AppendShort, Flush, vars, sinkVars, histVars
  <2>2. Shrinks
    BY <1>7, <2>1, <1>0, StepShrinks DEF RenameSucceeds, Increment
  <2>. QED BY <1>0, <1>1, <2>1, <2>2
<1>. QED BY <1>2, <1>3, <1>4, <1>5, <1>6, <1>7, StepCases

(* An archive that was overlooked stays in the history.                     *)
LEMMA ListedFalls ==
  ASSUME [Next]_vars
  PROVE  listed' => listed
BY StepCases DEF ScanArchives, ScanFails, Construct, Relist, RelistFails, SweepRemove,
   SweepSkips, SweepFails, SweepDone, OpenActive, OpenUnmeasured, ConstructThrows, Write, RenameSucceeds, RenameFails, Trim, Reopen, ReopenThrows,
   Append, AppendShort, Flush, Destroy, Crash, Die, vars, histVars

(* What a scan that could list the directory knows of the archives.         *)
LEMMA ScanEffect ==
  ASSUME TypeOK, ScanArchives
  PROVE  /\ next_index' \in Nat \ {0}
         /\ \A i \in Archives : i < next_index'
         /\ next_index' - 1 \in Archives \/ (next_index' = 1 /\ Archives = {})
         /\ pc' = IF next_index' - 1 > max_files' THEN "relist" ELSE "open"
         /\ Archives' = Archives /\ nmsg' = nmsg /\ used' = used /\ max_files' \in WindowSizes
<1>1. PICK h \in 0 .. SizeMax - 1 : IsHighest(h) /\ Construct(h)
  BY DEF ScanArchives
<1>2. h \in Nat /\ next_index' = h + 1 /\ next_index' - 1 = h
  BY <1>1, SinkAssumption DEF Construct
<1>3. \A i \in Archives : i \in Nat /\ i <= h
  BY <1>1, ArchivesType, SinkAssumption DEF IsHighest, Index
<1>4. \A i \in Archives : i < next_index'
  BY <1>2, <1>3
<1>5. Archives' = Archives
  BY <1>1 DEF Construct, dirVars, Archives
<1>. QED BY <1>1, <1>2, <1>4, <1>5 DEF Construct, IsHighest

(* A rename makes the archive next_index_ and moves the counter past it.    *)
LEMMA RenameEffect ==
  ASSUME NoWrap, TypeOK, CounterInv, RenameSucceeds
  PROVE  /\ next_index \in 1 .. SizeMax - 1 /\ next_index' = next_index + 1
         /\ Archives' = Archives \cup {next_index}
         /\ archive' = [archive EXCEPT ![next_index] = lines]
         /\ used' = IF next_index > used THEN next_index ELSE used
         /\ pc = "rename" /\ pc' = "trim" /\ nmsg' = nmsg
         /\ UNCHANGED <<max_files, listed, undeleted>>
<1>1. next_index \in 1 .. SizeMax - 1
  BY SinkAssumption DEF RenameSucceeds, CounterInv, NoWrap, TypeOK, Index
<1>2. next_index' = next_index + 1
  BY <1>1, SinkAssumption DEF RenameSucceeds, Increment
<1>3. Archives' = Archives \cup {next_index}
  BY <1>1, SinkAssumption DEF RenameSucceeds, Archives, TypeOK, Index
<1>. QED BY <1>1, <1>2, <1>3 DEF RenameSucceeds

LEMMA AheadStep ==
  ASSUME NoWrap, TypeOK, CounterInv, AheadInv, [Next]_vars
  PROVE  AheadInv'
<1> USE DEF AheadInv, Running
<1>0. \A i \in Index : i \in Nat
  BY SinkAssumption DEF Index
<1>1. CASE ScanArchives
  BY <1>1, ScanEffect
<1>2. CASE ScanFails
  BY <1>2 DEF ScanFails
<1>3. CASE RenameSucceeds
  <2>1. \A i \in Archives' : i \in Archives \/ i = next_index
    BY <1>3, RenameEffect
  <2>2. listed' => \A i \in Archives : i < next_index
    BY <1>3, RenameEffect
  <2>. QED BY <1>0, <1>3, <2>1, <2>2, RenameEffect, ArchivesType
<1>4. CASE Destroy \/ Crash \/ ConstructThrows
  BY <1>4 DEF Destroy, Crash, Die, ConstructThrows
<1>5. CASE \E bytes \in MsgSizes : Write(bytes)
  <2>1. next_index' = next_index /\ pc = "ready" /\ Archives' = Archives /\ listed' = listed
    BY <1>5 DEF Write, DropDegraded, BeginAppend, BeginRotate, sinkVars, dirVars, Archives
  <2>. QED BY <2>1
<1>6. CASE \/ SweepRemove \/ Relist \/ RelistFails \/ SweepSkips \/ SweepFails \/ SweepDone
           \/ OpenActive \/ OpenUnmeasured \/ RenameFails \/ Trim
           \/ Reopen \/ ReopenThrows \/ Append \/ AppendShort \/ Flush \/ UNCHANGED vars
  <2>1. next_index' = next_index /\ (pc' # "down" => pc # "down")
    BY <1>6 DEF SweepRemove, Relist, RelistFails, SweepSkips, SweepFails, SweepDone, OpenActive,
       OpenUnmeasured, RenameFails, Trim, Reopen,
       ReopenThrows, Append, AppendShort, Flush, vars, sinkVars
  <2>2. CASE Shrinks
    BY <2>1, <2>2, ListedFalls DEF Shrinks
  <2>. QED BY <1>3, <2>2, StepShrinks
<1>. QED BY <1>1, <1>2, <1>3, <1>4, <1>5, <1>6, StepCases

(* The steps that leave the archives, the counter and `used` alone.         *)
Quiet == \/ Relist \/ RelistFails \/ SweepSkips \/ SweepFails \/ SweepDone \/ OpenActive
         \/ OpenUnmeasured \/ Reopen \/ ReopenThrows \/ Append \/ AppendShort
         \/ Flush \/ UNCHANGED vars \/ \E bytes \in MsgSizes : Write(bytes)

LEMMA QuietEffect ==
  ASSUME Quiet
  PROVE  /\ UNCHANGED <<kind, archive, next_index, max_files, used>> /\ Archives' = Archives
         /\ pc # "down" <=> pc' # "down"
<1>1. UNCHANGED <<kind, archive, next_index, max_files, used>> /\ (pc # "down" <=> pc' # "down")
  <2>1. CASE \E bytes \in MsgSizes : Write(bytes)
    BY <2>1 DEF Write, DropDegraded, BeginAppend, BeginRotate, sinkVars, dirVars
  <2>2. CASE Relist \/ RelistFails \/ SweepSkips \/ SweepFails \/ SweepDone \/ OpenActive
             \/ OpenUnmeasured \/ Reopen \/ ReopenThrows
    BY <2>2 DEF Relist, RelistFails, SweepSkips, SweepFails, SweepDone, OpenActive,
       OpenUnmeasured, Reopen, ReopenThrows, sinkVars, dirVars, histVars
  <2>3. CASE Append \/ AppendShort \/ Flush \/ UNCHANGED vars
    BY <2>3 DEF Append, AppendShort, Flush, vars, sinkVars, dirVars, histVars
  <2>. QED BY <2>1, <2>2, <2>3 DEF Quiet
<1>. QED BY <1>1 DEF Archives

LEMMA DownEffect ==
  ASSUME Destroy \/ Crash \/ ConstructThrows
  PROVE  /\ UNCHANGED <<kind, archive, max_files, used, nmsg, listed>>
         /\ Archives' = Archives /\ pc' = "down"
BY DEF Destroy, Crash, Die, ConstructThrows, dirVars, histVars, Archives

(* The last archive made is in the window: nothing removes it.              *)
LEMMA UsedStep ==
  ASSUME NoWrap, TypeOK, CounterInv, AheadInv, UsedInv, [Next]_vars
  PROVE  UsedInv'
<1> USE DEF UsedInv, Running
<1>0. SUFFICES ASSUME listed', 0 \notin WindowSizes, used' > 0
               PROVE  /\ used' \in Archives'
                      /\ \A i \in Archives' : i <= used'
                      /\ pc' # "down" => next_index' = used' + 1
  OBVIOUS
<1>1. /\ listed /\ used \in Nat /\ next_index \in Nat /\ max_files \in Nat \ {0}
      /\ \A i \in Index : i \in Nat
  BY <1>0, ListedFalls, WindowType, SinkAssumption DEF TypeOK, Index
<1>2. ASSUME NEW i \in Index, NEW k \in {kind[i], "absent"}, SetEntry(i, k),
             used > 0 => i # used, used' = used, next_index' = next_index,
             pc # "down", max_files' = max_files
      PROVE  UsedInv'
  <2>1. Shrinks /\ \A j \in Index \ {i} : kind'[j] = kind[j]
    BY <1>2, SetEntryEffect
  <2>2. used' \in Archives'
    <3>1. used \in Archives /\ used \in Index \ {i} /\ kind'[used] = kind[used]
      BY <1>0, <1>1, <1>2, <2>1, ArchivesType
    <3>. QED BY <1>2, <3>1 DEF Archives
  <2>. QED BY <1>0, <1>1, <1>2, <2>1, <2>2 DEF Shrinks
<1>3. CASE ScanArchives
  <2>1. used' = used /\ Archives' = Archives /\ next_index' \in Nat
    BY <1>3, ScanEffect
  <2>2. used \in Archives /\ (\A i \in Archives : i <= used)
    BY <1>0, <1>1, <2>1
  <2>3. next_index' - 1 \in Archives /\ used < next_index'
    BY <1>3, <2>2, ScanEffect
  <2>4. next_index' - 1 <= used
    BY <2>2, <2>3
  <2>5. next_index' = used' + 1
    <3>1. \A a, b \in Nat : b - 1 <= a /\ a < b => b = a + 1
      OBVIOUS
    <3>. QED BY <1>1, <2>1, <2>3, <2>4, <3>1
  <2>. QED BY <2>1, <2>2, <2>5
<1>4. CASE ScanFails
  BY <1>0, <1>4 DEF ScanFails
<1>5. CASE RenameSucceeds
  <2>1. \A i \in Archives' : i \in Nat /\ (i < next_index \/ i = next_index)
    BY <1>1, <1>5, RenameEffect, ArchivesType DEF AheadInv
  <2>2. used' = next_index
    BY <1>0, <1>1, <1>5, RenameEffect
  <2>. QED BY <1>1, <1>5, <2>1, <2>2, RenameEffect
<1>6. CASE SweepRemove
  <2>1. PICK i \in Orphans : SetEntry(i, "absent")
    BY <1>6 DEF SweepRemove
  <2>2. i \in Index /\ (used > 0 => i # used)
    BY <1>0, <1>1, <1>6, <2>1, ArchivesType DEF SweepRemove, Orphans
  <2>. QED BY <1>0, <1>2, <1>6, <2>1, <2>2 DEF SweepRemove, sinkVars, histVars
<1>7. CASE RenameFails
  <2>1. PICK k \in {kind[next_index], "absent"} : SetEntry(next_index, k)
    BY <1>7, RenameFailsEffect
  <2>2. next_index \in Index /\ (used > 0 => next_index # used)
    BY <1>0, <1>1, <1>7 DEF RenameFails, TypeOK
  <2>. QED BY <1>0, <1>2, <1>7, <2>1, <2>2 DEF RenameFails, histVars
<1>8. CASE Trim
  <2>1. pc = "trim" /\ used' = used /\ next_index' = next_index /\ max_files' = max_files
    BY <1>8 DEF Trim
  <2>2. CASE next_index > max_files + 1
    <3> DEFINE i == next_index - max_files - 1
    <3>1. PICK k \in {kind[i], "absent"} : SetEntry(i, k)
      BY <1>8, <2>2, TrimEffect
    <3>2. i \in Index
      BY <1>8, <2>2, TrimEffect
    <3>3. used > 0 => i # used
      BY <1>0, <1>1, <2>1
    <3>. QED BY <1>0, <1>2, <2>1, <3>1, <3>2, <3>3
  <2>3. CASE ~(next_index > max_files + 1)
    <3>1. Archives' = Archives
      BY <1>8, <2>3 DEF Trim, dirVars, Archives
    <3>. QED BY <1>0, <1>1, <2>1, <3>1
  <2>. QED BY <2>2, <2>3
<1>9. CASE Destroy \/ Crash \/ ConstructThrows
  BY <1>0, <1>1, <1>9, DownEffect
<1>10. CASE Quiet
  BY <1>0, <1>1, <1>10, QuietEffect
<1>. QED BY <1>3, <1>4, <1>5, <1>6, <1>7, <1>8, <1>9, <1>10, StepCases DEF Quiet

(* Between calls no archive is below the window; a rename puts at most one  *)
(* there, which the trim of the same rotation removes.                      *)
LEMMA WindowStep ==
  ASSUME NoWrap, TypeOK, CounterInv, AheadInv, WindowInv, [Next]_vars
  PROVE  WindowInv'
<1>0. /\ \A i \in Archives : i \in Nat \ {0}
      /\ next_index \in Nat /\ max_files \in Nat
      /\ \A w \in WindowSizes : w \in Nat
  BY WindowType, SinkAssumption DEF TypeOK, Index, Archives
<1>1. ASSUME Shrinks, next_index' = next_index, max_files' = max_files,
undeleted \subseteq undeleted',
             pc' \in {"open", "ready", "rename", "reopen", "truncate", "append"} =>
               pc \in {"open", "ready", "rename", "reopen", "truncate", "append"},
             pc' = "trim" => pc = "trim"
      PROVE  WindowInv'
  <2>1. Archives' \ undeleted' \subseteq Archives \ undeleted
    BY <1>1 DEF Shrinks
  <2>. QED BY <1>1, <2>1, ListedFalls DEF WindowInv
<1>2. CASE ScanArchives
  <2>1. CASE next_index' - 1 > max_files'
    BY <1>2, <2>1, ScanEffect DEF WindowInv
  <2>2. CASE ~(next_index' - 1 > max_files')
    <3>1. \A i \in Archives' : next_index' <= i + max_files'
      BY <1>0, <1>2, <2>2, ScanEffect
    <3>. QED BY <1>2, <2>2, <3>1, ScanEffect DEF WindowInv
  <2>. QED BY <2>1, <2>2
<1>3. CASE ScanFails
  BY <1>3 DEF ScanFails, WindowInv
<1>4. CASE Relist \/ SweepRemove \/ SweepSkips
  BY <1>4 DEF Relist, SweepRemove, SweepSkips, WindowInv, sinkVars
<1>5. CASE RelistFails \/ SweepFails \/ SweepDone
  <2>1. /\ Orphans \subseteq undeleted' /\ kind' = kind
        /\ next_index' = next_index /\ max_files' = max_files /\ pc' = "open"
    BY <1>5 DEF RelistFails, SweepFails, SweepDone, dirVars, histVars
  <2>2. Archives' = Archives
    BY <2>1 DEF Archives
  <2>3. \A i \in Archives' \ undeleted' : next_index' <= i + max_files'
    BY <1>0, <2>1, <2>2 DEF Orphans
  <2>. QED BY <2>1, <2>3 DEF WindowInv
<1>6. CASE RenameSucceeds
  <2>1. listed' => \A i \in Archives \ undeleted' : next_index <= i + max_files
    BY <1>6, RenameEffect DEF WindowInv
  <2>2. listed' => \A i \in Archives' \ undeleted' : next_index' <= i + max_files' + 1
    BY <1>0, <1>6, <2>1, RenameEffect
  <2>. QED BY <1>6, <2>2, RenameEffect DEF WindowInv
<1>7. CASE RenameFails
  <2>1. Shrinks
    BY <1>7, RenameFailsEffect, SetEntryEffect DEF TypeOK
  <2>. QED BY <1>1, <1>7, <2>1 DEF RenameFails, histVars
<1>8. CASE Trim
  <2>0. /\ pc = "trim" /\ pc' = "reopen" /\ next_index' = next_index /\ max_files' = max_files
        /\ listed' = listed
    BY <1>8 DEF Trim
  <2>1. CASE next_index > max_files + 1
    <3> DEFINE g == next_index - max_files - 1
    <3>1. PICK k \in {kind[g], "absent"} :
            /\ SetEntry(g, k) /\ undeleted \subseteq undeleted'
            /\ k = "regular" => g \in undeleted'
      BY <1>8, <2>1, TrimEffect
    <3>2. g \in Index /\ Shrinks /\ kind'[g] = k
      BY <1>8, <2>1, <3>1, TrimEffect, SetEntryEffect
    <3>3. g \notin Archives' \ undeleted'
      BY <3>1, <3>2 DEF Archives
    <3>4. Archives' \ undeleted' \subseteq Archives \ undeleted
      BY <3>1, <3>2 DEF Shrinks
    <3>5. listed' => \A i \in Archives' \ undeleted' : next_index <= i + max_files + 1 /\ i # g
      BY <2>0, <3>3, <3>4 DEF WindowInv
    <3>6. listed' => \A i \in Archives' \ undeleted' : next_index' <= i + max_files'
      BY <1>0, <2>0, <3>4, <3>5
    <3>. QED BY <2>0, <3>6 DEF WindowInv
  <2>2. CASE ~(next_index > max_files + 1)
    <3>1. Archives' = Archives
      BY <1>8, <2>2 DEF Trim, dirVars, Archives
    <3>2. \A i \in Archives' : next_index' <= i + max_files'
      BY <1>0, <2>0, <2>2, <3>1
    <3>. QED BY <2>0, <3>2 DEF WindowInv
  <2>. QED BY <2>1, <2>2
<1>9. CASE Destroy \/ Crash \/ ConstructThrows
  BY <1>9, DownEffect DEF WindowInv
<1>10. CASE \E bytes \in MsgSizes : Write(bytes)
  <2>1. pc = "ready" /\ pc' \in {"ready", "append", "rename"} /\ undeleted' = undeleted
    BY <1>10 DEF Write, DropDegraded, BeginAppend, BeginRotate, sinkVars
  <2>2. Shrinks
    BY <1>10, QuietEffect DEF Quiet, Shrinks
  <2>. QED BY <1>1, <1>10, <2>1, <2>2, QuietEffect DEF Quiet
<1>11. CASE OpenActive \/ OpenUnmeasured \/ Reopen \/ ReopenThrows \/ Append \/ AppendShort
            \/ Flush \/ UNCHANGED vars
  <2>1. undeleted' = undeleted /\ Quiet
    BY <1>11 DEF Quiet, OpenActive, OpenUnmeasured, Reopen, ReopenThrows, Append, AppendShort,
       Flush, vars, histVars
  <2>2. /\ pc' = "trim" => pc = "trim"
        /\ pc' \in {"open", "ready", "rename", "reopen", "truncate", "append"} =>
             pc \in {"open", "ready", "rename", "reopen", "truncate", "append"}
    BY <1>11 DEF OpenActive, OpenUnmeasured, Reopen, ReopenThrows, Append, AppendShort, Flush,
       vars, sinkVars
  <2>3. Shrinks
    BY <2>1, QuietEffect DEF Shrinks
  <2>. QED BY <1>1, <2>1, <2>2, <2>3, QuietEffect
<1>. QED BY <1>2, <1>3, <1>4, <1>5, <1>6, <1>7, <1>8, <1>9, <1>10, <1>11, StepCases

(* The byte counter and what it misses make up the size of the file while   *)
(* it is open, so that the test before an append is about the file.         *)
LEMMA CapStep ==
  ASSUME TypeOK, PhaseInv, CapInv, [Next]_vars
  PROVE  CapInv'
<1> SUFFICES /\ WithinCap(lines')
             /\ \A i \in Index : WithinCap(archive'[i])
             /\ file_open' => size' = current_size' + uncounted'
             /\ pc' = "append" => size' = uncounted' \/ current_size' + pending' <= MaxSize
  BY DEF CapInv, CapHolds, WithinCap
<1>0. /\ WithinCap(lines)
      /\ \A i \in Index : WithinCap(archive[i])
      /\ file_open => size = current_size + uncounted
      /\ pc = "append" => size = uncounted \/ current_size + pending <= MaxSize
      /\ size \in Nat /\ current_size \in Nat /\ pending \in Nat /\ uncounted \in Nat
  BY DEF CapInv, CapHolds, TypeOK
<1>1. \A S, T : S \subseteq T /\ WithinCap(T) => WithinCap(S)
  BY DEF WithinCap
<1>2. Shrinks => \A i \in Index : WithinCap(archive'[i])
  BY <1>0, <1>1 DEF Shrinks
<1>3. ASSUME NEW n \in Nat, Keep(n)
      PROVE  WithinCap(lines') /\ size' = n
  <2>1. lines' \subseteq lines /\ size' = n
    BY <1>3 DEF Keep
  <2>. QED BY <1>0, <1>1, <2>1
<1>4. CASE ScanArchives \/ ScanFails
  BY <1>0, <1>4 DEF ScanArchives, ScanFails, Construct, fileVars, dirVars
<1>5. CASE SweepRemove \/ RenameFails \/ Trim
  <2>1. Shrinks
    BY <1>5, StepShrinks DEF SweepRemove, RenameFails, Trim, RenameSucceeds
  <2>. QED BY <1>0, <1>2, <1>5, <2>1 DEF SweepRemove, RenameFails, Trim, sinkVars, fileVars, histVars
<1>6. CASE \/ Relist \/ RelistFails \/ SweepSkips \/ SweepFails \/ SweepDone
          \/ ConstructThrows \/ ReopenThrows
  BY <1>0, <1>6 DEF Relist, RelistFails, SweepSkips, SweepFails, SweepDone, ConstructThrows,
     ReopenThrows, sinkVars, fileVars, dirVars, histVars, PhaseInv
<1>7. CASE OpenActive \/ OpenUnmeasured
  <2>1. current_size = 0 \/ ~OpenUnmeasured
    BY <1>7 DEF PhaseInv, OpenUnmeasured
  <2>. QED BY <1>0, <1>7, <2>1 DEF OpenActive, OpenUnmeasured, fileVars, dirVars
<1>8. ASSUME NEW bytes \in MsgSizes, Write(bytes)
      PROVE  CapInv'
  <2>1. archive' = archive
    BY <1>8 DEF Write, dirVars
  <2>2. CASE DropDegraded
    BY <1>0, <1>8, <2>1, <2>2 DEF Write, DropDegraded, sinkVars, fileVars, CapInv, CapHolds
  <2>3. CASE BeginAppend(bytes)
    <3>1. /\ lines' = lines /\ size' = size /\ pending' = bytes /\ current_size' = current_size
          /\ file_open /\ ~NeedsRotation(bytes) /\ uncounted' = uncounted
      BY <1>8, <2>3 DEF Write, BeginAppend, fileVars
    <3>2. bytes \in Nat /\ MaxSize \in Nat
      BY SinkAssumption
    <3>. QED BY <1>0, <2>1, <3>1, <3>2 DEF NeedsRotation, CapInv, CapHolds
  <2>4. CASE BeginRotate(bytes)
    <3>1. PICK n \in Nat : Keep(n)
      BY <2>4, SurvivingType DEF BeginRotate
    <3>2. file_open' = FALSE /\ pc' = "rename"
      BY <2>4 DEF BeginRotate
    <3>. QED BY <1>0, <1>3, <2>1, <3>1, <3>2 DEF CapInv, CapHolds
  <2>. QED BY <1>8, <2>2, <2>3, <2>4 DEF Write
<1>9. CASE RenameSucceeds
  <2>1. /\ archive' = [archive EXCEPT ![next_index] = lines] /\ lines' = {} /\ pc' = "trim"
        /\ file_open' = file_open /\ pc = "rename"
    BY <1>9 DEF RenameSucceeds
  <2>2. ASSUME NEW i \in Index PROVE WithinCap(archive'[i])
    BY <1>0, <2>1 DEF TypeOK
  <2>3. ~file_open'
    BY <2>1 DEF PhaseInv
  <2>. QED BY <2>1, <2>2, <2>3 DEF WithinCap
<1>10. CASE Reopen
  BY <1>0, <1>3, <1>10 DEF Reopen, dirVars
<1>11. CASE Append
  <2> DEFINE e == [id |-> nmsg, from |-> size, to |-> size + pending, uncounted |-> uncounted]
  <2>1. lines' = lines \cup {e} /\ size' = size + pending /\ current_size' = current_size + pending
        /\ archive' = archive /\ file_open' = file_open /\ pc = "append" /\ pc' = "ready"
        /\ uncounted' = uncounted /\ file_open
    BY <1>11 DEF Append, PhaseInv, dirVars, histVars
  <2>2. e.from > e.uncounted => e.to <= MaxSize + e.uncounted
    BY <1>0, <2>1, SinkAssumption
  <2>3. WithinCap(lines')
    BY <1>0, <2>1, <2>2 DEF WithinCap
  <2>. QED BY <1>0, <2>1, <2>3
<1>12. CASE AppendShort
  <2>1. PICK n \in Nat : size' = size + n /\ uncounted' = uncounted + n
    BY <1>0, <1>12 DEF AppendShort
  <2>2. UNCHANGED <<lines, archive, file_open, current_size>> /\ pc' = "ready"
    BY <1>12 DEF AppendShort, dirVars
  <2>. QED BY <1>0, <2>1, <2>2
<1>13. CASE Flush \/ UNCHANGED vars
  BY <1>0, <1>13 DEF Flush, vars, sinkVars, fileVars, dirVars, histVars
<1>14. CASE Destroy \/ Crash
  <2>1. PICK n \in Nat : Keep(n)
    BY <1>14, SurvivingType DEF Destroy, Crash
  <2>2. ~file_open' /\ pc' = "down" /\ archive' = archive
    BY <1>14 DEF Destroy, Crash, Die, dirVars
  <2>. QED BY <1>0, <1>3, <2>1, <2>2
<1>. QED
  BY <1>4, <1>5, <1>6, <1>7, <1>8, <1>9, <1>10, <1>11, <1>12, <1>13, <1>14, StepCases
  DEF CapInv, CapHolds

(* The lines on disk stay in order: archives in index order, then the       *)
(* active file.                                                             *)
LEMMA OrderStep ==
  ASSUME NoWrap, TypeOK, CounterInv, AheadInv, OrderInv, [Next]_vars
  PROVE  OrderInv'
<1> DEFINE Old(m) == /\ \A e \in lines : e.id < m
                     /\ \A i \in Index : \A e \in archive[i] : e.id < m
           Sorted == /\ \A i \in Index : Before(archive[i], lines)
                     /\ \A i, j \in Index : i < j => Before(archive[i], archive[j])
                     /\ Disjoint(lines)
<1>0. /\ \A e \in lines : e.id \in Nat /\ e.from \in Nat /\ e.to \in Nat
      /\ \A i \in Index : \A e \in archive[i] : e.id \in Nat
      /\ nmsg \in Nat /\ size \in Nat /\ pending \in Nat
  BY SinkAssumption DEF TypeOK, Line
<1>1. ASSUME Shrinks, lines' \subseteq lines, nmsg' \in Nat, nmsg' >= nmsg,
             \A e \in lines' : e.to <= size',
             Writing' => Writing \/ nmsg' = nmsg + 1
      PROVE  OrderInv'
  <2>1. /\ \A e \in lines' : e.id <= nmsg' /\ e.to <= size'
        /\ \A i \in Index : \A e \in archive'[i] : e.id <= nmsg'
    BY <1>0, <1>1 DEF OrderInv, Shrinks
  <2>2. Writing' => /\ \A e \in lines' : e.id < nmsg'
                    /\ \A i \in Index : \A e \in archive'[i] : e.id < nmsg'
    BY <1>0, <1>1 DEF OrderInv, Shrinks
  <2>3. Chronological'
    <3>1. Chronological /\ (listed' => listed)
      BY ListedFalls DEF OrderInv
    <3>. QED BY <1>1, <3>1 DEF Chronological, Before, Disjoint, Shrinks
  <2>. QED BY <2>1, <2>2, <2>3 DEF OrderInv
<1>2. ASSUME NEW n \in Nat, Keep(n)
      PROVE  lines' \subseteq lines /\ \A e \in lines' : e.to <= size'
  BY <1>2 DEF Keep
<1>3. \A e \in lines : e.to <= size
  BY DEF OrderInv
<1>4. CASE ScanArchives \/ ScanFails
  BY <1>0, <1>1, <1>3, <1>4 DEF ScanArchives, ScanFails, Construct, fileVars, dirVars, Shrinks,
     Archives, Writing
<1>5. CASE SweepRemove \/ RenameFails \/ Trim
  <2>1. Shrinks
    BY <1>5, StepShrinks DEF SweepRemove, RenameFails, Trim, RenameSucceeds
  <2>2. UNCHANGED <<size, lines, nmsg>> /\ (Writing' => Writing)
    BY <1>5 DEF SweepRemove, RenameFails, Trim, sinkVars, fileVars, histVars, Writing
  <2>. QED BY <1>0, <1>1, <1>3, <2>1, <2>2
<1>6. CASE Relist \/ RelistFails \/ SweepSkips \/ SweepFails \/ SweepDone \/ OpenActive
           \/ OpenUnmeasured \/ ConstructThrows \/ ReopenThrows
           \/ Flush \/ UNCHANGED vars
  <2>1. UNCHANGED <<size, lines, nmsg, kind, archive>> /\ (Writing' => Writing)
    BY <1>6 DEF Relist, RelistFails, SweepSkips, SweepFails, SweepDone, OpenActive,
       OpenUnmeasured, ConstructThrows, ReopenThrows, Flush, vars,
       sinkVars, fileVars, dirVars, histVars, Writing
  <2>2. Shrinks
    BY <2>1 DEF Shrinks, Archives
  <2>. QED BY <1>0, <1>1, <1>3, <2>1, <2>2
<1>7. ASSUME NEW bytes \in MsgSizes, Write(bytes)
      PROVE  OrderInv'
  <2>1. Shrinks /\ nmsg' = nmsg + 1
    BY <1>7 DEF Write, dirVars, Shrinks, Archives
  <2>2. lines' \subseteq lines /\ \A e \in lines' : e.to <= size'
    <3>1. CASE DropDegraded \/ BeginAppend(bytes)
      BY <1>3, <3>1 DEF DropDegraded, BeginAppend, fileVars
    <3>2. CASE BeginRotate(bytes)
      BY <1>2, <3>2, SurvivingType DEF BeginRotate
    <3>. QED BY <1>7, <3>1, <3>2 DEF Write
  <2>. QED BY <1>0, <1>1, <2>1, <2>2
<1>8. CASE RenameSucceeds
  <2>1. /\ archive' = [archive EXCEPT ![next_index] = lines] /\ lines' = {} /\ nmsg' = nmsg
        /\ Writing /\ listed' = listed
    BY <1>8 DEF RenameSucceeds, Writing
  <2>2. ASSUME NEW i \in Index
        PROVE  archive'[i] = IF i = next_index THEN lines ELSE archive[i]
    BY <2>1 DEF TypeOK
  <2>3. Old(nmsg)
    BY <2>1 DEF OrderInv
  <2>4. /\ \A i \in Index : \A e \in archive'[i] : e.id < nmsg
    BY <2>2, <2>3
  <2>5. Chronological'
    <3> SUFFICES ASSUME listed
                 PROVE  /\ \A i \in Index : Before(archive'[i], lines')
                        /\ \A i, j \in Index : i < j => Before(archive'[i], archive'[j])
                        /\ Disjoint(lines')
      BY <2>1 DEF Chronological
    <3>1. Sorted
      BY DEF OrderInv, Chronological
    <3>2. ASSUME NEW j \in Index, j > next_index PROVE archive[j] = {}
      <4>1. archive[j] # {} => j \in Archives
        BY SinkAssumption DEF CounterInv, NoWrap, Archives, TypeOK, Index
      <4>2. j \in Archives => j < next_index
        BY <1>8 DEF AheadInv, Running, RenameSucceeds
      <4>. QED BY <3>2, <4>1, <4>2, SinkAssumption DEF TypeOK, Index
    <3>3. ASSUME NEW i \in Index, NEW j \in Index, i < j
          PROVE  Before(archive'[i], archive'[j])
      <4>1. CASE j = next_index
        BY <2>2, <3>1, <3>3, <4>1, SinkAssumption DEF Index
      <4>2. CASE i = next_index
        BY <2>2, <3>2, <3>3, <4>2, SinkAssumption DEF Index, Before
      <4>3. CASE i # next_index /\ j # next_index
        BY <2>2, <3>1, <3>3, <4>3
      <4>. QED BY <4>1, <4>2, <4>3
    <3>. QED BY <2>1, <3>3 DEF Before, Disjoint
  <2>. QED BY <1>0, <2>1, <2>4, <2>5 DEF OrderInv
<1>9. CASE Reopen
  <2>1. Shrinks /\ nmsg' = nmsg /\ Writing
    BY <1>9 DEF Reopen, dirVars, histVars, Shrinks, Archives, Writing
  <2>2. lines' \subseteq lines /\ \A e \in lines' : e.to <= size'
    BY <1>2, <1>9 DEF Reopen
  <2>. QED BY <1>0, <1>1, <2>1, <2>2
<1>10. CASE Append
  <2> DEFINE e == [id |-> nmsg, from |-> size, to |-> size + pending, uncounted |-> uncounted]
  <2>1. /\ lines' = lines \cup {e} /\ size' = size + pending /\ archive' = archive
        /\ nmsg' = nmsg /\ ~Writing' /\ Writing /\ listed' = listed
    BY <1>10 DEF Append, dirVars, histVars, Writing
  <2>2. Old(nmsg)
    BY <2>1 DEF OrderInv
  <2>3. /\ \A d \in lines' : d.id <= nmsg /\ d.to <= size'
        /\ \A i \in Index : \A d \in archive'[i] : d.id <= nmsg
    BY <1>0, <1>3, <2>1, <2>2
  <2>4. Chronological'
    <3> SUFFICES ASSUME listed
                 PROVE  /\ \A i \in Index : Before(archive[i], lines')
                        /\ \A i, j \in Index : i < j => Before(archive[i], archive[j])
                        /\ Disjoint(lines')
      BY <2>1 DEF Chronological
    <3>1. Sorted
      BY DEF OrderInv, Chronological
    <3>2. \A i \in Index : Before(archive[i], lines')
      BY <2>1, <2>2, <3>1 DEF Before
    <3>3. Disjoint(lines')
      BY <1>0, <1>3, <2>1, <2>2, <3>1 DEF Disjoint
    <3>. QED BY <3>1, <3>2, <3>3
  <2>. QED BY <2>1, <2>3, <2>4 DEF OrderInv
<1>11. CASE AppendShort
  <2>1. Shrinks /\ lines' = lines /\ nmsg' = nmsg /\ Writing
    BY <1>11 DEF AppendShort, dirVars, Shrinks, Archives, Writing
  <2>2. size' >= size /\ size' \in Nat
    BY <1>0, <1>11 DEF AppendShort
  <2>3. \A e \in lines' : e.to <= size'
    BY <1>0, <1>3, <2>1, <2>2
  <2>. QED BY <1>0, <1>1, <2>1, <2>3
<1>12. CASE Destroy \/ Crash
  <2>1. PICK n \in Nat : Keep(n)
    BY <1>12, SurvivingType DEF Destroy, Crash
  <2>2. Shrinks /\ nmsg' = nmsg /\ ~Writing'
    BY <1>12, DownEffect DEF Shrinks, Writing
  <2>. QED BY <1>0, <1>1, <1>2, <2>1, <2>2
<1>. QED
  BY <1>4, <1>5, <1>6, <1>7, <1>8, <1>9, <1>10, <1>11, <1>12, StepCases

-----------------------------------------------------------------------------
LEMMA InitInv == Init => IInv
<1> SUFFICES ASSUME Init PROVE IInv
  OBVIOUS
<1>1. TypeOK
  BY InitType
<1>2. PhaseInv /\ AheadInv /\ WindowInv
  BY DEF Init, PhaseInv, AheadInv, WindowInv, Running
<1>3. UsedInv
  BY DEF Init, UsedInv
<1>4. CounterInv
  <2>1. \A i \in Index : kind[i] = "regular" => i \in 1 .. InitTop + nmsg
    BY SinkAssumption DEF Init
  <2>2. \A i \in Index : archive[i] = {}
    BY DEF Init
  <2>. QED BY <2>1, <2>2, SinkAssumption DEF Init, CounterInv
<1>5. OrderInv
  BY DEF Init, OrderInv, Writing, Chronological, Before, Disjoint
<1>6. CapInv
  BY DEF Init, CapInv, CapHolds, WithinCap
<1>. QED BY <1>1, <1>2, <1>3, <1>4, <1>5, <1>6 DEF IInv

LEMMA StepInv ==
  ASSUME NoWrap, IInv, [Next]_vars
  PROVE  IInv'
BY TypeStep, PhaseStep, CounterStep, AheadStep, UsedStep, OrderStep, CapStep, WindowStep DEF IInv

LEMMA Invariance == ASSUME NoWrap PROVE Spec => []IInv
<1>1. IInv /\ [Next]_vars => IInv'
  BY StepInv
<1>. QED BY <1>1, InitInv, PTL DEF Spec

(* The lines on disk stay in the order they were written, whatever fails,   *)
(* crashes or restarts, as long as every directory scan could list it.      *)
THEOREM ChronologicalCorrect == ASSUME NoWrap PROVE Spec => []Chronological
<1>1. IInv => Chronological
  BY DEF IInv, OrderInv
<1>. QED BY <1>1, Invariance, PTL

(* No rotation removes an archive to make room for the new one.             *)
THEOREM NoClobberCorrect == ASSUME NoWrap PROVE Spec => []NoClobber
<1>1. IInv => NoClobber
  BY SinkAssumption
  DEF IInv, AheadInv, CounterInv, TypeOK, NoClobber, Running, Archives, NoWrap, Index
<1>. QED BY <1>1, Invariance, PTL

(* A file grows past max_size only by its first line and by bytes that a     *)
(* short write or an unreadable size kept from current_size_.                *)
THEOREM CapCorrect == ASSUME NoWrap PROVE Spec => []CapHolds
<1>1. IInv => CapHolds
  BY DEF IInv, CapInv
<1>. QED BY <1>1, Invariance, PTL

(* At most max_files archives are kept, the latest ones, and those that this *)
(* process should have removed and could not.                                *)
THEOREM WindowCorrect == ASSUME NoWrap PROVE Spec => []WindowHolds
<1>1. IInv => WindowHolds
  BY DEF IInv, WindowInv, AheadInv, WindowHolds, Running
<1>. QED BY <1>1, Invariance, PTL

(* No restart makes the counter fall back to an index already used.         *)
THEOREM ResumeCorrect == ASSUME NoWrap PROVE Spec => []CounterResumes
<1>1. IInv => CounterResumes
  BY SinkAssumption DEF IInv, UsedInv, CounterInv, TypeOK, CounterResumes, Running, Index
<1>. QED BY <1>1, Invariance, PTL

-----------------------------------------------------------------------------
(* A step that keeps n of the bytes, n at least those the kernel has.       *)
LEMMA KeepLoses ==
  ASSUME TypeOK, NEW n \in synced .. size, Keep(n), UNCHANGED archive,
         NEW m \in Nat, OnDisk(m), ~OnDisk(m)'
  PROVE  MayLose(m)
<1>1. PICK e \in lines : e.id = m /\ e \notin lines'
  BY DEF OnDisk
<1>2. e.to \in Nat /\ ~(e.to <= n)
  BY <1>1 DEF Keep, TypeOK, Line
<1>3. synced < e.to
  BY <1>2 DEF TypeOK
<1>. QED BY <1>1, <1>3 DEF MayLose

LEMMA LosesStep ==
  ASSUME NoWrap, IInv, [Next]_vars, listed, NEW m \in 1 .. MaxMsgs, OnDisk(m), ~OnDisk(m)'
  PROVE  MayLose(m)
<1> USE DEF IInv
<1>0. m \in Nat /\ TypeOK /\ \A i \in Archives : i \in Nat
  BY SinkAssumption DEF Archives
<1>1. lines' # lines \/ archive' # archive
  BY DEF OnDisk
<1>2. ASSUME NEW i \in Index, NEW k \in {kind[i], "absent"}, SetEntry(i, k), UNCHANGED lines
      PROVE  i \in Archives /\ \E e \in archive[i] : e.id = m
  <2>1. \A j \in Index \ {i} : archive'[j] = archive[j]
    BY <1>0, <1>2, SetEntryEffect
  <2>2. PICK e \in archive[i] : e.id = m
    BY <1>2, <2>1 DEF OnDisk
  <2>3. kind[i] = "regular"
    BY <2>2 DEF CounterInv
  <2>4. i \in 1 .. SizeMax - 1
    BY <1>0, <2>3, SinkAssumption DEF CounterInv, NoWrap, TypeOK, Index
  <2>. QED BY <2>2, <2>3, <2>4 DEF Archives
<1>3. CASE SweepRemove
  <2>1. PICK i \in Orphans : SetEntry(i, "absent")
    BY <1>3 DEF SweepRemove
  <2>2. UNCHANGED <<lines, max_files, next_index>>
    BY <1>3 DEF SweepRemove, fileVars, sinkVars
  <2>3. i \in Archives /\ \E e \in archive[i] : e.id = m
    BY <1>2, <2>1, <2>2, ArchivesType
  <2>. QED BY <2>1, <2>2, <2>3 DEF MayLose, Orphans
<1>4. CASE RenameFails
  <2>1. PICK k \in {kind[next_index], "absent"} : SetEntry(next_index, k)
    BY <1>0, <1>4, RenameFailsEffect
  <2>2. next_index \in Archives
    BY <1>0, <1>2, <1>4, <2>1 DEF RenameFails, fileVars, TypeOK
  <2>. QED BY <1>0, <1>4, <2>2 DEF AheadInv, Running, RenameFails
<1>5. CASE Trim
  <2> DEFINE i == next_index - max_files - 1
  <2>1. next_index > max_files + 1 /\ UNCHANGED <<lines, max_files, next_index>>
    BY <1>1, <1>5 DEF Trim, dirVars, fileVars
  <2>2. PICK k \in {kind[i], "absent"} : SetEntry(i, k)
    BY <1>0, <1>5, <2>1, TrimEffect
  <2>3. i \in Archives /\ \E e \in archive[i] : e.id = m
    BY <1>0, <1>2, <1>5, <2>1, <2>2, TrimEffect
  <2>4. i + max_files' < next_index'
    BY <1>0, <2>1, WindowType, SinkAssumption DEF TypeOK, Index
  <2>. QED BY <2>3, <2>4 DEF MayLose
<1>6. CASE RenameSucceeds
  <2>1. /\ archive' = [archive EXCEPT ![next_index] = lines] /\ next_index \in Index
        /\ next_index \in 1 .. SizeMax - 1
    BY <1>0, <1>6, RenameEffect DEF TypeOK
  <2>2. archive[next_index] # {} => next_index \in Archives
    BY <2>1 DEF CounterInv, Archives
  <2>3. archive[next_index] = {}
    BY <1>0, <1>6, <2>2 DEF AheadInv, Running, RenameSucceeds
  <2>4. \A j \in Index : archive'[j] = IF j = next_index THEN lines ELSE archive[j]
    BY <2>1 DEF TypeOK
  <2>. QED BY <2>1, <2>3, <2>4 DEF OnDisk
<1>7. CASE Reopen
  <2>1. pc # "reopen"
    BY <1>1, <1>7 DEF Reopen, Keep, PhaseInv, dirVars
  <2>2. pc = "truncate" /\ attempt = MaxAttempts /\ archive' = archive
    BY <1>7, <2>1 DEF Reopen, PhaseInv, dirVars
  <2>. QED BY <2>2 DEF MayLose, OnDisk
<1>8. CASE \E bytes \in MsgSizes : BeginRotate(bytes) /\ UNCHANGED dirVars
  BY <1>0, <1>8, SurvivingType, KeepLoses DEF BeginRotate, dirVars
<1>9. CASE Destroy \/ Crash
  BY <1>0, <1>9, SurvivingType, KeepLoses, DownEffect DEF Destroy, Crash
<1>10. CASE Append
  BY <1>10 DEF Append, OnDisk, dirVars
<1>11. CASE \/ Relist \/ RelistFails \/ SweepSkips \/ SweepFails \/ SweepDone \/ OpenActive
            \/ OpenUnmeasured \/ ConstructThrows \/ ReopenThrows
            \/ AppendShort \/ Flush \/ UNCHANGED vars \/ ScanArchives \/ ScanFails
  <2>1. lines' = lines /\ archive' = archive
    BY <1>11 DEF Relist, RelistFails, SweepSkips, SweepFails, SweepDone, OpenActive,
       OpenUnmeasured, ConstructThrows, ReopenThrows, AppendShort,
       Flush, vars, fileVars, dirVars, ScanArchives, ScanFails, Construct
  <2>. QED BY <1>1, <2>1
<1>12. CASE \E bytes \in MsgSizes : Write(bytes)
  <2>1. PICK bytes \in MsgSizes : Write(bytes)
    BY <1>12
  <2>2. UNCHANGED dirVars
    BY <2>1 DEF Write
  <2>3. CASE DropDegraded \/ BeginAppend(bytes)
    BY <1>1, <2>2, <2>3 DEF DropDegraded, BeginAppend, fileVars, dirVars
  <2>. QED BY <1>8, <2>1, <2>2, <2>3 DEF Write
<1>. QED
  BY <1>3, <1>4, <1>5, <1>6, <1>7, <1>9, <1>10, <1>11, <1>12, StepCases

(* A line leaves the disk only with an archive out of the window, with the  *)
(* file truncated after the last failed rename, or unflushed.               *)
THEOREM LossCorrect == ASSUME NoWrap PROVE Spec => NothingElseLoses
<1>1. ASSUME IInv, [Next]_vars
      PROVE  listed => \A m \in 1 .. MaxMsgs : OnDisk(m) /\ ~OnDisk(m)' => MayLose(m)
  BY <1>1, LosesStep
<1>2. IInv /\ [Next]_vars =>
        [ listed =>
            \A m \in 1 .. MaxMsgs : OnDisk(m) /\ ~OnDisk(m)' => MayLose(m) ]_vars
  BY <1>1
<1>. QED BY <1>2, Invariance, PTL DEF Spec, NothingElseLoses

=============================================================================
