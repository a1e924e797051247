-------------------------- MODULE SafeApplyProofs --------------------------
(***************************************************************************)
(* What services/safe-apply guarantees, for every number of reviews, of    *)
(* calls, of attempts at the lock and of crashes, and for every TTL.       *)
(*                                                                         *)
(* The lock file: no attempt leaves a lock behind but after a failed call  *)
(* of its own (NoLeakedLock), an apply is refused only for a rival or such *)
(* a failure (RefusedOnlyByRival), and two attempts hold the lock together *)
(* only through the windows the protocol leaves (OverlapOnlyThroughWindows)*)
(*                                                                         *)
(* The reviews: the conditional UPDATEs on the row alone keep the apply    *)
(* paths apart, settled rows settled, and the table in step with the log   *)
(* of the leader's commits, whoever holds that lock and whatever the       *)
(* operator does in git.                                                   *)
(***************************************************************************)
EXTENDS ApplyLock, ChangeReview, TLAPS

------------------------------------------------------------------------------
(* The lock file.                                                          *)

\* Attempts that have not opened the file: they own no entry.
NeverOpened == {"idle", "create", "read", "unlink", "create2", "busy"}

OwnerOpenedIt ==
  \A a \in Attempts : file.owner = {a} => stage[a] \notin NeverOpened

EmptyUntilWritten ==
  \A a \in Attempts : file.owner = {a} /\ stage[a] = "write" => ~file.written

NoAttemptFromTheFuture == \A a \in Attempts : bootOf[a] <= boot

AliveInBoot == \A a \in Attempts : Active(a) => bootOf[a] = boot

LeakInv == /\ LockTypeOK
           /\ OwnerOpenedIt
           /\ EmptyUntilWritten
           /\ NoAttemptFromTheFuture
           /\ AliveInBoot
           /\ NoLeakedLock

RivalsKnowEachOther ==
  \A a, b \in Attempts : a # b /\ Active(a) /\ Active(b) => b \in rival[a]

RecreatedByRival ==
  \A a \in Attempts : stage[a] = "create2" /\ file # NoFile =>
    rival[a] # {} \/ "io" \in mishap[a]

RivalInv == /\ LeakInv
            /\ RivalsKnowEachOther
            /\ RecreatedByRival
            /\ RefusedOnlyByRival

\* The entry of an attempt that opened it and was never ousted is still there.
HeldIsThere ==
  \A a \in Attempts :
    stage[a] \in Holding \cup {"write", "close"} /\ ousted[a] = {} =>
      file.owner = {a} /\ (stage[a] # "write" => file.written)

\* What an attempt about to unlink has read was not in its way.
SeenIsNoBlock ==
  \A a, o \in Attempts :
    stage[a] = "unlink" /\ seen[a].owner = {o} =>
      /\ stage[o] # "idle"
      /\ seen[a].written /\ bootOf[o] = boot => startedAt[a] > startedAt[o] + Ttl

\* Between two reads an attempt remembers nothing.
SeenOnlyBeforeUnlink ==
  \A a \in Attempts : stage[a] # "unlink" => seen[a] = NoFile

NeverSeized == \A a \in Attempts : "seized" \notin ousted[a]

WindowInv == /\ LeakInv
             /\ HeldIsThere
             /\ SeenOnlyBeforeUnlink
             /\ SeenIsNoBlock
             /\ NeverSeized
------------------------------------------------------------------------------
\* The lock's state never leaves its types, whatever interleaves.
LEMMA LockTypeInit == LockInit => LockTypeOK
  BY BoundsAssumption DEF LockInit, LockTypeOK, LockFile

\* What made an attempt remove an entry is one of the four windows, or none.
LEMMA GroundsType == \A a \in Attempts : Grounds(a) \in Windows \cup {"seized"}
  BY DEF Grounds, Windows

\* No entry is nobody's; completing an entry and reading it as unusable leave
\* an entry of the same attempt.
LEMMA EntryTypes ==
  /\ NoFile \in LockFile /\ NoFile.owner = {} /\ ~NoFile.written
  /\ \A a \in Attempts : /\ EntryOf(a) \in LockFile
                          /\ [owner |-> {a}, written |-> TRUE] \in LockFile
  /\ \A f \in LockFile : /\ Unusable(f) \in LockFile
                          /\ Unusable(f).owner = f.owner
                          /\ ~Unusable(f).written
  <1>1. NoFile \in LockFile /\ NoFile.owner = {} /\ ~NoFile.written
    BY DEF NoFile, LockFile
  <1>2. ASSUME NEW a \in Attempts
        PROVE  /\ EntryOf(a) \in LockFile
               /\ [owner |-> {a}, written |-> TRUE] \in LockFile
    BY DEF EntryOf, LockFile
  <1>3. ASSUME NEW f \in LockFile
        PROVE  /\ Unusable(f) \in LockFile
               /\ Unusable(f).owner = f.owner
               /\ ~Unusable(f).written
    <2>1. CASE f = NoFile
      <3>1. Unusable(f) = NoFile
        BY <1>1, <2>1 DEF Unusable, NoFile
      <3> QED BY <1>1, <2>1, <3>1
    <2>2. CASE f \in [owner : {{a} : a \in Attempts}, written : BOOLEAN]
      BY <2>2 DEF LockFile, Unusable
    <2> QED BY <2>1, <2>2 DEF LockFile
  <1> QED BY <1>1, <1>2, <1>3

\* The lock's state never leaves its types, whatever interleaves.
LEMMA LockTypeStep == LockTypeOK /\ [LockNext]_lockVars => LockTypeOK'
  <1> SUFFICES ASSUME LockTypeOK, [LockNext]_lockVars PROVE LockTypeOK'
    OBVIOUS
  <1> USE DEF LockTypeOK, Acquiring, Holding, Over, KeepsFile
  <1>m. ASSUME NEW a \in Attempts, NEW from, NEW to \in {"busy"} \cup Over
                                                     \cup Acquiring \cup Holding,
               NEW wrong \in SUBSET {"io", "pid"}, Moves(a, from, to, wrong),
               file' \in LockFile, seen' \in [Attempts -> LockFile],
               ousted' \in [Attempts -> SUBSET (Windows \cup {"seized"})]
        PROVE  LockTypeOK'
    BY <1>m DEF Moves
  <1>r. ASSUME NEW w \in Windows \cup {"seized"}, Removes(w)
        PROVE  /\ file' \in LockFile
               /\ ousted' \in [Attempts -> SUBSET (Windows \cup {"seized"})]
    BY <1>r, EntryTypes DEF Removes
  <1>1. ASSUME NEW a \in Attempts, Start(a) PROVE LockTypeOK'
    BY <1>1 DEF Start
  <1>2. ASSUME NEW a \in Attempts, Create(a) \/ Create2(a) PROVE LockTypeOK'
    BY <1>2, <1>m, EntryTypes DEF Create, Create2, Opens
  <1>3. ASSUME NEW a \in Attempts, Write(a) \/ Close(a) PROVE LockTypeOK'
    BY <1>3, <1>m, EntryTypes DEF Write, Close
  <1>4. ASSUME NEW a \in Attempts, Read(a) PROVE LockTypeOK'
    <2>1. PICK to \in {"busy", "unlink"}, wrong \in SUBSET {"io", "pid"} :
            Moves(a, "read", to, wrong)
      BY <1>4 DEF Read
    <2>2. UNCHANGED <<file, ousted>>
      BY <1>4 DEF Read
    <2>3. \/ UNCHANGED seen
          \/ seen' = [seen EXCEPT ![a] = file]
          \/ seen' = [seen EXCEPT ![a] = Unusable(file)]
      BY <1>4 DEF Read
    <2>4. seen' \in [Attempts -> LockFile]
      BY <2>3, EntryTypes
    <2> QED BY <2>1, <2>2, <2>4, <1>m
  <1>5. ASSUME NEW a \in Attempts, Unlink(a) PROVE LockTypeOK'
    BY <1>5, <1>m, <1>r, EntryTypes, GroundsType DEF Unlink
  <1>6. ASSUME NEW a \in Attempts, BeginRelease(a) \/ RelRead(a)
        PROVE  LockTypeOK'
    BY <1>6, <1>m DEF BeginRelease, RelRead
  <1>7. ASSUME NEW a \in Attempts, RelUnlink(a) PROVE LockTypeOK'
    BY <1>7, <1>m, <1>r DEF RelUnlink, Windows
  <1>8. CASE Restart
    BY <1>8, EntryTypes DEF Restart, ghosts
  <1>9. CASE Tick \/ UNCHANGED lockVars
    BY <1>9 DEF Tick, lockVars, ghosts
  <1> QED
    BY <1>1, <1>2, <1>3, <1>4, <1>5, <1>6, <1>7, <1>8, <1>9 DEF LockNext, Step
------------------------------------------------------------------------------
\* One step keeps the strengthened invariant behind NoLeakedLock.
LEMMA LeakStep == LeakInv /\ [LockNext]_lockVars => LeakInv'
  <1> SUFFICES ASSUME LeakInv, [LockNext]_lockVars PROVE LeakInv'
    OBVIOUS
  <1>0. LockTypeOK'
    BY LockTypeStep DEF LeakInv
  <1> USE <1>0 DEF LeakInv, LockTypeOK, NeverOpened, Acquiring, Holding, Moves,
                   KeepsFile
  \* a step of an attempt from an active stage keeps boots and processes
  <1>m. ASSUME NEW a \in Attempts, NEW from \in Acquiring \cup Holding, NEW to,
               NEW wrong, Moves(a, from, to, wrong)
        PROVE  AliveInBoot' /\ NoAttemptFromTheFuture'
    BY <1>m DEF AliveInBoot, NoAttemptFromTheFuture, Active
  <1>1. ASSUME NEW a \in Attempts, Start(a) PROVE LeakInv'
    BY <1>1 DEF Start, OwnerOpenedIt, EmptyUntilWritten, NoAttemptFromTheFuture,
                NoLeakedLock, AliveInBoot, Active
  <1>2. ASSUME NEW a \in Attempts, Create(a) \/ Create2(a) PROVE LeakInv'
    <2>1. AliveInBoot' /\ NoAttemptFromTheFuture'
      BY <1>2, <1>m DEF Create, Create2, Opens
    <2>2. CASE file' = EntryOf(a) /\ stage' = [stage EXCEPT ![a] = "write"]
      <3>1. \A b \in Attempts : file'.owner = {b} => b = a
        BY <2>2 DEF EntryOf
      <3>2. ~file'.written /\ stage'[a] = "write"
        BY <2>2 DEF EntryOf
      <3> QED BY <2>1, <3>1, <3>2 DEF OwnerOpenedIt, EmptyUntilWritten, NoLeakedLock
    <2>3. CASE UNCHANGED file /\ stage'[a] \in {"read", "busy", "failed"}
      <3>1. file.owner # {a}
        BY <1>2 DEF Create, Create2, Opens, OwnerOpenedIt
      <3>2. /\ \A b \in Attempts \ {a} : stage'[b] = stage[b] /\ mishap'[b] = mishap[b]
            /\ UNCHANGED <<bootOf, boot>>
        BY <1>2 DEF Create, Create2, Opens
      <3> QED
        BY <2>1, <2>3, <3>1, <3>2 DEF OwnerOpenedIt, EmptyUntilWritten, NoLeakedLock
    <2> QED BY <1>2, <2>2, <2>3 DEF Create, Create2, Opens
  <1>3. ASSUME NEW a \in Attempts, Write(a) PROVE LeakInv'
    <2>1. AliveInBoot' /\ NoAttemptFromTheFuture'
      BY <1>3, <1>m DEF Write
    <2>2. \/ file' = file
          \/ /\ file.owner = {a} /\ file'.owner = {a}
             /\ \A b \in Attempts \ {a} : file'.owner # {b}
      <3>1. CASE file.owner = {a}
        <4>1. file' = file \/ file' = [owner |-> {a}, written |-> TRUE]
          BY <1>3, <3>1 DEF Write
        <4>2. \A b \in Attempts \ {a} : a \in {a} /\ a \notin {b}
          OBVIOUS
        <4>3. \A b \in Attempts \ {a} : {a} # {b}
          BY <4>2
        <4>4. file'.owner = {a}
          BY <3>1, <4>1
        <4> QED BY <3>1, <4>3, <4>4
      <3>2. CASE file.owner # {a}
        BY <1>3, <3>2 DEF Write
      <3> QED BY <3>1, <3>2
    <2>3. /\ file'.owner = file.owner
          /\ \A b \in Attempts \ {a} : file'.owner = {b} => file' = file
      BY <2>2
    <2>4. /\ stage[a] = "write" /\ stage'[a] \in {"close", "failed"}
          /\ \A b \in Attempts \ {a} : stage'[b] = stage[b] /\ mishap'[b] = mishap[b]
          /\ UNCHANGED <<bootOf, boot>>
      BY <1>3 DEF Write
    <2>5. stage'[a] = "failed" => "io" \in mishap'[a]
      BY <1>3 DEF Write
    <2> QED
      BY <2>1, <2>2, <2>3, <2>4, <2>5 DEF OwnerOpenedIt, EmptyUntilWritten, NoLeakedLock
  <1>4. ASSUME NEW a \in Attempts, Close(a) PROVE LeakInv'
    BY <1>4 DEF Close, OwnerOpenedIt, EmptyUntilWritten, NoAttemptFromTheFuture,
                NoLeakedLock, AliveInBoot, Active
  <1>5. ASSUME NEW a \in Attempts, Read(a) PROVE LeakInv'
    BY <1>5 DEF Read, OwnerOpenedIt, EmptyUntilWritten, NoAttemptFromTheFuture,
                NoLeakedLock, AliveInBoot, Active
  <1>6. ASSUME NEW a \in Attempts, Unlink(a) \/ RelUnlink(a) PROVE LeakInv'
    <2>1. AliveInBoot' /\ NoAttemptFromTheFuture'
      BY <1>6, <1>m DEF Unlink, RelUnlink
    <2>2. CASE file' = NoFile
      <3>1. \A b \in Attempts : file'.owner # {b}
        BY <2>2, EntryTypes
      <3> QED BY <2>1, <3>1 DEF OwnerOpenedIt, EmptyUntilWritten, NoLeakedLock
    <2>3. CASE KeepsFile /\ Moves(a, "unlink", "create2", {"io"})
      BY <2>1, <2>3 DEF OwnerOpenedIt, EmptyUntilWritten, NoLeakedLock
    <2>4. CASE KeepsFile /\ Moves(a, "relunlink", "done", {"io"})
      BY <2>1, <2>4 DEF OwnerOpenedIt, EmptyUntilWritten, NoLeakedLock
    <2> QED BY <1>6, <2>2, <2>3, <2>4 DEF Unlink, RelUnlink, Removes
  <1>7. ASSUME NEW a \in Attempts, BeginRelease(a) \/ RelRead(a) PROVE LeakInv'
    BY <1>7 DEF BeginRelease, RelRead, OwnerOpenedIt, EmptyUntilWritten,
                NoAttemptFromTheFuture, NoLeakedLock, AliveInBoot, Active
  <1>8. CASE Restart
    BY <1>8 DEF Restart, ghosts, OwnerOpenedIt, EmptyUntilWritten,
                NoAttemptFromTheFuture, NoLeakedLock, AliveInBoot, Active
  <1>9. CASE Tick \/ UNCHANGED lockVars
    BY <1>9 DEF Tick, lockVars, ghosts, OwnerOpenedIt, EmptyUntilWritten,
                NoAttemptFromTheFuture, NoLeakedLock, AliveInBoot, Active
  <1> QED
    BY <1>1, <1>2, <1>3, <1>4, <1>5, <1>6, <1>7, <1>8, <1>9 DEF LockNext, Step

\* The types of the model, for any number of attempts and restarts.
THEOREM LockTypeCorrect == LockSpec => []LockTypeOK
  <1>1. LockInit => LeakInv
    BY LockTypeInit DEF LockInit, LeakInv, NoFile, OwnerOpenedIt, EmptyUntilWritten,
       NoAttemptFromTheFuture, NoLeakedLock, AliveInBoot, Active,
       Acquiring, Holding
  <1>2. LeakInv => LockTypeOK
    BY DEF LeakInv
  <1> QED BY <1>1, <1>2, LeakStep, PTL DEF LockSpec

\* No attempt of the live process leaves a complete lock file behind it
\* (NoLeakedLock) unless one of its own calls fails, for any number of
\* attempts and restarts and whatever fails in the others.
THEOREM NoLeakedLockHolds == LockSpec => []NoLeakedLock
  <1>1. LockInit => LeakInv
    BY LockTypeInit DEF LockInit, LeakInv, NoFile, OwnerOpenedIt, EmptyUntilWritten,
       NoAttemptFromTheFuture, NoLeakedLock, AliveInBoot, Active,
       Acquiring, Holding
  <1>2. LeakInv => NoLeakedLock
    BY DEF LeakInv
  <1> QED BY <1>1, <1>2, LeakStep, PTL DEF LockSpec
------------------------------------------------------------------------------
\* What the excuses rest on only grows: who was alongside, what went wrong,
\* and when and in which process an attempt was made that is over.
HistoryGrows ==
  \A o \in Attempts :
    /\ stage[o] # "idle" => /\ startedAt'[o] = startedAt[o]
                            /\ bootOf'[o] = bootOf[o]
                            /\ rival[o] \subseteq rival'[o]
    /\ stage[o] \in Over => stage'[o] \in Over
    /\ mishap[o] \subseteq mishap'[o]

\* Every step lets the histories grow.
LEMMA GrowsStep == LockTypeOK /\ [LockNext]_lockVars => HistoryGrows
  <1> SUFFICES ASSUME LockTypeOK, [LockNext]_lockVars PROVE HistoryGrows
    OBVIOUS
  <1> USE DEF LockTypeOK, HistoryGrows, Over
  <1>m. ASSUME NEW a \in Attempts, NEW from \in Acquiring \cup Holding, NEW to,
               NEW wrong, Moves(a, from, to, wrong)
        PROVE  HistoryGrows
    BY <1>m DEF Moves, Acquiring, Holding
  <1>1. ASSUME NEW a \in Attempts, Start(a) PROVE HistoryGrows
    BY <1>1 DEF Start, Active, Acquiring, Holding
  <1>2. ASSUME NEW a \in Attempts, Step(a), ~Start(a) PROVE HistoryGrows
    <2>1. PICK from, to, wrong :
            from \in Acquiring \cup Holding /\ Moves(a, from, to, wrong)
      BY <1>2 DEF Step, Create, Create2, Opens, Write, Close, Read, Unlink,
                  BeginRelease, RelRead, RelUnlink, Acquiring, Holding
    <2> QED BY <2>1, <1>m
  <1>3. CASE Restart
    BY <1>3 DEF Restart, Active, Acquiring, Holding, ghosts
  <1>4. CASE Tick \/ UNCHANGED lockVars
    BY <1>4 DEF Tick, lockVars, ghosts
  <1> QED BY <1>1, <1>2, <1>3, <1>4 DEF LockNext

\* An excuse stays one.
LEMMA ExcuseKept ==
  ASSUME HistoryGrows, NEW a \in Attempts, stage[a] = "busy", Excused(a)
  PROVE  Excused(a)'
  <1>1. CASE rival[a] # {} \/ "io" \in mishap[a]
    BY <1>1 DEF HistoryGrows, Excused
  <1>2. ASSUME NEW o \in Attempts,
               stage[o] \in Over, startedAt[a] <= startedAt[o] + Ttl,
               \/ bootOf[o] = bootOf[a] /\ "io" \in mishap[o]
               \/ bootOf[o] # bootOf[a] /\ "pid" \in mishap[a]
        PROVE  Excused(a)'
    <2>1. /\ startedAt'[a] = startedAt[a] /\ bootOf'[a] = bootOf[a]
          /\ startedAt'[o] = startedAt[o] /\ bootOf'[o] = bootOf[o]
          /\ stage'[o] \in Over
      BY <1>2 DEF HistoryGrows, Over
    <2>2. \/ bootOf'[o] = bootOf'[a] /\ "io" \in mishap'[o]
          \/ bootOf'[o] # bootOf'[a] /\ "pid" \in mishap'[a]
      BY <1>2, <2>1 DEF HistoryGrows
    <2>3. startedAt'[a] <= startedAt'[o] + Ttl
      BY <1>2, <2>1
    <2> QED BY <2>1, <2>2, <2>3 DEF Excused
  <1> QED BY <1>1, <1>2 DEF Excused

\* The entry that makes an attempt give up accounts for it.
LEMMA BlockHasCause ==
  ASSUME RivalInv, NEW a \in Attempts, Fresh(file, a), Read(a), stage'[a] = "busy",
         HistoryGrows
  PROVE  Excused(a)'
  <1> USE DEF RivalInv, LeakInv, LockTypeOK
  <1>1. PICK o \in Attempts : file.owner = {o}
    BY EntryTypes DEF LockFile, Fresh
  <1>2. file.written /\ startedAt[a] <= startedAt[o] + Ttl
    BY <1>1, BoundsAssumption DEF Fresh, Expired
  <1>3. stage[o] \in Holding \cup {"close"} \cup Over
    BY <1>1, <1>2 DEF OwnerOpenedIt, NeverOpened, EmptyUntilWritten, Acquiring, Holding, Over
  <1>4. stage[a] = "read" /\ UNCHANGED <<startedAt, bootOf, boot, rival>> /\ o # a
    BY <1>3 DEF Read, Moves, Holding, Over
  <1>5. bootOf[a] = boot
    BY <1>4 DEF AliveInBoot, Active, Acquiring
  <1>6. stage'[o] = stage[o] /\ mishap'[o] = mishap[o]
    BY <1>4 DEF Read, Moves
  <1>7. CASE bootOf[o] # boot
    <2>1. "pid" \in mishap'[a]
      BY <1>1, <1>7 DEF Read, Moves, isProcessAlive
    <2>2. stage[o] \in Over
      BY <1>3, <1>7 DEF AliveInBoot, Active, Acquiring, Holding
    <2> QED BY <1>2, <1>4, <1>5, <1>6, <1>7, <2>1, <2>2 DEF Excused
  <1>8. CASE bootOf[o] = boot /\ stage[o] \in Holding \cup {"close"}
    <2>1. o \in rival[a]
      BY <1>4, <1>8 DEF RivalsKnowEachOther, Active, Acquiring, Holding
    <2> QED BY <1>4, <2>1 DEF Excused
  <1>9. CASE bootOf[o] = boot /\ stage[o] \in Over
    <2>1. "io" \in mishap[o]
      BY <1>1, <1>2, <1>9 DEF NoLeakedLock, Holding, Over
    <2> QED BY <1>2, <1>4, <1>5, <1>6, <1>9, <2>1 DEF Excused
  <1> QED BY <1>3, <1>7, <1>8, <1>9

\* One step keeps the strengthened invariant behind RefusedOnlyByRival.
LEMMA RivalStep == RivalInv /\ [LockNext]_lockVars => RivalInv'
  <1> SUFFICES ASSUME RivalInv, [LockNext]_lockVars PROVE RivalInv'
    OBVIOUS
  <1>0. LeakInv' /\ LockTypeOK /\ LockTypeOK'
    BY LeakStep DEF RivalInv, LeakInv
  <1>g. HistoryGrows
    BY GrowsStep DEF RivalInv, LeakInv
  <1>1. RivalsKnowEachOther' /\ RecreatedByRival'
    <2> USE <1>0 DEF RivalInv, LockTypeOK, RivalsKnowEachOther, RecreatedByRival,
            Active, Acquiring, Holding, Moves, KeepsFile
    <2>1. ASSUME NEW a \in Attempts, Start(a)
          PROVE  RivalsKnowEachOther' /\ RecreatedByRival'
      BY <2>1 DEF Start
    <2>2. ASSUME NEW a \in Attempts, Create(a) \/ Create2(a)
          PROVE  RivalsKnowEachOther' /\ RecreatedByRival'
      BY <2>2 DEF Create, Create2, Opens, EntryOf
    <2>3. ASSUME NEW a \in Attempts, Write(a) \/ Close(a)
          PROVE  RivalsKnowEachOther' /\ RecreatedByRival'
      <3>1. file' # NoFile => file # NoFile
        BY <2>3, EntryTypes DEF Write, Close
      <3> QED BY <2>3, <3>1 DEF Write, Close
    <2>4. ASSUME NEW a \in Attempts, Read(a)
          PROVE  RivalsKnowEachOther' /\ RecreatedByRival'
      BY <2>4 DEF Read
    <2>5. ASSUME NEW a \in Attempts, Unlink(a) \/ RelUnlink(a)
          PROVE  RivalsKnowEachOther' /\ RecreatedByRival'
      BY <2>5 DEF Unlink, RelUnlink, Removes
    <2>6. ASSUME NEW a \in Attempts, BeginRelease(a) \/ RelRead(a)
          PROVE  RivalsKnowEachOther' /\ RecreatedByRival'
      BY <2>6 DEF BeginRelease, RelRead
    <2>7. CASE Restart
      BY <2>7 DEF Restart, ghosts
    <2>8. CASE Tick \/ UNCHANGED lockVars
      BY <2>8 DEF Tick, lockVars, ghosts
    <2> QED
      BY <2>1, <2>2, <2>3, <2>4, <2>5, <2>6, <2>7, <2>8 DEF LockNext, Step
  <1>2. RefusedOnlyByRival'
    <2> SUFFICES ASSUME NEW a \in Attempts, stage'[a] = "busy", stage[a] # "busy"
                 PROVE  Excused(a)'
      BY <1>g, ExcuseKept DEF RivalInv, RefusedOnlyByRival
    <2>1. Read(a) \/ Create2(a)
      <3> USE <1>0 DEF LockTypeOK, Moves
      <3>1. ASSUME NEW c \in Attempts, Step(c) PROVE Read(a) \/ Create2(a)
        BY <3>1 DEF Step, Start, Create, Create2, Opens, Write, Close, Read, Unlink,
                    BeginRelease, RelRead, RelUnlink
      <3>2. ~Restart /\ ~Tick /\ ~UNCHANGED lockVars
        BY DEF Restart, Tick, lockVars
      <3> QED BY <3>1, <3>2 DEF LockNext
    <2>2. CASE Read(a)
      <3>1. Fresh(file, a)
        BY <2>2, <1>0 DEF Read, Moves, LockTypeOK
      <3> QED BY <2>2, <3>1, <1>g, BlockHasCause
    <2>3. CASE Create2(a)
      <3>1. stage[a] = "create2" /\ file # NoFile
        BY <2>3, <1>0 DEF Create2, Opens, Moves, LockTypeOK
      <3> QED BY <3>1, <1>g DEF RivalInv, RecreatedByRival, HistoryGrows, Excused
    <2> QED BY <2>1, <2>2, <2>3
  <1> QED BY <1>0, <1>1, <1>2 DEF RivalInv

\* ApplyLockBusyError always has the cause RefusedOnlyByRival names, for any
\* number of attempts, TTL, restarts, failing calls and reused pids.
THEOREM RefusedOnlyByRivalHolds == LockSpec => []RefusedOnlyByRival
  <1>1. LockInit => RivalInv
    BY LockTypeInit DEF LockInit, RivalInv, LeakInv, NoFile, OwnerOpenedIt,
       EmptyUntilWritten, NoAttemptFromTheFuture, NoLeakedLock, AliveInBoot,
       RivalsKnowEachOther, RecreatedByRival, RefusedOnlyByRival,
       Active, Acquiring, Holding
  <1>2. RivalInv => RefusedOnlyByRival
    BY DEF RivalInv
  <1> QED BY <1>1, <1>2, RivalStep, PTL DEF LockSpec
------------------------------------------------------------------------------
\* An entry that a read found in nobody's way is not seized while it is the
\* same: if its owner is active, it was unreadable or older than the TTL.
LEMMA ActiveOwnerHasWindow ==
  ASSUME WindowInv, NEW a \in Attempts, stage[a] = "unlink",
         NEW o \in Attempts, file.owner = {o}, Active(o)
  PROVE  Grounds(a) \in Windows
  <1>1. bootOf[o] = boot
    BY DEF WindowInv, LeakInv, AliveInBoot
  <1>2. SUFFICES ASSUME seen[a].owner = {o}, seen[a].written
                 PROVE  Expired(a, file)
    BY DEF Grounds, Windows
  <1> QED BY <1>1, <1>2 DEF WindowInv, SeenIsNoBlock, Expired

\* One step keeps the strengthened invariant behind the lock's exclusion.
LEMMA WindowStep == WindowInv /\ [LockNext]_lockVars => WindowInv'
  <1> SUFFICES ASSUME WindowInv, [LockNext]_lockVars PROVE WindowInv'
    OBVIOUS
  <1>0. /\ LeakInv' /\ LockTypeOK /\ LockTypeOK'
        /\ OwnerOpenedIt /\ EmptyUntilWritten /\ AliveInBoot
    BY LeakStep DEF WindowInv, LeakInv
  <1> USE <1>0 DEF WindowInv, LockTypeOK, HeldIsThere, SeenOnlyBeforeUnlink,
          SeenIsNoBlock, NeverSeized,
          Acquiring, Holding, Moves, KeepsFile
  <1>1. ASSUME NEW a \in Attempts, Start(a) PROVE WindowInv'
    BY <1>1 DEF Start
  <1>2. ASSUME NEW a \in Attempts, Create(a) \/ Create2(a) PROVE WindowInv'
    <2>1. CASE file = NoFile /\ file' = EntryOf(a) /\ stage' = [stage EXCEPT ![a] = "write"]
      BY <1>2, <2>1 DEF Create, Create2, Opens, EntryOf, NoFile
    <2>2. CASE UNCHANGED file /\ stage'[a] # "write"
      BY <1>2, <2>2 DEF Create, Create2, Opens
    <2> QED BY <1>2, <2>1, <2>2 DEF Create, Create2, Opens
  <1>3. ASSUME NEW a \in Attempts, Write(a) PROVE WindowInv'
    <2>1. \/ file' = file /\ stage'[a] = "failed"
          \/ file.owner # {a} /\ file' = file /\ stage'[a] = "close"
          \/ file.owner = {a} /\ file' = [owner |-> {a}, written |-> TRUE]
      BY <1>3 DEF Write
    <2>2. /\ stage[a] = "write" /\ stage'[a] \in {"close", "failed"}
          /\ \A b \in Attempts \ {a} : stage'[b] = stage[b]
          /\ UNCHANGED <<seen, ousted, bootOf, boot, startedAt>>
      BY <1>3 DEF Write
    <2>3. SeenOnlyBeforeUnlink' /\ SeenIsNoBlock' /\ NeverSeized'
      BY <2>2
    <2>4. HeldIsThere'
      <3> SUFFICES ASSUME NEW b \in Attempts, ousted[b] = {},
                          stage'[b] \in Holding \cup {"write", "close"}
                   PROVE  file'.owner = {b} /\ (stage'[b] # "write" => file'.written)
        BY <2>2
      <3>1. file.owner = {b} /\ (stage[b] # "write" => file.written)
        BY <2>2
      <3>2. CASE b = a
        BY <2>1, <2>2, <3>1, <3>2
      <3>3. CASE b # a
        BY <2>1, <2>2, <3>1, <3>3
      <3> QED BY <3>2, <3>3
    <2> QED BY <2>3, <2>4
  <1>9. ASSUME NEW a \in Attempts, Close(a) PROVE WindowInv'
    BY <1>9 DEF Close
  <1>4. ASSUME NEW a \in Attempts, Read(a) PROVE WindowInv'
    <2>1. HeldIsThere' /\ NeverSeized' /\ SeenOnlyBeforeUnlink'
      BY <1>4 DEF Read
    <2>2. ASSUME NEW o \in Attempts, stage'[a] = "unlink", seen'[a].owner = {o}
          PROVE  /\ stage'[o] # "idle"
                 /\ seen'[a].written /\ bootOf[o] = boot
                      => startedAt[a] > startedAt[o] + Ttl
      \* what a saw is the entry that was there, or nothing usable
      <3>1. CASE seen' = [seen EXCEPT ![a] = file]
        <4>1. file.owner = {o}
          BY <2>2, <3>1
        <4>2. stage[o] \notin {"idle", "read"}
          BY <4>1 DEF OwnerOpenedIt, NeverOpened
        <4>3. ASSUME file.written, bootOf[o] = boot
              PROVE  startedAt[a] > startedAt[o] + Ttl
          <5>1. seen'[a].written
            BY <3>1, <4>3
          <5>2. ~(Fresh(file, a) /\ isProcessAlive(file))
            <6>1. CASE seen' = [seen EXCEPT ![a] = Unusable(file)]
              BY <5>1, <6>1, EntryTypes
            <6> QED BY <1>4, <2>2, <6>1 DEF Read
          <5> QED BY <4>1, <4>3, <5>2 DEF Fresh, Expired, isProcessAlive
        <4> QED BY <1>4, <2>2, <3>1, <4>2, <4>3 DEF Read
      <3>2. CASE seen' = [seen EXCEPT ![a] = Unusable(file)]
        <4>1. file.owner = {o} /\ ~seen'[a].written
          BY <2>2, <3>2, EntryTypes
        <4> QED BY <1>4, <4>1 DEF Read, OwnerOpenedIt, NeverOpened
      <3>3. CASE file = NoFile /\ UNCHANGED seen
        \* nothing was there: what it saw before is nothing either
        BY <1>4, <2>2, <3>3, EntryTypes DEF Read, SeenOnlyBeforeUnlink
      <3> QED BY <1>4, <2>2, <3>1, <3>2, <3>3 DEF Read
    <2>3. SeenIsNoBlock'
      BY <1>4, <2>2 DEF Read
    <2> QED BY <2>1, <2>3
  <1>5. ASSUME NEW a \in Attempts, Unlink(a) \/ RelUnlink(a) PROVE WindowInv'
    <2>1. SeenIsNoBlock' /\ SeenOnlyBeforeUnlink'
      BY <1>5 DEF Unlink, RelUnlink
    <2>2. CASE KeepsFile
      BY <1>5, <2>1, <2>2 DEF Unlink, RelUnlink
    <2>3. ASSUME NEW w \in Windows \cup {"seized"}, Removes(w),
                 \A o \in Attempts : file.owner = {o} /\ Active(o) => w \in Windows
          PROVE  WindowInv'
      <3>1. NeverSeized'
        BY <2>3 DEF Removes, Windows, LockFile, NoFile
      <3>2. HeldIsThere'
        BY <1>5, <2>3 DEF Unlink, RelUnlink, Removes, Active
      <3> QED BY <2>1, <3>1, <3>2
    <2>4. ASSUME Removes(Grounds(a)), stage[a] = "unlink" PROVE WindowInv'
      BY <2>3, <2>4, ActiveOwnerHasWindow, GroundsType
    <2>5. ASSUME Removes("release") PROVE WindowInv'
      BY <2>3, <2>5 DEF Windows
    <2> QED BY <1>5, <2>2, <2>4, <2>5 DEF Unlink, RelUnlink
  <1>6. ASSUME NEW a \in Attempts, BeginRelease(a) \/ RelRead(a) PROVE WindowInv'
    BY <1>6 DEF BeginRelease, RelRead
  <1>7. CASE Restart
    BY <1>7 DEF Restart, ghosts, NoFile, Active
  <1>8. CASE Tick \/ UNCHANGED lockVars
    BY <1>8 DEF Tick, lockVars, ghosts
  <1> QED
    BY <1>1, <1>2, <1>3, <1>4, <1>5, <1>6, <1>7, <1>8, <1>9 DEF LockNext, Step

\* Two attempts hold the lock together only through one of the windows
\* (OverlapOnlyThroughWindows), for any number of attempts, crashes, failing
\* calls and reused pids and whatever interleaves.
THEOREM OverlapOnlyThroughWindowsHolds == LockSpec => []OverlapOnlyThroughWindows
  <1>1. LockInit => WindowInv
    BY LockTypeInit DEF LockInit, WindowInv, LeakInv, NoFile, OwnerOpenedIt,
       EmptyUntilWritten, NoAttemptFromTheFuture, NoLeakedLock, AliveInBoot,
       Active, Acquiring, Holding, HeldIsThere,
       SeenOnlyBeforeUnlink, SeenIsNoBlock, NeverSeized
  <1>2. WindowInv => OverlapOnlyThroughWindows
    <2> SUFFICES ASSUME WindowInv, NEW a \in Attempts, NEW b \in Attempts, a # b,
                        stage[a] \in Holding, stage[b] \in Holding
                 PROVE  \E h \in {a, b} : ousted[h] # {} /\ ousted[h] \subseteq Windows
      BY DEF OverlapOnlyThroughWindows
    <2>1. \E h \in {a, b} : ousted[h] # {}
      BY DEF WindowInv, HeldIsThere
    <2>2. \A h \in {a, b} : ousted[h] \subseteq Windows
      BY DEF WindowInv, NeverSeized, LeakInv, LockTypeOK
    <2> QED BY <2>1, <2>2
  <1> QED BY <1>1, <1>2, WindowStep, PTL DEF LockSpec

------------------------------------------------------------------------------
(* The reviews.                                                            *)

OpOnly == {"op_lock", "op_validate"} \cup OpInside

Roles == /\ \A c \in OperatorCalls : pc[c] \notin InSlot \cup {"claim"}
         /\ \A c \in LeaderCalls : pc[c] \notin OpOnly

\* A row in the applying state is the leader's, undecided and approved of.
ApplyingRow ==
  \A r \in Reviews : row[r].apply = "applying" =>
    /\ row[r].decision = "pending"
    /\ row[r].assignee = "leader"
    /\ row[r].verdict = "approve"

GatePassed ==
  \A c \in LeaderCalls : pc[c] = "claim" => /\ row[on[c]].verdict = "approve"
                                           /\ row[on[c]].decision # "none"

OneSlotOwner ==
  \A c, d \in LeaderCalls :
    pc[c] \in InSlot /\ pc[d] \in InSlot /\ on[c] = on[d] => c = d

OperatorInside ==
  \A c \in OperatorCalls :
    pc[c] \in OpInside => row[on[c]].decision \in {"approved", "superseded"}

\* An abandoned row is applying with no call in its slot, and only such rows
\* are the reconciler's; every other applying row has its call.
AbandonedUnowned ==
  /\ orphans \subseteq abandoned
  /\ \A r \in abandoned :
       /\ row[r].apply = "applying"
       /\ \A c \in LeaderCalls : pc[c] \in InSlot => on[c] # r

ClaimsAreOwned ==
  \A r \in Reviews : row[r].apply = "applying" /\ r \notin abandoned =>
    \E c \in LeaderCalls : pc[c] \in InSlot /\ on[c] = r

DeadIsIdle == ~up => /\ orphans = {}
                     /\ \A c \in Calls : pc[c] = "idle"

\* What is approved and not yet applied, the operator approved.
ApprovedByOperator ==
  \A r \in Reviews : Appliable(r) => row[r].by = "operator"

SlotInv == /\ TypeOK
           /\ Roles
           /\ ApplyingRow
           /\ GatePassed
           /\ OneSlotOwner
           /\ SlotOwnerKeepsSlot
           /\ OperatorInside
           /\ AbandonedUnowned
           /\ ClaimsAreOwned
           /\ DeadIsIdle
           /\ ApprovedByOperator
           /\ LandedWasReviewed
------------------------------------------------------------------------------
\* What an UPDATE of one row leaves of the table.
LEMMA UpdateRow ==
  ASSUME row \in [Reviews -> Row], NEW r \in Reviews, NEW new \in Row,
         Update(r, new)
  PROVE  /\ row' \in [Reviews -> Row]
         /\ row'[r] = [new EXCEPT !.old = FALSE]
         /\ \A q \in Reviews \ {r} : row'[q] = row[q]
  <1>1. [new EXCEPT !.old = FALSE] \in Row
    BY DEF Row
  <1> QED BY <1>1 DEF Update

\* The tables, the calls and the workspace never leave their types.
LEMMA TypeInit == Init => TypeOK
  BY FlagAssumption DEF Init, TypeOK, NoRow, Row, Actors, Decisions, ApplyStates, Locations

\* One handler that is a single statement keeps the types.
LEMMA TypeRowStep ==
  ASSUME TypeOK, NEW r \in Reviews, RowStep(r) PROVE TypeOK'
  <1> USE DEF TypeOK, gitVars, runVars
  <1>0. row[r] \in Row
    OBVIOUS
  <1>1. CASE Materialize(r)
    <2>1. PICK d \in {"pending", "not_required"}, a \in {"user", "leader"},
               b \in {{n} : n \in 0..rev} \cup (IF BaseRequired THEN {} ELSE {{}}) :
                 Update(r, [NoRow EXCEPT !.decision = d, !.assignee = a, !.base = b])
      BY <1>1 DEF Materialize
    <2>2. [NoRow EXCEPT !.decision = d, !.assignee = a, !.base = b] \in Row
      <3>1. b \in SUBSET Nat
        OBVIOUS
      <3> QED BY <3>1 DEF NoRow, Row, Actors, Decisions, ApplyStates
    <2>3. row' \in [Reviews -> Row]
      BY <2>1, <2>2, UpdateRow
    <2> QED BY <1>1, <2>3 DEF Materialize
  <1>2. CASE Decide(r)
    <2>1. PICK d \in {"approved", "rejected", "revision_requested"} :
            Update(r, [row[r] EXCEPT !.decision = d, !.by = "operator"])
      BY <1>2 DEF Decide
    <2>2. [row[r] EXCEPT !.decision = d, !.by = "operator"] \in Row
      BY <1>0 DEF Row, Actors, Decisions
    <2> QED BY <1>2, <2>1, <2>2, UpdateRow DEF Decide
  <1>3. CASE LeaderReject(r)
    <2>1. PICK l \in Leaders :
            Update(r, [row[r] EXCEPT !.decision = "rejected", !.by = l])
      BY <1>3 DEF LeaderReject
    <2>2. [row[r] EXCEPT !.decision = "rejected", !.by = l] \in Row
      BY <1>0 DEF Row, Actors, Decisions
    <2> QED BY <1>3, <2>1, <2>2, UpdateRow DEF LeaderReject
  <1>4. CASE Escalate(r)
    <2>1. [row[r] EXCEPT !.assignee = "user"] \in Row
      BY <1>0 DEF Row
    <2> QED BY <1>4, <2>1, UpdateRow DEF Escalate
  <1>5. CASE SubmitVerdict(r)
    <2>1. PICK v \in {"approve", "other"} : Update(r, [row[r] EXCEPT !.verdict = v])
      BY <1>5 DEF SubmitVerdict
    <2>2. [row[r] EXCEPT !.verdict = v] \in Row
      BY <1>0 DEF Row
    <2> QED BY <1>5, <2>1, <2>2, UpdateRow DEF SubmitVerdict
  <1>6. CASE DiscardProbe(r)
    BY <1>6 DEF DiscardProbe
  <1>7. CASE DiscardUpdate(r)
    <2>1. [row[r] EXCEPT !.decision = "superseded", !.by = "operator"] \in Row
      BY <1>0 DEF Row, Actors, Decisions
    <2>2. row' \in [Reviews -> Row]
      BY <1>7, <2>1, UpdateRow DEF DiscardUpdate
    <2> QED BY <1>7, <2>2 DEF DiscardUpdate
  <1>8. CASE Reconcile(r)
    <2>1. /\ [row[r] EXCEPT !.apply = "applied", !.decision = "approved"] \in Row
          /\ [row[r] EXCEPT !.apply = "not_applied", !.by = "nobody"] \in Row
      BY <1>0 DEF Row, Actors, Decisions, ApplyStates
    <2>2. row' \in [Reviews -> Row]
      BY <1>8, <2>1, UpdateRow DEF Reconcile
    <2> QED BY <1>8, <2>2 DEF Reconcile, ScanFinds, ScanMisses
  <1> QED
    BY <1>1, <1>2, <1>3, <1>4, <1>5, <1>6, <1>7, <1>8 DEF RowStep

\* One step of an operator's apply keeps the types.
LEMMA TypeOpStep ==
  ASSUME TypeOK, NEW c \in OperatorCalls, OpStep(c) PROVE TypeOK'
  <1> USE NoneAssumption
      DEF TypeOK, gitVars, runVars, Goto, Return, Calls, Locations, OpInside, InSlot
  <1>1. CASE OpStart(c)
    BY <1>1 DEF OpStart
  <1>2. CASE OpLock(c) \/ OpValidate(c)
    BY <1>2 DEF OpLock, OpValidate, OpGoes, OpEnds
  <1>3. CASE OpPreflight(c)
    BY <1>3 DEF OpPreflight, OpGoes, OpEnds
  <1>4. CASE OpApply(c)
    <2>1. on[c] \in Reviews
      BY <1>4 DEF OpApply
    <2>2. tree' \in [Reviews -> {"absent", "partial", "full"}]
      BY <1>4, <2>1 DEF OpApply, GitApply
    <2>3. pc' \in [Calls -> Locations] /\ \A d \in Calls : pc'[d] = "idle" <=> pc[d] = "idle"
      BY <1>4 DEF OpApply, GitApply
    <2> QED BY <1>4, <2>2, <2>3 DEF OpApply
  <1>5. CASE OpRecord(c)
    <2>1. on[c] \in Reviews /\ row[on[c]] \in Row
      BY <1>5 DEF OpRecord
    <2>2. \A a \in ApplyStates : [row[on[c]] EXCEPT !.apply = a] \in Row
      BY <2>1 DEF Row
    <2>3. row' \in [Reviews -> Row]
      <3>1. CASE Appliable(on[c]) /\ pc[c] = "op_record"
        BY <1>5, <3>1, <2>1, <2>2, UpdateRow DEF OpRecord, ApplyStates
      <3>2. CASE Appliable(on[c]) /\ pc[c] = "op_fail"
        BY <1>5, <3>2, <2>1, <2>2, UpdateRow DEF OpRecord, ApplyStates
      <3>3. CASE ~Appliable(on[c])
        BY <1>5, <3>3 DEF OpRecord
      <3> QED BY <1>5, <3>1, <3>2, <3>3 DEF OpRecord
    <2> QED BY <1>5, <2>3 DEF OpRecord
  <1> QED
    BY <1>1, <1>2, <1>3, <1>4, <1>5 DEF OpStep

\* A guarded write of a leader call keeps the table's type.
LEMMA SettleType ==
  ASSUME row \in [Reviews -> Row], NEW c, on[c] \in Reviews,
         NEW new \in Row, Settle(c, new)
  PROVE  row' \in [Reviews -> Row]
  BY UpdateRow DEF Settle

\* One step of a leader's apply keeps the types.
LEMMA TypeLeaderStep ==
  ASSUME TypeOK, NEW c \in LeaderCalls, LeaderStep(c) PROVE TypeOK'
  <1> USE NoneAssumption
      DEF TypeOK, gitVars, runVars, Goto, Return, Calls, Locations, OpInside, InSlot
  <1>0. pc[c] # "idle" => on[c] \in Reviews /\ row[on[c]] \in Row
    OBVIOUS
  <1>1. CASE Gate(c)
    BY <1>1 DEF Gate
  <1>2. CASE Claim(c)
    <2>1. IdOf[c] \in Leaders
      BY CallAssumption
    <2>2. [row[on[c]] EXCEPT !.apply = "applying", !.by = IdOf[c]] \in Row
      BY <1>0, <1>2, <2>1 DEF Claim, Claimable, Row, Actors, ApplyStates
    <2>3. row' \in [Reviews -> Row]
      BY <1>0, <1>2, <2>2, UpdateRow DEF Claim, Claimable
    <2> QED BY <1>2, <2>3 DEF Claim, Claimable
  <1>3. ASSUME GiveUp(c), pc[c] # "idle"
        PROVE  row' \in [Reviews -> Row] /\ Return(c)
    <2>1. [row[on[c]] EXCEPT !.apply = "not_applied", !.by = "nobody"] \in Row
      BY <1>0, <1>3 DEF Row, Actors, ApplyStates
    <2> QED BY <1>0, <1>3, <2>1, SettleType DEF GiveUp, RevertSlot
  <1>5. CASE Lock(c)
    <2>1. row' \in [Reviews -> Row]
      BY <1>3, <1>5 DEF Lock
    <2> QED BY <1>3, <1>5, <2>1 DEF Lock
  <1>6. CASE Preflight(c)
    <2>1. row' \in [Reviews -> Row]
      BY <1>3, <1>6 DEF Preflight
    <2> QED BY <1>3, <1>6, <2>1 DEF Preflight
  <1>7. CASE Check(c)
    <2>1. row' \in [Reviews -> Row]
      BY <1>3, <1>7 DEF Check
    <2>2. abandoned' \subseteq Reviews
      BY <1>0, <1>7 DEF Check
    <2> QED BY <1>3, <1>7, <2>1, <2>2 DEF Check
  <1>8. CASE Apply(c)
    <2>1. on[c] \in Reviews
      BY <1>0, <1>8 DEF Apply
    <2>2. tree' \in [Reviews -> {"absent", "partial", "full"}]
      BY <1>8, <2>1 DEF Apply, GitApply
    <2>3. /\ pc' \in [Calls -> Locations]
          /\ \A d \in Calls : pc'[d] = "idle" <=> pc[d] = "idle"
      BY <1>8 DEF Apply, GitApply
    <2> QED BY <1>8, <2>2, <2>3 DEF Apply
  <1>9. CASE Stage(c)
    BY <1>9 DEF Stage
  <1>10. CASE Commit(c)
    <2>1. on[c] \in Reviews
      BY <1>0, <1>10 DEF Commit
    <2> QED BY <1>10, <2>1 DEF Commit, CommitIndex
  <1>11. CASE Reverse(c)
    <2>1. tree' \in [Reviews -> {"absent", "partial", "full"}]
      BY <1>11 DEF Reverse
    <2> QED BY <1>11, <2>1 DEF Reverse
  <1>12. CASE Mark(c)
    <2>1. PICK a \in {"apply_failed", "partially_applied"} :
            Settle(c, [row[on[c]] EXCEPT !.apply = a])
      BY <1>12 DEF Mark
    <2>2. [row[on[c]] EXCEPT !.apply = a] \in Row
      BY <1>0, <1>12 DEF Mark, Row, ApplyStates
    <2>3. row' \in [Reviews -> Row]
      BY <1>0, <1>12, <2>1, <2>2, SettleType DEF Mark
    <2> QED BY <1>12, <2>3 DEF Mark
  <1>13. CASE Final(c)
    <2>1. [row[on[c]] EXCEPT !.apply = "applied", !.decision = "approved"] \in Row
      BY <1>0, <1>13 DEF Final, Row, ApplyStates, Decisions
    <2>2. row' \in [Reviews -> Row]
      BY <1>0, <1>13, <2>1, SettleType DEF Final
    <2> QED BY <1>13, <2>2 DEF Final
  <1> QED
    BY <1>1, <1>2, <1>5, <1>6, <1>7, <1>8, <1>9, <1>10, <1>11, <1>12, <1>13
       DEF LeaderStep

\* Every step keeps the types.
LEMMA TypeStep == TypeOK /\ [Next]_vars => TypeOK'
  <1> SUFFICES ASSUME TypeOK, [Next]_vars PROVE TypeOK'
    OBVIOUS
  <1>1. ASSUME NEW r \in Reviews, Age(r) PROVE TypeOK'
    <2>1. row[r] \in Row
      BY DEF TypeOK
    <2>2. [row[r] EXCEPT !.old = TRUE] \in Row
      BY <2>1 DEF Row
    <2>3. row' = [row EXCEPT ![r] = [row[r] EXCEPT !.old = TRUE]]
      BY <1>1 DEF Age
    <2>4. row' \in [Reviews -> Row]
      BY <2>2, <2>3 DEF TypeOK
    <2> QED BY <1>1, <2>4 DEF Age, TypeOK, gitVars, runVars
  <1>2. CASE Crash
    <2>1. pc' \in [Calls -> Locations] /\ on' \in [Calls -> Reviews \cup {None}]
      BY <1>2 DEF Crash, Locations
    <2>2. \A c \in Calls : on'[c] = None <=> pc'[c] = "idle"
      BY <1>2 DEF Crash
    <2>3. crashes' \in Nat
      BY <1>2 DEF Crash, TypeOK
    <2> QED BY <1>2, <2>1, <2>2, <2>3 DEF Crash, TypeOK, gitVars
  <1>3. CASE Boot
    BY <1>3 DEF Boot, TypeOK, gitVars
  <1>4. CASE OperatorCommits \/ OperatorStages
    BY <1>4 DEF OperatorCommits, OperatorStages, TypeOK, runVars
  <1>5. CASE OperatorResets
    BY <1>5 DEF OperatorResets, TypeOK, runVars, Committed
  <1>6. CASE UNCHANGED vars
    BY <1>6 DEF vars, TypeOK, gitVars, runVars
  <1> QED
    BY <1>1, <1>2, <1>3, <1>4, <1>5, <1>6, TypeRowStep, TypeOpStep,
       TypeLeaderStep DEF Next, OperatorGit

\* TypeOK, for every number of reviews, calls and crashes.
THEOREM TypeCorrect == Spec => []TypeOK
  BY TypeInit, TypeStep, PTL DEF Spec
------------------------------------------------------------------------------
\* The initial state has no claim, no call and no row.
LEMMA SlotInit == Init => SlotInv
  BY TypeInit DEF Init, SlotInv, NoRow, Roles, ApplyingRow, GatePassed,
     OneSlotOwner, SlotOwnerKeepsSlot, OperatorInside, AbandonedUnowned,
     ClaimsAreOwned, DeadIsIdle, ApprovedByOperator, Appliable,
     LandedWasReviewed, InSlot, OpOnly, OpInside, Calls

\* What the handlers that are one statement do to their row, and that they
\* touch no other: they materialize it, decide it, file a verdict, supersede
\* it, or settle it as an orphan.
Materialized(r) == /\ row[r].decision = "none"
                   /\ row'[r].decision \in {"pending", "not_required"}
                   /\ row'[r].apply = "not_applied"

Decided(r) == /\ Undecided(r)
              /\ row'[r].decision # "none"
              /\ row'[r].decision = "approved" => row'[r].by = "operator"
              /\ row'[r].apply = row[r].apply
              /\ row'[r].verdict = row[r].verdict

Reviewed(r) == /\ row[r].verdict = "none"
               /\ row[r].apply # "applying"
               /\ row'[r].apply = row[r].apply
               /\ row'[r].by = row[r].by
               /\ row'[r].decision = row[r].decision
               /\ row'[r].assignee = row[r].assignee

Superseded(r) == /\ Appliable(r)
                 /\ row'[r].decision = "superseded"
                 /\ row'[r].apply = "not_applied"
                 /\ row'[r].verdict = row[r].verdict

Reconciled(r) == /\ r \in orphans
                 /\ orphans' = orphans \ {r}
                 /\ abandoned' = abandoned \ {r}
                 /\ row'[r].verdict = row[r].verdict
                 /\ row'[r].assignee = row[r].assignee
                 /\ \/ /\ row'[r].apply = "applied"
                       /\ row'[r].decision = "approved"
                       /\ row'[r].by = row[r].by
                       /\ r \in log
                    \/ /\ row'[r].apply = "not_applied"
                       /\ row'[r].decision = row[r].decision
                       /\ r \in log => r \in misled'

LEMMA RowEffect ==
  ASSUME TypeOK, NEW r \in Reviews, RowStep(r)
  PROVE  /\ \A q \in Reviews \ {r} : row'[q] = row[q]
         /\ \/ /\ orphans' \subseteq orphans
               /\ abandoned' = abandoned
               /\ \/ row'[r] = row[r]
                  \/ Materialized(r)
                  \/ Decided(r)
                  \/ Reviewed(r)
                  \/ Superseded(r)
            \/ Reconciled(r)
  <1> USE DEF runVars
  <1>0. row \in [Reviews -> Row] /\ row[r] \in Row
    BY DEF TypeOK
  <1>1. CASE Materialize(r)
    <2>1. PICK d \in {"pending", "not_required"}, a \in {"user", "leader"},
               b \in {{n} : n \in 0..rev} \cup (IF BaseRequired THEN {} ELSE {{}}) :
                 Update(r, [NoRow EXCEPT !.decision = d, !.assignee = a, !.base = b])
      BY <1>1 DEF Materialize
    <2> QED BY <1>0, <1>1, <2>1 DEF Materialize, Update, NoRow, Materialized
  <1>2. CASE Decide(r)
    <2>1. PICK d \in {"approved", "rejected", "revision_requested"} :
            Update(r, [row[r] EXCEPT !.decision = d, !.by = "operator"])
      BY <1>2 DEF Decide
    <2>2. /\ \A q \in Reviews \ {r} : row'[q] = row[q]
          /\ row'[r] = [row[r] EXCEPT !.decision = d, !.by = "operator",
                                      !.old = FALSE]
      BY <1>0, <2>1 DEF Update, Row
    <2> QED BY <1>0, <1>2, <2>2 DEF Decide, Row, Decided
  <1>3. CASE LeaderReject(r)
    <2>1. PICK l \in Leaders :
            Update(r, [row[r] EXCEPT !.decision = "rejected", !.by = l])
      BY <1>3 DEF LeaderReject
    <2>2. /\ \A q \in Reviews \ {r} : row'[q] = row[q]
          /\ row'[r] = [row[r] EXCEPT !.decision = "rejected", !.by = l,
                                      !.old = FALSE]
      BY <1>0, <2>1 DEF Update, Row
    <2> QED BY <1>0, <1>3, <2>2 DEF LeaderReject, Row, Decided
  <1>4. CASE Escalate(r)
    <2>1. /\ \A q \in Reviews \ {r} : row'[q] = row[q]
          /\ row'[r] = [row[r] EXCEPT !.assignee = "user", !.old = FALSE]
      BY <1>0, <1>4 DEF Escalate, Update, Row
    <2>2. row[r].decision = "pending"
      BY <1>4 DEF Escalate, Undecided
    <2> QED BY <1>0, <1>4, <2>1, <2>2 DEF Escalate, Row, Decided
  <1>5. CASE SubmitVerdict(r)
    <2>1. PICK v \in {"approve", "other"} :
            Update(r, [row[r] EXCEPT !.verdict = v])
      BY <1>5 DEF SubmitVerdict
    <2>2. /\ \A q \in Reviews \ {r} : row'[q] = row[q]
          /\ row'[r] = [row[r] EXCEPT !.verdict = v, !.old = FALSE]
      BY <1>0, <2>1 DEF Update, Row
    <2> QED BY <1>0, <1>5, <2>2 DEF SubmitVerdict, Row, Reviewed
  <1>6. CASE DiscardProbe(r)
    BY <1>6 DEF DiscardProbe
  <1>7. CASE DiscardUpdate(r)
    <2>1. CASE UNCHANGED row
      BY <1>7, <2>1 DEF DiscardUpdate
    <2>2. CASE /\ Appliable(r)
               /\ Update(r, [row[r] EXCEPT !.decision = "superseded",
                                           !.by = "operator"])
      <3>1. /\ \A q \in Reviews \ {r} : row'[q] = row[q]
            /\ row'[r] = [row[r] EXCEPT !.decision = "superseded",
                                        !.by = "operator", !.old = FALSE]
        BY <1>0, <2>2 DEF Update, Row
      <3>2. row[r].apply = "not_applied"
        BY <2>2 DEF Appliable
      <3>3. row'[r].verdict = row[r].verdict
        BY <1>0, <3>1 DEF Row
      <3> QED BY <1>0, <1>7, <2>2, <3>1, <3>2, <3>3
              DEF DiscardUpdate, Row, Superseded
    <2> QED BY <1>7, <2>1, <2>2 DEF DiscardUpdate
  <1>8. CASE Reconcile(r)
    <2>0. r \in orphans /\ orphans' = orphans \ {r}
      BY <1>8 DEF Reconcile
    <2>1. CASE /\ abandoned' = abandoned \ {r}
               /\ ScanFinds(r)
               /\ Update(r, [row[r] EXCEPT !.apply = "applied",
                                           !.decision = "approved"])
      BY <1>0, <2>0, <2>1 DEF Update, Row, ScanFinds, Reconciled
    <2>2. CASE /\ abandoned' = abandoned \ {r}
               /\ ScanMisses(r)
               /\ Update(r, [row[r] EXCEPT !.apply = "not_applied",
                                           !.by = "nobody"])
      BY <1>0, <2>0, <2>2 DEF Update, Row, ScanMisses, Reconciled
    <2>3. CASE UNCHANGED <<row, abandoned>>
      BY <2>0, <2>3
    <2> QED BY <1>8, <2>1, <2>2, <2>3 DEF Reconcile
  <1> QED
    BY <1>1, <1>2, <1>3, <1>4, <1>5, <1>6, <1>7, <1>8 DEF RowStep

\* The handlers that are one statement move no call.
LEMMA RowStepFrame ==
  ASSUME NEW r \in Reviews, RowStep(r)
  PROVE  UNCHANGED <<pc, on, head, log, index, tree, rev, up>>
  BY DEF RowStep, Materialize, Decide, LeaderReject, Escalate, SubmitVerdict,
     DiscardProbe, DiscardUpdate, Reconcile, runVars, gitVars

\* The single-statement handlers keep the exclusion invariant.
LEMMA SlotRowStep ==
  ASSUME SlotInv, NEW r \in Reviews, RowStep(r) PROVE SlotInv'
  <1> USE DEF Materialized, Decided, Reviewed, Superseded, Reconciled
  <1>0. TypeOK /\ TypeOK'
    BY TypeRowStep DEF SlotInv
  <1>1. \A c \in Calls : pc[c] # "idle" => on[c] \in Reviews
    BY <1>0, NoneAssumption DEF TypeOK
  <1>2. UNCHANGED <<pc, on, up>>
    BY RowStepFrame
  <1>3. row[r].apply = "applying" =>
          /\ row[r].decision = "pending"
          /\ row[r].verdict = "approve"
    BY DEF SlotInv, ApplyingRow
  <1>4. row[r].apply = "applying" => row'[r] = row[r] \/ Reconciled(r)
    BY <1>0, <1>3, RowEffect DEF Undecided, Appliable
  <1>5. ApplyingRow'
    BY <1>0, RowEffect DEF SlotInv, ApplyingRow, Undecided, Appliable
  <1>6. orphans \subseteq abandoned
    BY DEF SlotInv, AbandonedUnowned
  <1>7. Reconciled(r) => /\ row[r].apply = "applying"
                         /\ row[r].assignee = "leader"
                         /\ \A c \in LeaderCalls : pc[c] \in InSlot => on[c] # r
    BY <1>6 DEF SlotInv, AbandonedUnowned, ApplyingRow
  <1>8. LandedWasReviewed'
    BY <1>0, <1>3, <1>7, RowEffect
       DEF SlotInv, LandedWasReviewed, Undecided, Appliable
  <1>9. ApprovedByOperator'
    BY <1>0, <1>3, <1>7, RowEffect
       DEF SlotInv, ApprovedByOperator, Undecided, Appliable
  <1>10. GatePassed'
    <2> SUFFICES ASSUME NEW c \in LeaderCalls, pc[c] = "claim"
                 PROVE  /\ row'[on[c]].verdict = "approve"
                        /\ row'[on[c]].decision # "none"
      BY <1>2 DEF GatePassed
    <2>1. /\ row[on[c]].verdict = "approve"
          /\ row[on[c]].decision # "none"
          /\ on[c] \in Reviews
      BY <1>1 DEF SlotInv, GatePassed, Calls
    <2> QED BY <1>0, <2>1, RowEffect DEF Appliable
  <1>11. OneSlotOwner'
    BY <1>2 DEF SlotInv, OneSlotOwner
  <1>12. SlotOwnerKeepsSlot'
    <2> SUFFICES ASSUME NEW c \in LeaderCalls, pc[c] \in InSlot
                 PROVE  row'[on[c]].apply = "applying" /\ row'[on[c]].by = IdOf[c]
      BY <1>2 DEF SlotOwnerKeepsSlot, OwnsSlot
    <2>1. row[on[c]].apply = "applying" /\ row[on[c]].by = IdOf[c]
      BY DEF SlotInv, SlotOwnerKeepsSlot, OwnsSlot
    <2>2. row'[on[c]] = row[on[c]]
      BY <1>0, <1>1, <1>4, <1>7, <2>1, RowEffect DEF Calls, InSlot
    <2> QED BY <2>1, <2>2
  <1>13. OperatorInside'
    <2> SUFFICES ASSUME NEW c \in OperatorCalls, pc[c] \in OpInside
                 PROVE  row'[on[c]].decision \in {"approved", "superseded"}
      BY <1>2 DEF OperatorInside
    <2>1. /\ row[on[c]].decision \in {"approved", "superseded"}
          /\ on[c] \in Reviews
      BY <1>1 DEF SlotInv, OperatorInside, Calls, OpInside
    <2> QED BY <1>0, <1>3, <1>7, <2>1, RowEffect DEF Undecided
  <1>14. AbandonedUnowned'
    <2>1. orphans' \subseteq abandoned'
      BY <1>0, <1>6, RowEffect
    <2>2. ASSUME NEW q \in abandoned' PROVE row'[q].apply = "applying"
      <3>1. q \in abandoned /\ q \in Reviews
        BY <1>0, <2>2, RowEffect DEF TypeOK
      <3>2. row[q].apply = "applying"
        BY <3>1 DEF SlotInv, AbandonedUnowned
      <3> QED BY <1>0, <1>4, <2>2, <3>1, <3>2, RowEffect
    <2>3. abandoned' \subseteq abandoned
      BY <1>0, RowEffect
    <2> QED BY <1>2, <2>1, <2>2, <2>3 DEF SlotInv, AbandonedUnowned
  <1>15. ClaimsAreOwned'
    <2> SUFFICES ASSUME NEW q \in Reviews, row'[q].apply = "applying",
                        q \notin abandoned'
                 PROVE  \E c \in LeaderCalls : pc[c] \in InSlot /\ on[c] = q
      BY <1>2 DEF ClaimsAreOwned
    <2>1. row[q].apply = "applying" /\ q \notin abandoned
      BY <1>0, RowEffect
    <2> QED BY <2>1 DEF SlotInv, ClaimsAreOwned
  <1>16. Roles' /\ DeadIsIdle'
    BY <1>0, <1>2, RowEffect DEF SlotInv, Roles, DeadIsIdle
  <1> QED
    BY <1>0, <1>5, <1>8, <1>9, <1>10, <1>11, <1>12, <1>13, <1>14, <1>15, <1>16
       DEF SlotInv

\* An operator's apply keeps the exclusion invariant: it enters behind an
\* approved decision, and writes an approved row only.
LEMMA SlotOpStep ==
  ASSUME SlotInv, NEW c \in OperatorCalls, OpStep(c), up PROVE SlotInv'
  <1>0. TypeOK /\ TypeOK'
    BY TypeOpStep DEF SlotInv
  <1>1. /\ UNCHANGED <<orphans, abandoned, up>>
        /\ \A d \in Calls \ {c} : pc'[d] = pc[d] /\ on'[d] = on[d]
        /\ pc'[c] \notin InSlot \cup {"claim"}
    <2>0. c \in Calls /\ pc \in [Calls -> Locations]
                      /\ on \in [Calls -> Reviews \cup {None}]
      BY <1>0 DEF TypeOK, Calls
    <2>1. CASE OpStart(c)
      BY <2>0, <2>1 DEF OpStart, Goto, runVars, InSlot
    <2>2. CASE OpLock(c) \/ OpValidate(c) \/ OpPreflight(c)
      BY <2>0, <2>2 DEF OpLock, OpValidate, OpPreflight, OpGoes, OpEnds, Goto,
         Return, runVars, InSlot
    <2>3. CASE OpApply(c)
      BY <2>0, <2>3 DEF OpApply, GitApply, Goto, runVars, InSlot
    <2>4. CASE OpRecord(c)
      BY <2>0, <2>4 DEF OpRecord, Goto, Return, runVars, InSlot
    <2> QED BY <2>1, <2>2, <2>3, <2>4 DEF OpStep
  <1>2. pc'[c] \in OpInside => /\ on'[c] = on[c]
                               /\ UNCHANGED row
                               /\ pc[c] \in OpInside \/ Appliable(on[c])
    BY <1>0 DEF OpStep, OpStart, OpLock, OpValidate, OpPreflight, OpGoes,
       OpEnds, OpApply, OpRecord, GitApply, Goto, Return, TypeOK, OpInside, Calls
  <1>3. \/ UNCHANGED row
        \/ /\ on[c] \in Reviews
           /\ Appliable(on[c])
           /\ \A q \in Reviews \ {on[c]} : row'[q] = row[q]
           /\ row'[on[c]].decision = "approved"
           /\ row'[on[c]].apply \in {"applied", "apply_failed"}
           /\ row'[on[c]].verdict = row[on[c]].verdict
           /\ row'[on[c]].assignee = row[on[c]].assignee
           /\ row'[on[c]].by = row[on[c]].by
    <2>1. CASE OpRecord(c) /\ Appliable(on[c])
      <3>1. on[c] \in Reviews /\ row[on[c]] \in Row
        BY <1>0, <2>1, NoneAssumption DEF OpRecord, TypeOK, Calls
      <3>2. PICK a \in {"applied", "apply_failed"} :
              Update(on[c], [row[on[c]] EXCEPT !.apply = a])
        BY <2>1 DEF OpRecord
      <3> QED BY <1>0, <2>1, <3>1, <3>2 DEF Update, Appliable, Row, TypeOK
    <2>2. CASE ~(OpRecord(c) /\ Appliable(on[c]))
      BY <2>2 DEF OpStep, OpStart, OpLock, OpValidate, OpPreflight, OpGoes,
         OpEnds, OpApply, OpRecord
    <2> QED BY <2>1, <2>2
  <1>4. \A d \in LeaderCalls : pc'[d] = pc[d] /\ on'[d] = on[d]
    BY <1>1, CallAssumption DEF Calls
  <1>5. \A d \in Calls : pc[d] # "idle" => on[d] \in Reviews
    BY <1>0, NoneAssumption DEF TypeOK
  <1>6. ASSUME NEW q \in Reviews, row[q].apply = "applying" PROVE row'[q] = row[q]
    BY <1>3, <1>6 DEF Appliable
  <1>7. ApplyingRow' /\ LandedWasReviewed' /\ ApprovedByOperator'
    BY <1>3, CallAssumption
       DEF SlotInv, ApplyingRow, LandedWasReviewed, Appliable, ApprovedByOperator
  <1>8. GatePassed'
    BY <1>3, <1>4, <1>5 DEF SlotInv, GatePassed, Calls
  <1>9. OneSlotOwner'
    BY <1>4 DEF SlotInv, OneSlotOwner
  <1>10. SlotOwnerKeepsSlot'
    BY <1>4, <1>5, <1>6 DEF SlotInv, SlotOwnerKeepsSlot, OwnsSlot, Calls, InSlot
  <1>11. OperatorInside'
    <2> SUFFICES ASSUME NEW d \in OperatorCalls, pc'[d] \in OpInside
                 PROVE  row'[on'[d]].decision \in {"approved", "superseded"}
      BY DEF OperatorInside
    <2>1. CASE d = c
      BY <1>2, <2>1 DEF SlotInv, OperatorInside, Appliable
    <2>2. CASE d # c
      BY <1>1, <1>3, <1>5, <2>2 DEF SlotInv, OperatorInside, Calls, OpInside
    <2> QED BY <2>1, <2>2
  <1>12. AbandonedUnowned' /\ ClaimsAreOwned'
    <2>1. abandoned \subseteq Reviews
      BY <1>0 DEF TypeOK
    <2>2. \A q \in Reviews : row'[q].apply = "applying" => row[q].apply = "applying"
      BY <1>3
    <2> QED
      BY <1>1, <1>4, <1>6, <2>1, <2>2 DEF SlotInv, AbandonedUnowned, ClaimsAreOwned
  <1>13. Roles'
    BY <1>1, <1>4 DEF SlotInv, Roles, Calls
  <1>14. DeadIsIdle'
    BY <1>1 DEF DeadIsIdle
  <1> QED
    BY <1>0, <1>7, <1>8, <1>9, <1>10, <1>11, <1>12, <1>13, <1>14 DEF SlotInv

\* A guarded write that changes the table was made by the slot's owner.
LEMMA SettleEffect ==
  ASSUME row \in [Reviews -> Row], NEW c, on[c] \in Reviews, NEW new \in Row,
         Settle(c, new), row' # row
  PROVE  /\ row[on[c]].apply = "applying"
         /\ row'[on[c]] = [new EXCEPT !.old = FALSE]
         /\ \A q \in Reviews \ {on[c]} : row'[q] = row[q]
  BY UpdateRow DEF Settle, OwnsSlot

\* What a claim finds in the row, and what it leaves there.
LEMMA ClaimEffect ==
  ASSUME TypeOK, NEW c \in LeaderCalls, Claim(c), pc'[c] # "idle"
  PROVE  /\ on[c] \in Reviews
         /\ on' = on
         /\ pc'[c] = "lock"
         /\ \A q \in Reviews \ {on[c]} : row'[q] = row[q]
         /\ row[on[c]].apply = "not_applied"
         /\ row[on[c]].decision = "pending"
         /\ row[on[c]].assignee = "leader"
         /\ row'[on[c]] = [row[on[c]] EXCEPT !.apply = "applying",
                                             !.by = IdOf[c], !.old = FALSE]
  <1>0. c \in Calls /\ pc \in [Calls -> Locations] /\ row \in [Reviews -> Row]
    BY DEF TypeOK, Calls
  <1>1. on[c] \in Reviews
    BY <1>0, NoneAssumption DEF TypeOK, Claim
  <1>2. row[on[c]] \in Row
    BY <1>0, <1>1
  <1>3. ~Return(c)
    BY <1>0 DEF Return, Goto
  <1>4. Update(on[c], [row[on[c]] EXCEPT !.apply = "applying", !.by = IdOf[c]])
    BY <1>3 DEF Claim, Claimable
  <1>5. [row[on[c]] EXCEPT !.apply = "applying", !.by = IdOf[c]] \in Row
    BY <1>2, CallAssumption DEF Row, ApplyStates, Actors
  <1>6. pc'[c] = "lock"
    BY <1>0, <1>3 DEF Claim, Claimable, Goto
  <1>7. Claimable(on[c]) /\ on' = on
    BY <1>3 DEF Claim
  <1>8. /\ \A q \in Reviews \ {on[c]} : row'[q] = row[q]
        /\ row'[on[c]] = [row[on[c]] EXCEPT !.apply = "applying",
                                            !.by = IdOf[c], !.old = FALSE]
    BY <1>1, <1>2, <1>4, <1>5, <1>0, UpdateRow DEF Row
  <1> QED BY <1>1, <1>6, <1>7, <1>8 DEF Claimable

\* What a leader call's settlement does: its row leaves the applying state,
\* and the call leaves the slot.
Settled(c) == /\ on[c] \in Reviews
              /\ pc[c] \in InSlot
              /\ pc'[c] = "idle"
              /\ abandoned' = abandoned
              /\ row[on[c]].apply = "applying"
              /\ \A q \in Reviews \ {on[c]} : row'[q] = row[q]
              /\ row'[on[c]].assignee = row[on[c]].assignee
              /\ row'[on[c]].verdict = row[on[c]].verdict
              /\ \/ /\ pc[c] # "final"
                    /\ row'[on[c]].apply \notin {"applying", "applied"}
                    /\ row'[on[c]].decision = row[on[c]].decision
                 \/ /\ pc[c] = "final"
                    /\ row'[on[c]].apply = "applied"
                    /\ row'[on[c]].decision = "approved"

LEMMA SettledEffect ==
  ASSUME TypeOK, NEW c \in LeaderCalls, LeaderStep(c), row' # row, ~Claim(c)
  PROVE  Settled(c)
  <1> USE DEF Settled, runVars
  <1>0. /\ c \in Calls
        /\ pc \in [Calls -> Locations]
        /\ row \in [Reviews -> Row]
        /\ pc[c] \in InSlot => on[c] \in Reviews /\ row[on[c]] \in Row
    BY NoneAssumption DEF TypeOK, Calls, InSlot
  <1>1. ASSUME pc[c] \in InSlot, NEW a \in ApplyStates, NEW b \in Actors,
               Settle(c, [row[on[c]] EXCEPT !.apply = a, !.by = b])
        PROVE  /\ row[on[c]].apply = "applying"
               /\ \A q \in Reviews \ {on[c]} : row'[q] = row[q]
               /\ row'[on[c]].assignee = row[on[c]].assignee
               /\ row'[on[c]].verdict = row[on[c]].verdict
               /\ row'[on[c]].apply = a
               /\ row'[on[c]].decision = row[on[c]].decision
    <2>1. [row[on[c]] EXCEPT !.apply = a, !.by = b] \in Row
      BY <1>0, <1>1 DEF Row
    <2>2. /\ row[on[c]].apply = "applying"
          /\ row'[on[c]] = [[row[on[c]] EXCEPT !.apply = a, !.by = b] EXCEPT !.old = FALSE]
          /\ \A q \in Reviews \ {on[c]} : row'[q] = row[q]
      BY <1>0, <1>1, <2>1, SettleEffect
    <2> QED BY <1>0, <1>1, <2>2 DEF Row
  <1>2. ASSUME pc[c] \in InSlot, pc[c] # "final", GiveUp(c),
               abandoned' = abandoned
        PROVE  Settled(c)
    <2>1. Settle(c, [row[on[c]] EXCEPT !.apply = "not_applied", !.by = "nobody"])
      BY <1>2 DEF GiveUp, RevertSlot
    <2>2. pc'[c] = "idle"
      BY <1>0, <1>2 DEF GiveUp, Return, Goto
    <2>3. "not_applied" \in ApplyStates /\ "nobody" \in Actors
      BY DEF ApplyStates, Actors
    <2> QED BY <1>0, <1>1, <1>2, <2>1, <2>2, <2>3
  <1>4. CASE Lock(c) \/ Preflight(c)
    BY <1>2, <1>4 DEF Lock, Preflight, InSlot
  <1>5. CASE Check(c)
    BY <1>2, <1>5 DEF Check, InSlot
  <1>6. CASE Mark(c)
    <2>1. /\ pc[c] \in InSlot /\ pc[c] # "final"
          /\ pc'[c] = "idle" /\ abandoned' = abandoned
      BY <1>0, <1>6 DEF Mark, InSlot, Goto, Return
    <2>2. PICK a \in {"apply_failed", "partially_applied"} :
            Settle(c, [row[on[c]] EXCEPT !.apply = a])
      BY <1>6 DEF Mark
    <2>3. [row[on[c]] EXCEPT !.apply = a] \in Row
      BY <1>0, <2>1 DEF Row, ApplyStates
    <2>4. /\ row[on[c]].apply = "applying"
          /\ \A q \in Reviews \ {on[c]} : row'[q] = row[q]
          /\ row'[on[c]] = [[row[on[c]] EXCEPT !.apply = a] EXCEPT !.old = FALSE]
      BY <1>0, <2>1, <2>2, <2>3, SettleEffect
    <2> QED BY <1>0, <2>1, <2>4 DEF Row
  <1>7. CASE Final(c)
    <2>1. pc[c] = "final" /\ pc'[c] = "idle" /\ abandoned' = abandoned
      BY <1>0, <1>7 DEF Final, Goto, Return
    <2>a. pc[c] \in InSlot
      BY <2>1 DEF InSlot
    <2>2. [row[on[c]] EXCEPT !.apply = "applied", !.decision = "approved"] \in Row
      BY <1>0, <2>a DEF Row, ApplyStates, Decisions
    <2>3. /\ row[on[c]].apply = "applying"
          /\ \A q \in Reviews \ {on[c]} : row'[q] = row[q]
          /\ row'[on[c]] = [[row[on[c]] EXCEPT !.apply = "applied",
                                               !.decision = "approved"]
                              EXCEPT !.old = FALSE]
      BY <1>0, <1>7, <2>a, <2>2, SettleEffect DEF Final
    <2> QED BY <1>0, <2>1, <2>a, <2>3 DEF Row
  <1> QED
    BY <1>4, <1>5, <1>6, <1>7 DEF LeaderStep, Gate, Apply, Stage, Commit, Reverse

\* Where a leader call's step takes it, and that it moves no other call.
LEMMA LeaderStepFrame ==
  ASSUME TypeOK, NEW c \in LeaderCalls, LeaderStep(c)
  PROVE  /\ UNCHANGED <<orphans, up>>
         /\ \/ abandoned' = abandoned
            \/ /\ abandoned' = abandoned \cup {on[c]}
               /\ pc[c] = "check"
               /\ pc'[c] = "idle"
               /\ row' = row
         /\ \A d \in Calls \ {c} : pc'[d] = pc[d] /\ on'[d] = on[d]
         /\ pc'[c] \notin OpOnly
         /\ pc'[c] \in InSlot /\ ~Claim(c) =>
              pc[c] \in InSlot /\ on'[c] = on[c] /\ row' = row
         /\ pc'[c] = "claim" => /\ row' = row
                                /\ row[on'[c]].verdict = "approve"
                                /\ row[on'[c]].decision # "none"
  <1>0. /\ c \in Calls
        /\ pc \in [Calls -> Locations]
        /\ on \in [Calls -> Reviews \cup {None}]
    BY DEF TypeOK, Calls
  <1>1. CASE Gate(c)
    BY <1>0, <1>1 DEF Gate, Goto, runVars, OpOnly, OpInside, InSlot
  <1>2. CASE Claim(c)
    BY <1>0, <1>2 DEF Claim, Claimable, Goto, Return, runVars, OpOnly, OpInside
  <1>3. CASE Lock(c) \/ Preflight(c)
    BY <1>0, <1>3 DEF Lock, Preflight, GiveUp, Goto, Return, runVars, OpOnly,
       OpInside, InSlot
  <1>4. CASE Check(c)
    BY <1>0, <1>4 DEF Check, GiveUp, Goto, Return, runVars, OpOnly, OpInside, InSlot
  <1>5. CASE Apply(c)
    BY <1>0, <1>5 DEF Apply, GitApply, Goto, runVars, OpOnly, OpInside, InSlot
  <1>6. CASE Stage(c)
    BY <1>0, <1>6 DEF Stage, Goto, runVars, OpOnly, OpInside, InSlot
  <1>7. CASE Commit(c) \/ Reverse(c)
    BY <1>0, <1>7 DEF Commit, Reverse, Goto, runVars, OpOnly, OpInside, InSlot
  <1>8. CASE Mark(c) \/ Final(c)
    BY <1>0, <1>8 DEF Mark, Final, Goto, Return, runVars, OpOnly, OpInside, InSlot
  <1> QED
    BY <1>1, <1>2, <1>3, <1>4, <1>5, <1>6, <1>7, <1>8 DEF LeaderStep

\* The owner leaves the slot by a settlement, or abandons its row.
LEMMA LeavesSettled ==
  ASSUME TypeOK, NEW c \in LeaderCalls, LeaderStep(c), pc[c] \in InSlot,
         pc'[c] \notin InSlot, OwnsSlot(c)
  PROVE  row'[on[c]].apply # "applying" \/ on[c] \in abandoned'
  <1>0. /\ c \in Calls
        /\ pc \in [Calls -> Locations]
        /\ row \in [Reviews -> Row]
        /\ on[c] \in Reviews
        /\ row[on[c]] \in Row
    BY NoneAssumption DEF TypeOK, Calls, InSlot
  <1>1. ASSUME NEW new \in Row, new.apply # "applying", Settle(c, new)
        PROVE  row'[on[c]].apply # "applying"
    <2>1. row'[on[c]] = [new EXCEPT !.old = FALSE]
      BY <1>0, <1>1, UpdateRow DEF Settle
    <2> QED BY <1>1, <2>1 DEF Row
  <1>2. ASSUME GiveUp(c) PROVE row'[on[c]].apply # "applying"
    <2>1. [row[on[c]] EXCEPT !.apply = "not_applied", !.by = "nobody"] \in Row
      BY <1>0 DEF Row, Actors, ApplyStates
    <2>2. [row[on[c]] EXCEPT !.apply = "not_applied", !.by = "nobody"].apply = "not_applied"
      BY <1>0 DEF Row
    <2> QED BY <1>1, <1>2, <2>1, <2>2 DEF GiveUp, RevertSlot
  <1>3. CASE Lock(c) \/ Preflight(c)
    BY <1>0, <1>2, <1>3 DEF Lock, Preflight, Goto, InSlot
  <1>4. CASE Check(c)
    BY <1>0, <1>2, <1>4 DEF Check, Goto, InSlot
  <1>5. CASE Mark(c)
    <2>1. PICK a \in {"apply_failed", "partially_applied"} :
            Settle(c, [row[on[c]] EXCEPT !.apply = a])
      BY <1>5 DEF Mark
    <2>2. /\ [row[on[c]] EXCEPT !.apply = a] \in Row
          /\ [row[on[c]] EXCEPT !.apply = a].apply = a
      BY <1>0 DEF Row, ApplyStates
    <2> QED BY <1>1, <2>1, <2>2
  <1>6. CASE Final(c)
    <2>1. /\ [row[on[c]] EXCEPT !.apply = "applied", !.decision = "approved"] \in Row
          /\ [row[on[c]] EXCEPT !.apply = "applied",
                                !.decision = "approved"].apply = "applied"
      BY <1>0 DEF Row, ApplyStates, Decisions
    <2> QED BY <1>1, <1>6, <2>1 DEF Final
  <1>7. CASE Gate(c) \/ Claim(c)
    BY <1>7 DEF Gate, Claim, InSlot
  <1>8. CASE Apply(c) \/ Stage(c) \/ Commit(c) \/ Reverse(c)
    BY <1>0, <1>8 DEF Apply, GitApply, Stage, Commit, Reverse, Goto, InSlot
  <1> QED BY <1>3, <1>4, <1>5, <1>6, <1>7, <1>8 DEF LeaderStep

\* A leader's apply keeps the exclusion invariant: its conditional UPDATE
\* finds nobody in the slot, and only the owner settles it.
LEMMA SlotLeaderStep ==
  ASSUME SlotInv, NEW c \in LeaderCalls, LeaderStep(c), up PROVE SlotInv'
  <1>0. TypeOK /\ TypeOK'
    BY TypeLeaderStep DEF SlotInv
  <1>1. /\ UNCHANGED <<orphans, up>>
        /\ \A d \in Calls \ {c} : pc'[d] = pc[d] /\ on'[d] = on[d]
        /\ pc'[c] \notin OpOnly
    BY <1>0, LeaderStepFrame
  <1>2. \A d \in OperatorCalls : pc'[d] = pc[d] /\ on'[d] = on[d]
    BY <1>1, CallAssumption DEF Calls
  <1>3. \A d \in Calls : pc[d] # "idle" => on[d] \in Reviews
    BY <1>0, NoneAssumption DEF TypeOK
  <1>4. Roles'
    BY <1>1, <1>2 DEF SlotInv, Roles, Calls
  <1>5. DeadIsIdle'
    BY <1>1 DEF DeadIsIdle
  <1>6. CASE Claim(c) /\ pc'[c] # "idle"
    <2>1. /\ on[c] \in Reviews
          /\ on' = on
          /\ pc[c] = "claim"
          /\ pc'[c] = "lock"
          /\ \A q \in Reviews \ {on[c]} : row'[q] = row[q]
          /\ row[on[c]].apply = "not_applied"
          /\ row[on[c]].decision = "pending"
          /\ row[on[c]].assignee = "leader"
      BY <1>0, <1>6, ClaimEffect DEF Claim, Claimable
    <2>2. /\ row'[on[c]].apply = "applying"
          /\ row'[on[c]].by = IdOf[c]
          /\ row'[on[c]].decision = "pending"
          /\ row'[on[c]].assignee = "leader"
          /\ row'[on[c]].verdict = row[on[c]].verdict
      <3>1. row[on[c]] \in Row
        BY <1>0, <2>1 DEF TypeOK
      <3>2. row'[on[c]] = [row[on[c]] EXCEPT !.apply = "applying",
                                            !.by = IdOf[c], !.old = FALSE]
        BY <1>0, <1>6, <2>1, ClaimEffect
      <3>3. row[on[c]].decision = "pending" /\ row[on[c]].assignee = "leader"
        BY <2>1
      <3> QED BY <3>1, <3>2, <3>3 DEF Row
    <2>3. row[on[c]].verdict = "approve"
      BY <2>1 DEF SlotInv, GatePassed
    <2>4. \A d \in LeaderCalls : pc[d] \in InSlot => on[d] # on[c]
      BY <2>1 DEF SlotInv, SlotOwnerKeepsSlot, OwnsSlot
    <2>5. on[c] \notin abandoned /\ abandoned' = abandoned
      BY <1>0, <2>1, LeaderStepFrame DEF SlotInv, AbandonedUnowned
    <2>6. ApplyingRow' /\ LandedWasReviewed' /\ ApprovedByOperator'
      BY <2>1, <2>2, <2>3
         DEF SlotInv, ApplyingRow, LandedWasReviewed, ApprovedByOperator, Appliable
    <2>a. \A d \in LeaderCalls \ {c} : pc'[d] = pc[d] /\ on'[d] = on[d]
      BY <1>1 DEF Calls
    <2>b. \A d \in LeaderCalls : pc[d] \in InSlot \cup {"claim"} => on[d] \in Reviews
      <3>1. "idle" \notin InSlot \cup {"claim"}
        BY DEF InSlot
      <3> QED BY <1>3, <3>1 DEF Calls
    <2>7. GatePassed'
      <3> SUFFICES ASSUME NEW d \in LeaderCalls, pc'[d] = "claim"
                   PROVE  /\ row'[on'[d]].verdict = "approve"
                          /\ row'[on'[d]].decision # "none"
        BY DEF GatePassed
      <3>1. d # c /\ pc[d] = "claim" /\ on'[d] = on[d] /\ on[d] \in Reviews
        BY <2>1, <2>a, <2>b
      <3>2. row[on[d]].verdict = "approve" /\ row[on[d]].decision # "none"
        BY <3>1 DEF SlotInv, GatePassed
      <3>3. CASE on[d] = on[c]
        BY <2>1, <2>2, <3>1, <3>2, <3>3
      <3>4. CASE on[d] # on[c]
        BY <2>1, <3>1, <3>2, <3>4
      <3> QED BY <3>3, <3>4
    <2>8. OneSlotOwner'
      <3> SUFFICES ASSUME NEW d \in LeaderCalls, NEW e \in LeaderCalls,
                          pc'[d] \in InSlot, pc'[e] \in InSlot, on'[d] = on'[e]
                   PROVE  d = e
        BY DEF OneSlotOwner
      <3>1. CASE d = c \/ e = c
        BY <2>1, <2>4, <2>a, <3>1
      <3>2. CASE d # c /\ e # c
        BY <2>a, <3>2 DEF SlotInv, OneSlotOwner
      <3> QED BY <3>1, <3>2
    <2>9. SlotOwnerKeepsSlot'
      <3> SUFFICES ASSUME NEW d \in LeaderCalls, pc'[d] \in InSlot
                   PROVE  row'[on'[d]].apply = "applying" /\ row'[on'[d]].by = IdOf[d]
        BY DEF SlotOwnerKeepsSlot, OwnsSlot
      <3>1. CASE d = c
        BY <2>1, <2>2, <3>1
      <3>2. CASE d # c
        <4>1. pc[d] \in InSlot /\ on'[d] = on[d] /\ row'[on[d]] = row[on[d]]
          BY <2>1, <2>4, <2>a, <2>b, <3>2
        <4> QED BY <4>1 DEF SlotInv, SlotOwnerKeepsSlot, OwnsSlot
      <3> QED BY <3>1, <3>2
    <2>10. OperatorInside'
      BY <1>2, <1>3, <2>1 DEF SlotInv, OperatorInside, Calls, OpInside
    <2>11. AbandonedUnowned'
      <3>1. \A q \in abandoned : q \in Reviews /\ row'[q] = row[q]
        BY <1>0, <2>1, <2>5 DEF TypeOK
      <3>2. \A d \in LeaderCalls : pc'[d] \in InSlot =>
              on'[d] = on[d] /\ (pc[d] \in InSlot \/ on[d] = on[c])
        BY <2>1, <2>a
      <3> QED BY <1>1, <2>1, <2>5, <3>1, <3>2 DEF SlotInv, AbandonedUnowned
    <2>12. ClaimsAreOwned'
      <3> SUFFICES ASSUME NEW q \in Reviews, row'[q].apply = "applying",
                          q \notin abandoned'
                   PROVE  \E d \in LeaderCalls : pc'[d] \in InSlot /\ on'[d] = q
        BY DEF ClaimsAreOwned
      <3>1. CASE q = on[c]
        BY <2>1, <3>1 DEF InSlot
      <3>2. CASE q # on[c]
        <4>1. PICK d \in LeaderCalls : pc[d] \in InSlot /\ on[d] = q
          BY <2>1, <2>5, <3>2 DEF SlotInv, ClaimsAreOwned
        <4> QED BY <2>a, <3>2, <4>1
      <3> QED BY <3>1, <3>2
    <2> QED
      BY <1>0, <1>4, <1>5, <2>6, <2>7, <2>8, <2>9, <2>10, <2>11, <2>12 DEF SlotInv
  <1>7. CASE ~(Claim(c) /\ pc'[c] # "idle")
    <2>1. /\ pc'[c] \in InSlot =>
               pc[c] \in InSlot /\ on'[c] = on[c] /\ row' = row
          /\ pc'[c] = "claim" => /\ row' = row
                                 /\ row[on'[c]].verdict = "approve"
                                 /\ row[on'[c]].decision # "none"
      BY <1>0, <1>7, LeaderStepFrame DEF InSlot
    <2>2. row' = row \/ Settled(c)
      <3>1. CASE Claim(c)
        BY <1>0, <1>7, <3>1 DEF Claim, Claimable, Goto, TypeOK, Calls
      <3>2. CASE ~Claim(c)
        BY <1>0, <3>2, SettledEffect
      <3> QED BY <3>1, <3>2
    <2>a. Settled(c) => row[on[c]].by \in Leaders /\ pc'[c] \notin InSlot
      BY CallAssumption DEF SlotInv, SlotOwnerKeepsSlot, OwnsSlot, Settled, InSlot
    <2> USE DEF Settled
    <2>3. \A d \in LeaderCalls \ {c} : pc[d] \in InSlot => row'[on[d]] = row[on[d]]
      BY <1>3, <2>2 DEF SlotInv, OneSlotOwner, Calls, InSlot
    <2>4. \A q \in Reviews : row'[q] # row[q] =>
            row[q].decision = "pending" /\ q \notin abandoned
      BY <2>2 DEF SlotInv, ApplyingRow, AbandonedUnowned
    <2>5. ApplyingRow' /\ LandedWasReviewed' /\ ApprovedByOperator'
      BY <2>2 DEF SlotInv, ApplyingRow, LandedWasReviewed, ApprovedByOperator, Appliable
    <2>6. GatePassed'
      BY <1>1, <1>3, <2>1, <2>2 DEF SlotInv, GatePassed, Calls
    <2>7. OneSlotOwner'
      BY <1>1, <2>1 DEF SlotInv, OneSlotOwner, Calls
    <2>8. SlotOwnerKeepsSlot'
      BY <1>1, <2>1, <2>3 DEF SlotInv, SlotOwnerKeepsSlot, OwnsSlot, Calls
    <2>9. OperatorInside'
      BY <1>2, <1>3, <2>4 DEF SlotInv, OperatorInside, Calls, OpInside
    <2>10. AbandonedUnowned'
      <3>1. \A q \in abandoned : row'[q].apply = "applying"
        BY <1>0, <2>4 DEF TypeOK, SlotInv, AbandonedUnowned
      <3>2. \A d \in LeaderCalls : pc'[d] \in InSlot =>
              pc[d] \in InSlot /\ on'[d] = on[d]
        BY <1>1, <2>1 DEF Calls
      <3>3. ASSUME abandoned' # abandoned
            PROVE  /\ abandoned' = abandoned \cup {on[c]}
                   /\ row'[on[c]].apply = "applying"
                   /\ \A d \in LeaderCalls : pc'[d] \in InSlot => on'[d] # on[c]
        <4>1. /\ abandoned' = abandoned \cup {on[c]}
              /\ pc[c] \in InSlot
              /\ pc'[c] \notin InSlot
              /\ row' = row
          BY <1>0, <3>3, LeaderStepFrame DEF InSlot
        <4> QED
          BY <3>2, <4>1 DEF SlotInv, SlotOwnerKeepsSlot, OwnsSlot, OneSlotOwner
      <3>4. orphans' \subseteq abandoned'
        BY <1>1, <3>3 DEF SlotInv, AbandonedUnowned
      <3> QED BY <3>1, <3>2, <3>3, <3>4 DEF SlotInv, AbandonedUnowned
    <2>11. ClaimsAreOwned'
      <3> SUFFICES ASSUME NEW q \in Reviews, row'[q].apply = "applying",
                          q \notin abandoned'
                   PROVE  \E d \in LeaderCalls : pc'[d] \in InSlot /\ on'[d] = q
        BY DEF ClaimsAreOwned
      <3>1. row[q].apply = "applying" /\ q \notin abandoned
        BY <1>0, <2>2, LeaderStepFrame
      <3>2. PICK d \in LeaderCalls : pc[d] \in InSlot /\ on[d] = q
        BY <3>1 DEF SlotInv, ClaimsAreOwned
      <3>3. CASE d # c
        BY <1>1, <3>2, <3>3 DEF Calls
      <3>4. CASE d = c
        <4>1. pc'[c] \in InSlot
          BY <1>0, <3>2, <3>4, LeavesSettled DEF SlotInv, SlotOwnerKeepsSlot
        <4> QED BY <2>1, <3>2, <3>4, <4>1
      <3> QED BY <3>3, <3>4
    <2> QED
      BY <1>0, <1>4, <1>5, <2>5, <2>6, <2>7, <2>8, <2>9, <2>10, <2>11 DEF SlotInv
  <1> QED BY <1>6, <1>7

\* The clock, the process and the operator's own git keep it too.
LEMMA SlotStep == SlotInv /\ [Next]_vars => SlotInv'
  <1> SUFFICES ASSUME SlotInv, [Next]_vars PROVE SlotInv'
    OBVIOUS
  <1>0. TypeOK /\ TypeOK'
    BY TypeStep DEF SlotInv
  <1>1. ASSUME NEW r \in Reviews, Age(r) PROVE SlotInv'
    <2>1. row[r] \in Row
      BY <1>0 DEF TypeOK
    <2>2. row' = [row EXCEPT ![r] = [row[r] EXCEPT !.old = TRUE]]
      BY <1>1 DEF Age
    <2>3. \A q \in Reviews : /\ row'[q].apply = row[q].apply
                             /\ row'[q].by = row[q].by
                             /\ row'[q].decision = row[q].decision
                             /\ row'[q].assignee = row[q].assignee
                             /\ row'[q].verdict = row[q].verdict
      BY <1>0, <2>1, <2>2 DEF TypeOK, Row
    <2>4. UNCHANGED <<pc, on, orphans, up, abandoned>>
      BY <1>1 DEF Age, runVars
    <2>5. /\ \A c \in Calls : pc[c] # "idle" => on[c] \in Reviews
          /\ abandoned \subseteq Reviews
      BY <1>0, NoneAssumption DEF TypeOK
    <2>6. ApplyingRow' /\ LandedWasReviewed' /\ ApprovedByOperator'
      BY <2>3 DEF SlotInv, ApplyingRow, LandedWasReviewed, ApprovedByOperator, Appliable
    <2>7. GatePassed' /\ OperatorInside'
      BY <2>3, <2>4, <2>5 DEF SlotInv, GatePassed, OperatorInside, Calls, OpInside
    <2>8. SlotOwnerKeepsSlot'
      BY <2>3, <2>4, <2>5 DEF SlotInv, SlotOwnerKeepsSlot, OwnsSlot, Calls, InSlot
    <2>9. AbandonedUnowned' /\ ClaimsAreOwned'
      BY <2>3, <2>4, <2>5 DEF SlotInv, AbandonedUnowned, ClaimsAreOwned
    <2>10. Roles' /\ OneSlotOwner' /\ DeadIsIdle'
      BY <2>4 DEF SlotInv, Roles, OneSlotOwner, DeadIsIdle
    <2> QED BY <1>0, <2>6, <2>7, <2>8, <2>9, <2>10 DEF SlotInv
  <1>2. CASE Crash
    <2>1. /\ \A c \in Calls : pc'[c] = "idle"
          /\ orphans' = {}
          /\ abandoned' = {r \in Reviews : row[r].apply = "applying"}
          /\ row' = row
      BY <1>2 DEF Crash
    <2>2. AbandonedUnowned' /\ ClaimsAreOwned'
      BY <2>1 DEF AbandonedUnowned, ClaimsAreOwned, Calls, InSlot
    <2> QED
      BY <1>0, <2>1, <2>2 DEF SlotInv, Roles, ApplyingRow, GatePassed,
         OneSlotOwner, SlotOwnerKeepsSlot, OperatorInside, DeadIsIdle,
         ApprovedByOperator, Appliable, LandedWasReviewed, OpOnly, OpInside,
         InSlot, Calls
  <1>3. CASE Boot
    <2>1. /\ \A c \in Calls : pc[c] = "idle"
          /\ up'
          /\ UNCHANGED <<row, pc, on, abandoned>>
      BY <1>3 DEF Boot, SlotInv, DeadIsIdle
    <2>2. \A r \in orphans' : r \in Reviews /\ row[r].apply = "applying"
      BY <1>3 DEF Boot
    <2>3. orphans' \subseteq abandoned
      BY <2>1, <2>2 DEF SlotInv, ClaimsAreOwned, InSlot, Calls
    <2>4. AbandonedUnowned' /\ ClaimsAreOwned' /\ DeadIsIdle'
      BY <2>1, <2>3 DEF SlotInv, AbandonedUnowned, ClaimsAreOwned, DeadIsIdle
    <2> QED
      BY <1>0, <2>1, <2>4 DEF SlotInv, Roles, ApplyingRow, GatePassed,
         OneSlotOwner, SlotOwnerKeepsSlot, OwnsSlot, OperatorInside,
         ApprovedByOperator, Appliable, LandedWasReviewed
  <1>4. CASE OperatorGit \/ UNCHANGED vars
    <2>1. UNCHANGED <<row, pc, on, orphans, up, abandoned>>
      BY <1>4 DEF OperatorGit, OperatorStages, OperatorCommits, OperatorResets,
         vars, runVars
    <2> QED
      BY <1>0, <2>1 DEF SlotInv, Roles, ApplyingRow, GatePassed, OneSlotOwner,
         SlotOwnerKeepsSlot, OwnsSlot, OperatorInside, AbandonedUnowned,
         ClaimsAreOwned, DeadIsIdle, ApprovedByOperator, Appliable,
         LandedWasReviewed
  <1> QED
    BY <1>1, <1>2, <1>3, <1>4, SlotRowStep, SlotOpStep, SlotLeaderStep DEF Next

\* The invariant's slot parts add up to exclusion between all paths.
LEMMA SlotInvExcludes == SlotInv => OneApplyPathPerReview
  <1> SUFFICES ASSUME SlotInv, NEW c \in Calls, NEW d \in Calls, c # d,
                      on[c] = on[d], pc[c] \in InSlot,
                      pc[d] \in InSlot \cup OpInside
               PROVE  FALSE
    BY DEF OneApplyPathPerReview
  <1>1. c \in LeaderCalls /\ on[c] \in Reviews
    BY NoneAssumption DEF SlotInv, Roles, Calls, TypeOK, InSlot
  <1>2. row[on[c]].decision = "pending"
    BY <1>1 DEF SlotInv, SlotOwnerKeepsSlot, OwnsSlot, ApplyingRow
  <1>3. CASE pc[d] \in InSlot
    <2>1. d \in LeaderCalls
      BY <1>3 DEF SlotInv, Roles, Calls
    <2> QED BY <1>1, <1>3, <2>1 DEF SlotInv, OneSlotOwner
  <1>4. CASE pc[d] \in OpInside
    <2>1. d \in OperatorCalls
      BY <1>4 DEF SlotInv, Roles, Calls, OpOnly
    <2> QED BY <1>2, <1>4, <2>1 DEF SlotInv, OperatorInside
  <1> QED BY <1>3, <1>4

\* The inductive invariant holds throughout.
LEMMA SlotInvHolds == Spec => []SlotInv
  BY SlotInit, SlotStep, PTL DEF Spec

\* Two apply paths never work on one review at a time, for any number of
\* calls and crashes and even when the file lock lets two calls in: the
\* conditional UPDATE of claimApplyingSlot and the decision it needs do it.
THEOREM SlotExclusion == Spec => []OneApplyPathPerReview
  BY SlotInvHolds, SlotInvExcludes, PTL

\* A leader call's guarded writes are never lost between claim and
\* settlement: no other handler, and no reconciler, takes its slot.
THEOREM SlotKept == Spec => []SlotOwnerKeepsSlot
  <1>1. SlotInv => SlotOwnerKeepsSlot
    BY DEF SlotInv
  <1> QED BY <1>1, SlotInvHolds, PTL

\* A claimed row has exactly one call to settle it, or it was abandoned and
\* has none: for any number of reviews, calls and crashes.
THEOREM ApplyingOwned == Spec => []ApplyingHasOwner
  <1>1. SlotInv => ApplyingHasOwner
    <2> SUFFICES ASSUME SlotInv, NEW r \in Reviews
                 PROVE  LET owners == {c \in LeaderCalls : on[c] = r /\ pc[c] \in InSlot}
                        IN  IF row[r].apply = "applying" /\ r \notin abandoned
                              THEN \E c \in LeaderCalls : owners = {c}
                              ELSE owners = {}
      BY DEF ApplyingHasOwner
    <2>1. CASE row[r].apply = "applying" /\ r \notin abandoned
      <3>1. PICK c \in LeaderCalls : pc[c] \in InSlot /\ on[c] = r
        BY <2>1 DEF SlotInv, ClaimsAreOwned
      <3>2. \A d \in LeaderCalls : on[d] = r /\ pc[d] \in InSlot => d = c
        BY <3>1 DEF SlotInv, OneSlotOwner
      <3> QED BY <2>1, <3>1, <3>2
    <2>2. CASE row[r].apply # "applying"
      BY <2>2 DEF SlotInv, SlotOwnerKeepsSlot, OwnsSlot
    <2>3. CASE r \in abandoned
      BY <2>3 DEF SlotInv, AbandonedUnowned
    <2> QED BY <2>1, <2>2, <2>3
  <1> QED BY <1>1, SlotInvHolds, PTL

\* Whatever the leader landed was assigned to it and approved by a reviewer,
\* and only approved reviews are applied.
THEOREM LandedReviewed == Spec => []LandedWasReviewed
  <1>1. SlotInv => LandedWasReviewed
    BY DEF SlotInv
  <1> QED BY <1>1, SlotInvHolds, PTL
------------------------------------------------------------------------------
\* What an operator's apply does to its row, and to no other: an eligible one
\* becomes applied or failed.
LEMMA OpEffect ==
  ASSUME TypeOK, NEW c \in OperatorCalls, OpStep(c)
  PROVE  \/ UNCHANGED row
         \/ /\ on[c] \in Reviews
            /\ OpRecord(c)
            /\ Appliable(on[c])
            /\ \A q \in Reviews \ {on[c]} : row'[q] = row[q]
            /\ row'[on[c]].decision = "approved"
            /\ row'[on[c]].apply = IF pc[c] = "op_record" THEN "applied"
                                                         ELSE "apply_failed"
            /\ row'[on[c]].by = row[on[c]].by
  <1>1. CASE OpRecord(c) /\ Appliable(on[c])
    <2>1. on[c] \in Reviews /\ row[on[c]] \in Row
      BY <1>1, NoneAssumption DEF OpRecord, TypeOK, Calls
    <2>2. Update(on[c], [row[on[c]] EXCEPT
              !.apply = IF pc[c] = "op_record" THEN "applied" ELSE "apply_failed"])
      BY <1>1 DEF OpRecord
    <2> QED BY <1>1, <2>1, <2>2 DEF Update, Appliable, Row, TypeOK
  <1>2. CASE ~(OpRecord(c) /\ Appliable(on[c]))
    BY <1>2 DEF OpStep, OpStart, OpLock, OpValidate, OpPreflight, OpGoes,
       OpEnds, OpApply, OpRecord
  <1> QED BY <1>1, <1>2

\* A row that was never materialized is blank where it matters.
Unmaterialized ==
  \A r \in Reviews : row[r].decision = "none" => row[r].apply = "not_applied"

\* What any step does to a row: it materializes it, decides it while it is
\* undecided, touches neither field, supersedes an approved one, settles one
\* that is applying, or applies an approved one.
LEMMA DecisionEffect ==
  ASSUME SlotInv, [Next]_vars, NEW r \in Reviews
  PROVE  \/ row'[r].decision = row[r].decision /\ row'[r].apply = row[r].apply
         \/ /\ row[r].decision = "none"
            /\ row'[r].decision # "none"
            /\ row'[r].apply = "not_applied"
         \/ /\ Undecided(r)
            /\ row'[r].decision # "none"
            /\ row'[r].apply = row[r].apply
         \/ /\ Appliable(r)
            /\ row'[r].decision = "superseded"
            /\ row'[r].apply = "not_applied"
         \/ /\ row[r].decision = "pending"
            /\ row[r].apply \in {"applying", "not_applied"}
            /\ row'[r].decision \in {"pending", "approved"}
         \/ /\ Appliable(r)
            /\ row'[r].decision = "approved"
  <1>0. TypeOK
    BY DEF SlotInv
  <1>1. ASSUME NEW q \in Reviews, RowStep(q)
        PROVE  \/ row'[q] = row[q]
               \/ /\ row[q].decision = "none"
                  /\ row'[q].decision # "none"
                  /\ row'[q].apply = "not_applied"
               \/ /\ Undecided(q)
                  /\ row'[q].decision # "none"
                  /\ row'[q].apply = row[q].apply
               \/ row'[q].decision = row[q].decision /\ row'[q].apply = row[q].apply
               \/ /\ Appliable(q)
                  /\ row'[q].decision = "superseded"
                  /\ row'[q].apply = "not_applied"
               \/ /\ row[q].decision = "pending"
                  /\ row[q].apply = "applying"
                  /\ row'[q].decision \in {"pending", "approved"}
    BY <1>0, <1>1, RowEffect
       DEF SlotInv, AbandonedUnowned, ApplyingRow, Materialized, Decided,
           Reviewed, Superseded, Reconciled
  <1>2. CASE \E q \in Reviews : RowStep(q)
    BY <1>0, <1>1, <1>2, RowEffect
  <1>3. CASE \E c \in OperatorCalls : OpStep(c)
    BY <1>0, <1>3, OpEffect
  <1>4. ASSUME NEW c \in LeaderCalls, Claim(c), row' # row
        PROVE  /\ \A q \in Reviews \ {on[c]} : row'[q] = row[q]
               /\ on[c] \in Reviews
               /\ row[on[c]].decision = "pending"
               /\ row[on[c]].apply = "not_applied"
               /\ row'[on[c]].decision = "pending"
    <2>1. pc'[c] # "idle"
      BY <1>0, <1>4 DEF Claim, Goto, TypeOK, Calls
    <2>2. on[c] \in Reviews /\ row[on[c]] \in Row
      BY <1>0, <1>4, <2>1, ClaimEffect DEF TypeOK
    <2>3. row'[on[c]] = [row[on[c]] EXCEPT !.apply = "applying",
                                          !.by = IdOf[c], !.old = FALSE]
      BY <1>0, <1>4, <2>1, ClaimEffect
    <2>4. row'[on[c]].decision = row[on[c]].decision
      BY <2>2, <2>3 DEF Row
    <2> QED BY <1>0, <1>4, <2>1, <2>2, <2>4, ClaimEffect
  <1>5. ASSUME NEW c \in LeaderCalls, LeaderStep(c), ~Claim(c), row' # row
        PROVE  /\ \A q \in Reviews \ {on[c]} : row'[q] = row[q]
               /\ row[on[c]].decision = "pending"
               /\ row[on[c]].apply = "applying"
               /\ row'[on[c]].decision \in {"pending", "approved"}
    BY <1>0, <1>5, SettledEffect DEF SlotInv, ApplyingRow, Settled
  <1>6. CASE \E c \in LeaderCalls : LeaderStep(c)
    BY <1>4, <1>5, <1>6
  <1>7. CASE \E q \in Reviews : Age(q)
    BY <1>0, <1>7 DEF Age, TypeOK, Row
  <1>8. CASE Crash \/ Boot \/ OperatorGit \/ UNCHANGED vars
    BY <1>8 DEF Crash, Boot, OperatorGit, OperatorStages, OperatorCommits,
       OperatorResets, vars
  <1> QED BY <1>2, <1>3, <1>6, <1>7, <1>8 DEF Next

\* No row loses its decision, so an unmaterialized one is still blank.
LEMMA UnmaterializedStep ==
  ASSUME SlotInv, Unmaterialized, [Next]_vars PROVE Unmaterialized'
  BY DecisionEffect DEF Unmaterialized, Appliable

\* Decisions are final, but for the discard of an approved and unapplied
\* review, and an ended apply stays ended: for any number of reviews, calls
\* and crashes, with or without the file lock and whatever git does.
THEOREM NothingReopened == Spec => NothingIsReopened
  <1>1. Init => Unmaterialized
    BY DEF Init, NoRow, Unmaterialized
  <1>2. SlotInv /\ Unmaterialized /\ [Next]_vars =>
          /\ Unmaterialized'
          /\ [\A r \in Reviews :
               LET d == row[r].decision IN
               /\ d \notin {"none", "pending"} /\ row'[r].decision # d
                  => /\ d = "approved"
                     /\ row'[r].decision = "superseded"
                     /\ row[r].apply = "not_applied"
               /\ row[r].apply \in {"applied", "apply_failed", "partially_applied"}
                  => row'[r].apply = row[r].apply]_vars
    BY UnmaterializedStep, DecisionEffect DEF Undecided, Appliable, Unmaterialized
  <1> QED BY <1>1, <1>2, SlotInvHolds, PTL DEF Spec, NothingIsReopened
------------------------------------------------------------------------------
\* What git knows of the leader's applies, but for the commits it denied.
Known == log \ misled

\* Between its commit and its final UPDATE a call has nothing else to do: it
\* gets there by its commit, and no call of a known commit is anywhere else.
FinalIsLogged ==
  \A c \in LeaderCalls : pc[c] = "final" => on[c] \in log

KnownIsFinal ==
  \A c \in LeaderCalls : pc[c] \in InSlot /\ on[c] \in Known => pc[c] = "final"

LogInv == /\ CommitIsNeverForgotten
          /\ LandedIsInGit
          /\ FinalIsLogged
          /\ KnownIsFinal

\* The log only grows, by the review of the call at "commit"; a commit becomes
\* known only if that call goes on to its final UPDATE.
LEMMA LogStep ==
  ASSUME TypeOK, [Next]_vars
  PROVE  \/ log' = log /\ misled \subseteq misled'
         \/ \E c \in LeaderCalls :
              /\ Commit(c)
              /\ on[c] \in Reviews
              /\ log' = log \cup {on[c]}
              /\ \/ pc'[c] = "final" /\ misled' = misled
                 \/ misled' = misled \cup {on[c]}
  <1>1. ASSUME NEW c \in LeaderCalls, Commit(c)
        PROVE  \/ log' = log /\ misled' = misled
               \/ /\ on[c] \in Reviews
                  /\ log' = log \cup {on[c]}
                  /\ \/ pc'[c] = "final" /\ misled' = misled
                     \/ misled' = misled \cup {on[c]}
    BY <1>1, NoneAssumption DEF Commit, CommitIndex, Goto, TypeOK, Calls
  <1>2. ASSUME NEW c \in LeaderCalls, LeaderStep(c), ~Commit(c)
        PROVE  log' = log /\ misled' = misled
    BY <1>2 DEF LeaderStep, Gate, Claim, Lock, Preflight, Check, Apply, Stage,
       Reverse, Mark, Final, gitVars
  <1>3. ASSUME NEW c \in OperatorCalls, OpStep(c)
        PROVE  log' = log /\ misled' = misled
    BY <1>3 DEF OpStep, OpStart, OpLock, OpValidate, OpPreflight, OpGoes, OpEnds,
       OpApply, OpRecord, gitVars
  <1>4. ASSUME NEW r \in Reviews, RowStep(r)
        PROVE  log' = log /\ misled \subseteq misled'
    BY <1>4 DEF RowStep, Materialize, Decide, LeaderReject, Escalate,
       SubmitVerdict, DiscardProbe, DiscardUpdate, Reconcile, ScanFinds,
       ScanMisses, gitVars
  <1>5. CASE \/ \E r \in Reviews : Age(r)
             \/ Crash \/ Boot \/ OperatorGit \/ UNCHANGED vars
    BY <1>5 DEF Age, Crash, Boot, OperatorGit, OperatorStages, OperatorCommits,
       OperatorResets, gitVars, vars
  <1> QED BY <1>1, <1>2, <1>3, <1>4, <1>5 DEF Next

\* A leader call is moved by its own steps, and by a crash.
LEMMA LeaderMoves ==
  ASSUME TypeOK, [Next]_vars, NEW d \in LeaderCalls
  PROVE  \/ pc'[d] = pc[d] /\ on'[d] = on[d]
         \/ LeaderStep(d)
         \/ pc'[d] = "idle"
  <1>0. d \in Calls
    BY DEF Calls
  <1>1. CASE \E c \in OperatorCalls : OpStep(c)
    <2>1. PICK c \in OperatorCalls : OpStep(c)
      BY <1>1
    <2>2. c # d /\ c \in Calls
      BY CallAssumption DEF Calls
    <2> QED
      BY <1>0, <2>1, <2>2 DEF OpStep, OpStart, OpLock, OpValidate, OpPreflight,
         OpGoes, OpEnds, OpApply, OpRecord, GitApply, Goto, Return, TypeOK
  <1>2. CASE \E c \in LeaderCalls : LeaderStep(c)
    BY <1>0, <1>2, LeaderStepFrame
  <1>3. CASE \E r \in Reviews : RowStep(r)
    BY <1>3, RowStepFrame
  <1>4. CASE Crash
    BY <1>0, <1>4 DEF Crash
  <1>5. CASE \/ \E r \in Reviews : Age(r)
             \/ Boot \/ OperatorGit \/ UNCHANGED vars
    BY <1>5 DEF Age, Boot, OperatorGit, OperatorStages, OperatorCommits,
       OperatorResets, vars
  <1> QED BY <1>1, <1>2, <1>3, <1>4, <1>5 DEF Next

\* A known commit's row is settled by its own call's final UPDATE, or by a
\* reconciler that asked the log.
LEMMA KnownRowStep ==
  ASSUME SlotInv, LogInv, [Next]_vars, NEW r \in log, r \notin misled'
  PROVE  row'[r].apply \in {"applying", "applied"}
  <1>0. /\ TypeOK
        /\ r \in Reviews
        /\ r \in Known
        /\ row[r].apply \in {"applying", "applied"}
    <2>1. TypeOK /\ r \in Reviews
      BY DEF SlotInv, TypeOK
    <2>2. r \notin misled
      BY <2>1, LogStep
    <2> QED BY <2>1, <2>2 DEF Known, LogInv, CommitIsNeverForgotten
  <1>1. CASE row[r].apply = "applied"
    BY <1>0, <1>1, DecisionEffect DEF SlotInv, LandedWasReviewed, Undecided, Appliable
  <1>2. CASE row[r].apply = "applying"
    <2>0. row[r].decision = "pending"
      BY <1>0, <1>2 DEF SlotInv, ApplyingRow
    <2>1. CASE \E q \in Reviews : RowStep(q)
      BY <1>0, <1>2, <2>0, <2>1, RowEffect
         DEF Materialized, Decided, Reviewed, Superseded, Reconciled, Undecided,
             Appliable
    <2>2. CASE \E c \in OperatorCalls : OpStep(c)
      BY <1>0, <1>2, <2>2, OpEffect DEF Appliable
    <2>3. ASSUME NEW c \in LeaderCalls, LeaderStep(c), row' # row
          PROVE  row'[r].apply \in {"applying", "applied"}
      <3>1. CASE Claim(c)
        <4>1. pc'[c] # "idle"
          BY <1>0, <2>3, <3>1 DEF Claim, Goto, TypeOK, Calls
        <4> QED BY <1>0, <1>2, <3>1, <4>1, ClaimEffect
      <3>2. CASE ~Claim(c)
        <4>1. Settled(c)
          BY <1>0, <2>3, <3>2, SettledEffect
        <4> QED BY <1>0, <1>2, <4>1 DEF Settled, LogInv, KnownIsFinal
      <3> QED BY <3>1, <3>2
    <2>4. CASE \E q \in Reviews : Age(q)
      BY <1>0, <1>2, <2>4 DEF Age, TypeOK, Row
    <2>5. CASE Crash \/ Boot \/ OperatorGit \/ UNCHANGED vars
      BY <1>2, <2>5 DEF Crash, Boot, OperatorGit, OperatorStages, OperatorCommits,
         OperatorResets, vars
    <2> QED BY <1>2, <2>1, <2>2, <2>3, <2>4, <2>5 DEF Next
  <1> QED BY <1>0, <1>1, <1>2

\* A row says the leader applied it only once its commit is in the log.
LEMMA LandedStep ==
  ASSUME SlotInv, LogInv, [Next]_vars PROVE LandedIsInGit'
  <1> SUFFICES ASSUME NEW r \in Reviews, row'[r].apply = "applied",
                      row'[r].by \in Leaders
               PROVE  r \in log'
    BY DEF LandedIsInGit
  <1>0. TypeOK /\ log \subseteq log'
    BY LogStep DEF SlotInv
  <1>1. row[r].apply = "applied" /\ row[r].by \in Leaders => r \in log
    BY DEF LogInv, LandedIsInGit
  <1>2. row[r].apply = "applied" => row[r].decision = "approved"
    BY DEF SlotInv, LandedWasReviewed
  <1>3. CASE \E q \in Reviews : RowStep(q)
    BY <1>0, <1>1, <1>2, <1>3, RowEffect
       DEF Materialized, Decided, Reviewed, Superseded, Reconciled, Undecided
  <1>4. CASE \E c \in OperatorCalls : OpStep(c)
    BY <1>0, <1>1, <1>4, OpEffect, CallAssumption DEF SlotInv, ApprovedByOperator
  <1>5. ASSUME NEW c \in LeaderCalls, LeaderStep(c), row' # row PROVE r \in log'
    <2>1. CASE Claim(c)
      <3>1. pc'[c] # "idle"
        BY <1>0, <1>5, <2>1 DEF Claim, Goto, TypeOK, Calls
      <3>2. row'[on[c]].apply = "applying"
        <4>1. on[c] \in Reviews /\ row[on[c]] \in Row
          BY <1>0, <2>1, <3>1, ClaimEffect DEF TypeOK
        <4>2. row'[on[c]] = [row[on[c]] EXCEPT !.apply = "applying",
                                              !.by = IdOf[c], !.old = FALSE]
          BY <1>0, <2>1, <3>1, ClaimEffect
        <4> QED BY <4>1, <4>2 DEF Row
      <3>3. \A q \in Reviews \ {on[c]} : row'[q] = row[q]
        BY <1>0, <2>1, <3>1, ClaimEffect
      <3> QED BY <1>0, <1>1, <3>2, <3>3
    <2>2. CASE ~Claim(c)
      <3>1. Settled(c)
        BY <1>0, <1>5, <2>2, SettledEffect
      <3> QED BY <1>0, <1>1, <3>1 DEF Settled, LogInv, FinalIsLogged
    <2> QED BY <2>1, <2>2
  <1>6. CASE \E q \in Reviews : Age(q)
    BY <1>0, <1>1, <1>6 DEF Age, TypeOK, Row
  <1>7. CASE Crash \/ Boot \/ OperatorGit \/ UNCHANGED vars
    BY <1>0, <1>1, <1>7 DEF Crash, Boot, OperatorGit, OperatorStages,
       OperatorCommits, OperatorResets, vars
  <1> QED
    BY <1>0, <1>1, <1>3, <1>4, <1>5, <1>6, <1>7 DEF Next

\* A call comes to its final UPDATE by its commit only.
LEMMA FinalIsLoggedStep ==
  ASSUME SlotInv, LogInv, [Next]_vars PROVE FinalIsLogged'
  <1> SUFFICES ASSUME NEW d \in LeaderCalls, pc'[d] = "final"
               PROVE  on'[d] \in log'
    BY DEF FinalIsLogged
  <1>0. TypeOK /\ log \subseteq log' /\ d \in Calls
    BY LogStep DEF SlotInv, Calls
  <1>1. CASE pc'[d] = pc[d] /\ on'[d] = on[d]
    BY <1>0, <1>1 DEF LogInv, FinalIsLogged
  <1>2. CASE LeaderStep(d)
    <2>1. Commit(d) /\ on' = on
      BY <1>0, <1>2 DEF LeaderStep, Gate, Claim, Lock, Preflight, Check, GiveUp,
         Apply, GitApply, Stage, Commit, Reverse, Mark, Final, Goto, Return, TypeOK
    <2> QED BY <1>0, <2>1 DEF Commit, CommitIndex, Goto, TypeOK
  <1> QED BY <1>0, <1>1, <1>2, LeaderMoves

\* A call enters the slot of a review that is not applied, and a commit that
\* becomes known sends the one call in the slot to its final UPDATE.
LEMMA KnownIsFinalStep ==
  ASSUME SlotInv, LogInv, [Next]_vars PROVE KnownIsFinal'
  <1> SUFFICES ASSUME NEW d \in LeaderCalls, pc'[d] \in InSlot,
                      on'[d] \in log', on'[d] \notin misled'
               PROVE  pc'[d] = "final"
    BY DEF KnownIsFinal, Known
  <1>0. TypeOK /\ d \in Calls /\ pc \in [Calls -> Locations]
    BY DEF SlotInv, TypeOK, Calls
  <1>1. CASE pc'[d] = pc[d] /\ on'[d] = on[d]
    <2>1. CASE on[d] \in Known
      BY <1>1, <2>1 DEF LogInv, KnownIsFinal
    <2>2. CASE on[d] \notin Known
      <3>1. PICK c \in LeaderCalls : /\ Commit(c)
                                     /\ log' = log \cup {on[c]}
                                     /\ \/ pc'[c] = "final" /\ misled' = misled
                                        \/ misled' = misled \cup {on[c]}
        BY <1>0, <1>1, <2>2, LogStep DEF Known
      <3>2. on[c] = on[d] /\ pc'[c] = "final" /\ pc[c] \in InSlot
        BY <1>1, <2>2, <3>1 DEF Known, Commit, InSlot
      <3>3. c = d
        BY <1>1, <3>2 DEF SlotInv, OneSlotOwner
      <3> QED BY <3>2, <3>3
    <2> QED BY <2>1, <2>2
  <1>2. CASE LeaderStep(d) /\ Claim(d)
    <2>1. pc'[d] # "idle"
      BY DEF InSlot
    <2>2. on[d] \in Reviews /\ on' = on /\ row[on[d]].apply = "not_applied"
      BY <1>0, <1>2, <2>1, ClaimEffect
    <2>3. log' = log /\ misled' = misled
      BY <1>2 DEF Claim, gitVars
    <2> QED BY <2>2, <2>3 DEF LogInv, CommitIsNeverForgotten
  <1>3. CASE LeaderStep(d) /\ Commit(d)
    <2>1. on[d] \notin Known
      BY <1>3 DEF LogInv, KnownIsFinal, Commit, InSlot
    <2> QED BY <1>0, <1>3, <2>1 DEF Known, Commit, CommitIndex, Goto
  <1>4. CASE LeaderStep(d) /\ ~Claim(d) /\ ~Commit(d)
    <2>1. pc[d] \in InSlot /\ on'[d] = on[d]
      BY <1>0, <1>4, LeaderStepFrame
    <2>2. log' = log /\ misled' = misled
      BY <1>4 DEF LeaderStep, Gate, Lock, Preflight, Check, Apply, Stage,
         Reverse, Mark, Final, gitVars
    <2>3. pc[d] = "final"
      BY <2>1, <2>2 DEF LogInv, KnownIsFinal, Known
    <2>4. Final(d)
      BY <1>4, <2>3 DEF LeaderStep, Gate, Claim, Lock, Preflight, Check, Apply,
         Stage, Commit, Reverse, Mark
    <2> QED BY <1>0, <2>4 DEF Final, Return, Goto, InSlot
  <1> QED BY <1>0, <1>1, <1>2, <1>3, <1>4, LeaderMoves DEF InSlot

\* A commit's review is applying and owned by the call that made it; later
\* steps leave it applying or applied.
LEMMA LogInvStep == SlotInv /\ LogInv /\ [Next]_vars => LogInv'
  <1> SUFFICES ASSUME SlotInv, LogInv, [Next]_vars PROVE LogInv'
    OBVIOUS
  <1>1. ASSUME NEW r \in log', r \notin misled'
        PROVE  row'[r].apply \in {"applying", "applied"}
    <2>1. CASE r \in log
      BY <1>1, <2>1, KnownRowStep
    <2>2. CASE r \notin log
      <3>1. PICK c \in LeaderCalls : Commit(c) /\ r = on[c]
        BY <2>2, LogStep DEF SlotInv
      <3>2. row' = row /\ pc[c] \in InSlot
        BY <3>1 DEF Commit, InSlot
      <3> QED BY <3>1, <3>2 DEF SlotInv, SlotOwnerKeepsSlot, OwnsSlot
    <2> QED BY <2>1, <2>2
  <1>2. CommitIsNeverForgotten'
    BY <1>1 DEF CommitIsNeverForgotten
  <1> QED
    BY <1>2, LandedStep, FinalIsLoggedStep, KnownIsFinalStep DEF LogInv

LEMMA LogInvHolds == Spec => []LogInv
  <1>1. Init => LogInv
    BY DEF Init, NoRow, LogInv, CommitIsNeverForgotten, LandedIsInGit,
       FinalIsLogged, KnownIsFinal, Known, Calls
  <1> QED BY <1>1, LogInvStep, SlotInvHolds, PTL DEF Spec

\* The database never denies a leader commit, for any number of reviews,
\* calls, crashes and restarts and whoever holds the file lock, unless git
\* denied the commit to the code that asked.
THEOREM CommitRemembered == Spec => []CommitIsNeverForgotten
  <1>1. LogInv => CommitIsNeverForgotten
    BY DEF LogInv
  <1> QED BY <1>1, LogInvHolds, PTL

\* And it never claims one: a row the leader applied has its commit in git,
\* whoever wrote the row, the call or the reconciler.
THEOREM LandedInGit == Spec => []LandedIsInGit
  <1>1. LogInv => LandedIsInGit
    BY DEF LogInv
  <1> QED BY <1>1, LogInvHolds, PTL
=============================================================================
