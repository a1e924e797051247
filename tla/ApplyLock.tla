------------------------------ MODULE ApplyLock ------------------------------
(***************************************************************************)
(* The advisory file lock that is to serialise patch applies on one        *)
(* workspace (services/safe-apply/apply-lock-service.ts).                  *)
(*                                                                         *)
(* acquireApplyLock is a coroutine of file-system calls.  Every await is a *)
(* point where another attempt of the same API process, or the death of    *)
(* the process, may come in between, and every call may fail.  One action  *)
(* here is one such call.  An attempt is one call of acquireApplyLock with *)
(* its own ownerToken, so an attempt's identity stands for its token, and  *)
(* for the inode it opens.                                                 *)
(***************************************************************************)
EXTENDS Naturals

CONSTANTS Attempts,  \* calls of acquireApplyLock
          Ttl,       \* ttlMs, in ticks of the clock
          MaxClock,  \* bound on the clock
          MaxBoots   \* bound on the restarts of the API process

ASSUME BoundsAssumption == /\ Ttl \in Nat
                           /\ MaxClock \in Nat
                           /\ MaxBoots \in Nat

VARIABLES stage,      \* where each attempt stands
          startedAt,  \* the `now` an attempt captures before its first call
          bootOf,     \* the API process (pid) an attempt runs in
          file,       \* the directory entry at lockPath
          clock,      \* wall-clock time
          boot,       \* the API process that is alive
          seen,       \* the entry that made an attempt go on to unlink
          rival,      \* history: attempts that were active alongside
          mishap,     \* history: what went wrong in an attempt's own calls
          ousted      \* history: why an active attempt's entry was removed

ghosts   == <<rival, mishap, ousted>>
lockVars == <<stage, startedAt, bootOf, file, clock, boot, seen, ghosts>>

------------------------------------------------------------------------------
NoFile == [owner |-> {}, written |-> FALSE]

\* An entry names the inode of the attempt that opened it; until writeFile
\* returns the inode is empty, and an empty file parses as no lock at all.
LockFile == [owner : {{a} : a \in Attempts}, written : BOOLEAN] \cup {NoFile}

Acquiring == {"create", "read", "unlink", "create2", "write", "close"}
Holding   == {"held", "relread", "relunlink"}
Over      == {"failed", "done", "dead"}
Active(a) == stage[a] \in Acquiring \cup Holding

EntryOf(a)  == [owner |-> {a}, written |-> FALSE]
Unusable(f) == [owner |-> f.owner, written |-> FALSE]
Expired(a, f) == \A o \in f.owner : startedAt[a] > startedAt[o] + Ttl

\* Mutants: nobody looks whether the owner's process lives; the age is off by
\* one.
AlwaysAlive(f) == TRUE
FreshBefore(f, a) ==
  f.written /\ \A o \in f.owner : startedAt[a] < startedAt[o] + Ttl

isProcessAlive(f) == \A o \in f.owner : bootOf[o] = boot

\* The entry parses and is no older than the TTL when measured from a's own
\* `now`.
Fresh(f, a) == f.written /\ ~Expired(a, f)

\* Why an active owner may find its entry gone: whoever removed it had read
\* nothing usable in it, or had found it older than the TTL, or had read
\* another entry than the one its unlink met, or was releasing its own lock.
\* "seized" is none of these: a complete entry of a live process, within the
\* TTL, read as such and still the same.
Windows == {"unreadable", "expired", "changed", "release"}

LockTypeOK ==
  /\ stage \in [Attempts -> {"idle", "busy"} \cup Acquiring \cup Holding \cup Over]
  /\ startedAt \in [Attempts -> Nat]
  /\ bootOf \in [Attempts -> Nat]
  /\ file \in LockFile
  /\ clock \in Nat
  /\ boot \in Nat
  /\ seen \in [Attempts -> LockFile]
  /\ rival \in [Attempts -> SUBSET Attempts]
  /\ mishap \in [Attempts -> SUBSET {"io", "pid"}]
  /\ ousted \in [Attempts -> SUBSET (Windows \cup {"seized"})]

LockInit ==
  /\ stage = [a \in Attempts |-> "idle"]
  /\ startedAt = [a \in Attempts |-> 0]
  /\ bootOf = [a \in Attempts |-> 0]
  /\ file = NoFile
  /\ clock = 0
  /\ boot = 0
  /\ seen = [a \in Attempts |-> NoFile]
  /\ rival = [a \in Attempts |-> {}]
  /\ mishap = [a \in Attempts |-> {}]
  /\ ousted = [a \in Attempts |-> {}]

------------------------------------------------------------------------------
\* a goes from one stage to another; what went wrong on the way is noted.
Moves(a, from, to, wrong) ==
  /\ stage[a] = from
  /\ stage' = [stage EXCEPT ![a] = to]
  /\ mishap' = [mishap EXCEPT ![a] = @ \cup wrong]
  /\ UNCHANGED <<startedAt, bootOf, clock, boot, rival>>

KeepsFile == UNCHANGED <<file, ousted>>

\* unlink(lockPath): by path, whatever entry is there by now.
Removes(why) ==
  /\ file' = NoFile
  /\ ousted' = [o \in Attempts |-> IF o \in file.owner /\ Active(o)
                                   THEN ousted[o] \cup {why} ELSE ousted[o]]

\* acquireApplyLock up to its first await.
Start(a) ==
  /\ stage[a] = "idle"
  /\ stage' = [stage EXCEPT ![a] = "create"]
  /\ startedAt' = [startedAt EXCEPT ![a] = clock]
  /\ bootOf' = [bootOf EXCEPT ![a] = boot]
  /\ rival' = [b \in Attempts |->
                 IF b = a THEN {c \in Attempts \ {a} : Active(c)}
                 ELSE IF Active(b) THEN rival[b] \cup {a} ELSE rival[b]]
  /\ UNCHANGED <<file, clock, boot, seen, mishap, ousted>>

\* open(lockPath, "wx"): creates an empty file, reports EEXIST, or fails for
\* another reason (mkdir before the first open may fail too), which
\* acquireApplyLock throws.
Opens(a, from, onExists) ==
  /\ \/ /\ file = NoFile
        /\ file' = EntryOf(a)
        /\ UNCHANGED ousted
        /\ Moves(a, from, "write", {})
     \/ file # NoFile /\ KeepsFile /\ Moves(a, from, onExists, {})
     \/ KeepsFile /\ Moves(a, from, "failed", {"io"})
  /\ UNCHANGED seen

Create(a)  == Opens(a, "create", "read")
Create2(a) == Opens(a, "create2", "busy")

\* handle.writeFile goes to the inode a opened, wherever it now is; the
\* entry at lockPath changes only if it still names that inode.  When it
\* rejects, acquireApplyLock throws and an unreadable file stays behind.
Write(a) ==
  /\ \/ /\ Moves(a, "write", "close", {})
        /\ file' = IF file.owner = {a} THEN [owner |-> {a}, written |-> TRUE]
                   ELSE file
     \/ Moves(a, "write", "failed", {"io"}) /\ UNCHANGED file
  /\ UNCHANGED <<seen, ousted>>

\* handle.close: when it rejects, acquireApplyLock throws although the lock
\* file is complete.
Close(a) ==
  /\ \/ Moves(a, "close", "held", {})
     \/ Moves(a, "close", "failed", {"io"})
  /\ KeepsFile /\ UNCHANGED seen

\* readExistingLock and the decision on what it returned.  The pid of a dead
\* process may by now be another's, and a read that fails returns null, as an
\* unparsable file does.
Read(a) ==
  /\ \/ /\ Fresh(file, a) /\ isProcessAlive(file)
        /\ Moves(a, "read", "busy", {})
        /\ UNCHANGED seen
     \/ /\ Fresh(file, a) /\ ~isProcessAlive(file)
        /\ Moves(a, "read", "busy", {"pid"})
        /\ UNCHANGED seen
     \/ /\ ~(Fresh(file, a) /\ isProcessAlive(file))
        /\ Moves(a, "read", "unlink", {})
        /\ seen' = [seen EXCEPT ![a] = file]
     \/ /\ Moves(a, "read", "unlink", {"io"})
        /\ seen' = [seen EXCEPT ![a] = Unusable(file)]
  /\ KeepsFile

\* What speaks for removing the entry that is there now, given the entry a
\* has read.
Grounds(a) == IF file.owner # seen[a].owner THEN "changed"
              ELSE IF ~seen[a].written THEN "unreadable"
              ELSE IF Expired(a, file) THEN "expired"
              ELSE "seized"

\* unlink of the old entry; an error is swallowed.
Unlink(a) ==
  /\ \/ Moves(a, "unlink", "create2", {}) /\ Removes(Grounds(a))
     \/ Moves(a, "unlink", "create2", {"io"}) /\ KeepsFile
  /\ seen' = [seen EXCEPT ![a] = NoFile]

BeginRelease(a) ==
  Moves(a, "held", "relread", {}) /\ KeepsFile /\ UNCHANGED seen

\* Mutant: the token is never found to be ours.
RelReadNever(a) ==
  Moves(a, "relread", "done", {}) /\ KeepsFile /\ UNCHANGED seen

\* release(): the token in the file is compared with a's own ...
RelRead(a) ==
  /\ LET mine == file.written /\ file.owner = {a}
     IN  \/ mine /\ Moves(a, "relread", "relunlink", {})
         \/ ~mine /\ Moves(a, "relread", "done", {})
         \/ Moves(a, "relread", "done", {"io"})
  /\ KeepsFile /\ UNCHANGED seen

\* ... and the path is unlinked; an error is swallowed.
RelUnlink(a) ==
  /\ \/ Moves(a, "relunlink", "done", {}) /\ Removes("release")
     \/ Moves(a, "relunlink", "done", {"io"}) /\ KeepsFile
  /\ UNCHANGED seen

\* The API process dies with every attempt in it and is started again; the
\* file stays on disk.
Restart ==
  /\ boot < MaxBoots
  /\ boot' = boot + 1
  /\ stage' = [a \in Attempts |-> IF Active(a) THEN "dead" ELSE stage[a]]
  /\ seen' = [a \in Attempts |-> NoFile]
  /\ UNCHANGED <<startedAt, bootOf, file, clock, ghosts>>

Tick ==
  /\ clock < MaxClock
  /\ clock' = clock + 1
  /\ UNCHANGED <<stage, startedAt, bootOf, file, boot, seen, ghosts>>

Step(a) == \/ Start(a) \/ Create(a) \/ Read(a) \/ Unlink(a) \/ Create2(a)
           \/ Write(a) \/ Close(a)
           \/ BeginRelease(a) \/ RelRead(a) \/ RelUnlink(a)

LockNext == (\E a \in Attempts : Step(a)) \/ Restart \/ Tick

LockSpec == LockInit /\ [][LockNext]_lockVars

------------------------------------------------------------------------------
\* Applies on a workspace never overlap: "serializes active apply attempts
\* per workspace" (apply-lock-service.test.ts:33), even when no call fails and
\* the TTL of neither has passed.
MutualExclusion ==
  \A a, b \in Attempts :
    /\ stage[a] \in Holding
    /\ stage[b] \in Holding
    /\ startedAt[a] <= startedAt[b] + Ttl
    /\ startedAt[b] <= startedAt[a] + Ttl
    /\ mishap = [o \in Attempts |-> {}]
    => a = b

\* Whenever two attempts hold the lock together, the entry of one of them was
\* removed through one of the four windows the code leaves open: it was read
\* while empty or the read failed; it was older than the TTL; another entry
\* had been read than the one unlinked; or a release unlinked the path after
\* its entry had been replaced.  A complete lock of a live process, within
\* its TTL and still the one that was read, is never taken from its holder.
OverlapOnlyThroughWindows ==
  \A a, b \in Attempts :
    /\ a # b
    /\ stage[a] \in Holding
    /\ stage[b] \in Holding
    => \E h \in {a, b} : ousted[h] # {} /\ ousted[h] \subseteq Windows

\* A complete lock file of the live process always has an attempt behind it
\* that will still release it, whatever takeovers and releases interleaved,
\* unless a call of the attempt that wrote it failed: its close, or the read
\* or the unlink of its release.
NoLeakedLock ==
  \A a \in Attempts :
    /\ file.written
    /\ file.owner = {a}
    /\ bootOf[a] = boot
    => stage[a] \in Holding \cup {"close"} \/ "io" \in mishap[a]

\* ApplyLockBusyError has a cause: another attempt was under way at some time
\* during the refused one; or a call of the refused one failed; or there is a
\* lock left within the last TTL by an attempt whose own calls failed, or by
\* a dead process whose pid another process has by now.  The file of a dead
\* process, an empty file and anything older than the TTL refuse no apply.
Excused(a) ==
  \/ rival[a] # {}
  \/ "io" \in mishap[a]
  \/ \E o \in Attempts :
       /\ stage[o] \in Over
       /\ startedAt[a] <= startedAt[o] + Ttl
       /\ \/ bootOf[o] = bootOf[a] /\ "io" \in mishap[o]
          \/ bootOf[o] # bootOf[a] /\ "pid" \in mishap[a]

RefusedOnlyByRival == \A a \in Attempts : stage[a] = "busy" => Excused(a)
==============================================================================
