-------------------- MODULE LargeCircularSessionsStorage --------------------
(***************************************************************************)
(* class LargeCircularSessionsStorage and its Writer and Reader            *)
(* (misc/src/LargeCircularSessionsStorage.cpp), in the LINIAR build: one   *)
(* writer appends the blocks of numbered sessions to a block device used   *)
(* as a ring; after a restart the end of the ring is found again by a      *)
(* binary search over the block identifiers; readers open sessions, walk   *)
(* from one to the next and wait for blocks that are not written yet.      *)
(*                                                                         *)
(* A step is one access to the device or one section under the scheduler's *)
(* lock.  The wait is OSCondition's (module OSCondition), seen from        *)
(* outside: the check and the registration of the wait are one step, a     *)
(* notification ends it.  The power may fail between any two steps.        *)
(*                                                                         *)
(* The device is one that answers every access, so the error returns of    *)
(* readStorageBlock and writeStorageBlock are not taken; a session block   *)
(* is written as a whole.  The payload of the blocks is left out.          *)
(***************************************************************************)
EXTENDS Integers, Sequences, FiniteSets, FiniteSetsExt

CONSTANTS
  StorageSize,    \* getStorageSizeSessionBlocks()
  IdMod,          \* block identifiers are modulo this (2^32 in the code)
  NumMod,         \* so are block numbers and lengths
  SessionWriter,  \* the writing thread
  Readers,        \* the reading threads
  Logs,           \* what may have been written before the first start
  Asked,          \* the session identifiers given to createSession()
  Wanted,         \* the session identifiers given to openSession()
  BlocksAsked,    \* the block numbers given to readSessionBlock()
  MaxSid,         \* the largest session identifier
  MaxNew,         \* bound: blocks written after the first start
  MaxRestarts,    \* bound: power failures
  EmptySessions   \* whether a session may be left without a block

ASSUME StorageAssumption ==
  /\ StorageSize \in Nat /\ StorageSize >= 2
  /\ IdMod \in Nat /\ IdMod >= 2 * StorageSize
  /\ NumMod \in Nat /\ NumMod > StorageSize
  /\ SessionWriter \notin Readers
  /\ EmptySessions \in BOOLEAN

\* The arguments are unsigned.  What was written before the first start is
\* what the writer writes: session after session, none of them in more than
\* all blocks of the ring but one.
ASSUME RequestsAssumption ==
  /\ Asked \subseteq Nat /\ Wanted \subseteq Nat /\ BlocksAsked \subseteq Nat
  /\ MaxSid \in Nat
ASSUME LogsAssumption ==
  \A l \in Logs :
    /\ l \in Seq(Nat)
    /\ \A i, j \in 1..Len(l) : i < j =>
          l[i] <= l[j] /\ (l[i] = l[j] => j - i < StorageSize - 1)

NEXT == 0                    \* NEXT_SESSSION_UNIQUE_ID
OLDEST == 0                  \* OLDEST_SESSSION_UNIQUE_ID
NEWEST == MaxSid             \* NEWEST_SESSSION_UNIQUE_ID, all ones
INVALID == NumMod - 1        \* Header::INVALID_BLOCKNUMBER, all ones

VARIABLES
  disk,         \* the headers of the session blocks
  recent,       \* m_mostRecentlyWrittenSession
  recentBlock,  \* m_mostRecentlyWrittenSessionBlock
  ws,           \* the Writer's m_currentSession
  wb,           \* the Writer's m_currentBlock
  rs,           \* per reader: its m_currentSession
  req,          \* per thread: the arguments of the call in progress
  scan,         \* per thread: the locals of searchMostRecentlyWrittenBlock
  at,           \* per thread: where it is
  log,          \* auxiliary: the session of every block ever written, in order
  start,        \* auxiliary: the length of the log at the first start
  restarts      \* power failures so far

storageVars == <<disk, recent, recentBlock, ws, wb, rs, req, scan, at, log, start,
                restarts>>

Searchers == Readers \cup {SessionWriter}
Numbers == 0..StorageSize - 1

Blank == [magic |-> FALSE, sid |-> 0, first |-> 0, bid |-> 0, next |-> INVALID]
\* A new session; the constructor leaves last unset, and nobody reads it then.
NoSession == [id |-> 0, first |-> INVALID, last |-> INVALID, len |-> 0,
              next |-> INVALID, done |-> FALSE]
NoRequest == [no |-> 0, block |-> FALSE]
NoScan == [l |-> 0, r |-> 0, left |-> Blank, right |-> Blank, next |-> INVALID]

\* Session::isValid and isForwardReferenceValid.
IsValid(s) == s.first # INVALID
ForwardValid(s) == s.next # INVALID

-----------------------------------------------------------------------------
(***************************************************************************)
(* Block numbers on the ring                                               *)
(***************************************************************************)

\* computeCircularSessionBlockNumber
CircularNumber(n, adjustment) ==
  IF adjustment > 0 THEN ((n + adjustment) % NumMod) % StorageSize
  ELSE IF n >= -adjustment THEN n + adjustment
  ELSE n + StorageSize + adjustment

\* computeCircularSessionLength, in unsigned arithmetic.
CircularLength(last, first) ==
  IF last >= first THEN (last - first + 1) % NumMod
  ELSE (last + StorageSize - first + 1) % NumMod

-----------------------------------------------------------------------------
(***************************************************************************)
(* What the device holds after a log                                       *)
(***************************************************************************)

\* The place and the identifier of the i-th block ever written.
PlaceOf(i) == (i - 1) % StorageSize
IdOf(i) == i % IdMod

BlocksOf(sid) == {i \in 1..Len(log) : log[i] = sid}

\* The block of the log that lies at place p: the last one written there.
Holds(l, p, i) ==
  /\ i \in 1..Len(l) /\ PlaceOf(i) = p
  /\ i + StorageSize > Len(l)

\* A device on which l was written, every session closed but the last.
DiskAfter(l) ==
  [p \in Numbers |->
     IF \E i \in 1..Len(l) : Holds(l, p, i)
     THEN LET i == CHOOSE j \in 1..Len(l) : Holds(l, p, j)
              same == {j \in 1..Len(l) : l[j] = l[i]}
          IN [magic |-> TRUE, sid |-> l[i], first |-> PlaceOf(Min(same)), bid |-> IdOf(i),
              next |-> IF i = Min(same) /\ l[i] # l[Len(l)] THEN PlaceOf(Max(same) + 1)
                       ELSE INVALID]
     ELSE Blank]

RamAtStart ==
  /\ recent = NoSession
  /\ recentBlock = [no |-> 0, id |-> 0]
  /\ ws = NoSession
  /\ wb = [no |-> 0, id |-> 0]
  /\ rs = [r \in Readers |-> NoSession]
  /\ req = [t \in Searchers |-> NoRequest]
  /\ scan = [t \in Searchers |-> NoScan]
  /\ at = [t \in Searchers |-> IF t = SessionWriter THEN "closed" ELSE "idle"]

StorageInit ==
  /\ log \in Logs /\ start = Len(log)
  /\ disk = DiskAfter(log)
  /\ restarts = 0
  /\ RamAtStart

Go(t, l) == at' = [at EXCEPT ![t] = l]

\* The locals of a call end with it.
EndLocals(t) ==
  /\ req' = [req EXCEPT ![t] = NoRequest]
  /\ scan' = [scan EXCEPT ![t] = NoScan]

\* A step of a reader that leaves its locals alone, or returns.
Goto(r, l) ==
  /\ Go(r, l)
  /\ IF l = "idle" THEN EndLocals(r) ELSE UNCHANGED <<req, scan>>

-----------------------------------------------------------------------------
(***************************************************************************)
(* searchMostRecentlyWrittenBlock, one step per block read.  Its result is *)
(* in scan[t]: the block l with the header left, and the forward reference *)
(* next of its session.                                                    *)
(***************************************************************************)

ScanUnchanged == UNCHANGED <<disk, recent, recentBlock, ws, wb, rs, req, log, start,
                            restarts>>

\* A storage whose first block has no magic is empty: OS_NOT_FOUND.
ScanFirst(t) ==
  /\ at[t] = "scan"
  /\ \/ /\ disk[0].magic
        /\ scan' = [scan EXCEPT ![t] = [NoScan EXCEPT !.r = StorageSize - 1, !.left = disk[0]]]
        /\ Go(t, "scanLast")
     \/ /\ ~disk[0].magic
        /\ Go(t, IF t = SessionWriter THEN "notFound" ELSE "syncOpen")
        /\ UNCHANGED scan
  /\ ScanUnchanged

\* With the last block written and the identifiers broken at the border, the
\* last block is the result.
ScanLast(t) ==
  /\ at[t] = "scanLast"
  /\ LET right == disk[StorageSize - 1]
         border == right.magic /\ (right.bid + 1) % IdMod # scan[t].left.bid
     IN /\ scan' = [scan EXCEPT ![t].right = right,
                                ![t].l = IF border THEN StorageSize - 1 ELSE @,
                                ![t].left = IF border THEN right ELSE @]
        /\ Go(t, IF border THEN "forward" ELSE "halve")
  /\ ScanUnchanged

\* Variant: identifiers compared as signed numbers.
InLeftHalf_Signed(left, middle, right) ==
  IF right.magic THEN middle.bid < left.bid ELSE ~middle.magic

\* The break of the identifiers, or with an unwritten end the end of the
\* written blocks, is in the left half.
InLeftHalf(left, middle, right) ==
  IF right.magic
  THEN (middle.bid - left.bid) % IdMod > (right.bid - middle.bid) % IdMod
  ELSE ~middle.magic

ScanHalve(t) ==
  /\ at[t] = "halve"
  /\ LET s == scan[t]
         m == (s.l + s.r) \div 2
     IN \/ /\ s.l + 1 = s.r
           /\ Go(t, "forward")
           /\ UNCHANGED scan
        \/ /\ s.l + 1 # s.r
           /\ scan' = [scan EXCEPT ![t] =
                         IF InLeftHalf(s.left, disk[m], s.right)
                         THEN [s EXCEPT !.r = m, !.right = disk[m]]
                         ELSE [s EXCEPT !.l = m, !.left = disk[m]]]
           /\ UNCHANGED at
  /\ ScanUnchanged

\* The forward reference is in the first block of the session.
ScanForward(t) ==
  /\ at[t] = "forward"
  /\ scan' = [scan EXCEPT ![t].next = disk[scan[t].left.first].next]
  /\ Go(t, "found")
  /\ ScanUnchanged

\* The session that the search has found; its length is computed with the
\* first and the last block the wrong way round.
FoundSession(s) ==
  [id |-> s.left.sid, first |-> s.left.first, last |-> s.l,
   len |-> CircularLength(s.left.first, s.l),
   next |-> s.next, done |-> s.next # INVALID]

Scan(t) == ScanFirst(t) \/ ScanLast(t) \/ ScanHalve(t) \/ ScanForward(t)

-----------------------------------------------------------------------------
(***************************************************************************)
(* The writer                                                              *)
(***************************************************************************)

\* notifyReaders: every reader that waits looks at its condition again.
NotifyReaders(then) ==
  at' = [t \in Searchers |->
           IF t = SessionWriter THEN then
           ELSE CASE at[t] = "waitOpen" -> "prepareOpen"
                  [] at[t] = "waitRead" -> "prepareRead"
                  [] OTHER -> at[t]]

\* The blocks of the session being written.
HasBlocks == ws.last # INVALID

\* createSession: with a session in the cache, start behind it, else search.
Create(sid) ==
  /\ \/ at[SessionWriter] = "closed"
     \/ at[SessionWriter] = "open" /\ (HasBlocks \/ EmptySessions)
  /\ Len(log) < start + MaxNew
  /\ req' = [req EXCEPT ![SessionWriter].no = sid]
  /\ Go(SessionWriter, IF IsValid(recent) THEN "copy" ELSE "scan")
  /\ UNCHANGED <<disk, recent, recentBlock, ws, wb, rs, scan, log, start, restarts>>

\* The identifier asked for must be above the last one; NEXT is one above.
Monotone(last) == req[SessionWriter].no = NEXT \/ req[SessionWriter].no > last
NewId(last) == IF req[SessionWriter].no # NEXT THEN req[SessionWriter].no ELSE last + 1
NewSession(id, first) == [NoSession EXCEPT !.id = id, !.first = first]

NextBlock(b) == [no |-> CircularNumber(b.no, 1), id |-> (b.id + 1) % IdMod]

\* No session in the storage: begin at its beginning.
CreateFirst ==
  /\ at[SessionWriter] = "notFound"
  /\ wb' = [no |-> 0, id |-> 1]
  /\ ws' = NewSession(NewId(0), 0)
  /\ Go(SessionWriter, "publish")
  /\ EndLocals(SessionWriter)
  /\ UNCHANGED <<disk, recent, recentBlock, rs, log, start, restarts>>

\* The forward reference that a power failure left open is set.
SetForward(d, first, next) == [d EXCEPT ![first].next = next]

CreateAfterSearch ==
  /\ at[SessionWriter] = "found"
  /\ LET s == FoundSession(scan[SessionWriter])
         b == NextBlock([no |-> scan[SessionWriter].l, id |-> scan[SessionWriter].left.bid])
     IN /\ wb' = b
        /\ disk' = IF ForwardValid(s) THEN disk ELSE SetForward(disk, s.first, b.no)
        /\ ws' = IF Monotone(s.id) THEN NewSession(NewId(s.id), b.no) ELSE ws
        /\ Go(SessionWriter, IF Monotone(s.id) THEN "publish" ELSE "closed")
  /\ EndLocals(SessionWriter)
  /\ UNCHANGED <<recent, recentBlock, rs, log, start, restarts>>

\* Variant: the block that the cache names is used again.
CreateAfterCached_SameBlock ==
  /\ at[SessionWriter] = "copy"
  /\ LET b == recentBlock
     IN /\ wb' = b
        /\ ws' = IF Monotone(recent.id) THEN NewSession(NewId(recent.id), b.no) ELSE recent
        /\ Go(SessionWriter, IF Monotone(recent.id) THEN "publish" ELSE "closed")
  /\ EndLocals(SessionWriter)
  /\ UNCHANGED <<disk, recent, recentBlock, rs, log, start, restarts>>

\* Behind the session in the cache.
CreateAfterCached ==
  /\ at[SessionWriter] = "copy"
  /\ LET b == NextBlock(recentBlock)
     IN /\ wb' = b
        /\ ws' = IF Monotone(recent.id) THEN NewSession(NewId(recent.id), b.no) ELSE recent
        /\ Go(SessionWriter, IF Monotone(recent.id) THEN "publish" ELSE "closed")
  /\ EndLocals(SessionWriter)
  /\ UNCHANGED <<disk, recent, recentBlock, rs, log, start, restarts>>

Publish ==
  /\ at[SessionWriter] = "publish"
  /\ recent' = ws /\ recentBlock' = wb
  /\ Go(SessionWriter, "notify")
  /\ UNCHANGED <<disk, ws, wb, rs, req, scan, log, start, restarts>>

NotifyWaiting ==
  /\ at[SessionWriter] \in {"notify", "notifyClosed"}
  /\ NotifyReaders(IF at[SessionWriter] = "notify" THEN "open" ELSE "closed")
  /\ UNCHANGED <<disk, recent, recentBlock, ws, wb, rs, req, scan, log, start, restarts>>

\* A session takes all blocks of the ring but one: else OS_SIZE_EXCEEDED.
Full == wb.no = CircularNumber(ws.first, -1)

\* writeSessionBlock: the header is completed and the block written ...
WriteBlock ==
  /\ at[SessionWriter] = "open" /\ ~Full
  /\ Len(log) < start + MaxNew
  /\ disk' = [disk EXCEPT ![wb.no] = [magic |-> TRUE, sid |-> ws.id, first |-> ws.first,
                                      bid |-> wb.id, next |-> INVALID]]
  /\ log' = Append(log, ws.id)
  /\ Go(SessionWriter, "written")
  /\ UNCHANGED <<recent, recentBlock, ws, wb, rs, req, scan, start, restarts>>

\* Variant: the readers are notified before the cache says so.
Record_AfterNotify ==
  /\ at[SessionWriter] = "written"
  /\ ws' = [ws EXCEPT !.last = wb.no, !.len = CircularLength(wb.no, ws.first)]
  /\ recent' = [recent EXCEPT !.last = wb.no, !.len = CircularLength(wb.no, ws.first)]
  /\ recentBlock' = wb
  /\ wb' = NextBlock(wb)
  /\ Go(SessionWriter, "open")
  /\ UNCHANGED <<disk, rs, req, scan, log, start, restarts>>

\* ... then the cache extended by it; notifyReaders follows.
Record ==
  /\ at[SessionWriter] = "written"
  /\ ws' = [ws EXCEPT !.last = wb.no, !.len = CircularLength(wb.no, ws.first)]
  /\ recent' = [recent EXCEPT !.last = wb.no, !.len = CircularLength(wb.no, ws.first)]
  /\ recentBlock' = wb
  /\ wb' = NextBlock(wb)
  /\ Go(SessionWriter, "notify")
  /\ UNCHANGED <<disk, rs, req, scan, log, start, restarts>>

\* Variant: the reference goes to the last block of the session.
CloseSession_LastBlock ==
  /\ at[SessionWriter] = "open" /\ (HasBlocks \/ EmptySessions)
  /\ disk' = SetForward(disk, ws.first, ws.last)
  /\ Go(SessionWriter, "closing")
  /\ UNCHANGED <<recent, recentBlock, ws, wb, rs, req, scan, log, start, restarts>>

\* closeSession: the first block of the session gets its forward reference ...
CloseSession ==
  /\ at[SessionWriter] = "open" /\ (HasBlocks \/ EmptySessions)
  /\ disk' = SetForward(disk, ws.first, wb.no)
  /\ Go(SessionWriter, "closing")
  /\ UNCHANGED <<recent, recentBlock, ws, wb, rs, req, scan, log, start, restarts>>

\* ... and so does the cache, whose m_isCompletelyWritten stays as it is.
Closed ==
  /\ at[SessionWriter] = "closing"
  /\ LET n == CircularLength(ws.last, ws.first)
     IN /\ ws' = [ws EXCEPT !.next = wb.no, !.len = n, !.done = TRUE]
        /\ recent' = [recent EXCEPT !.next = wb.no, !.len = n]
  /\ Go(SessionWriter, "notifyClosed")
  /\ UNCHANGED <<disk, recentBlock, wb, rs, req, scan, log, start, restarts>>

SessionWriterStep ==
  \/ \E sid \in Asked : Create(sid)
  \/ CreateFirst \/ CreateAfterSearch \/ CreateAfterCached \/ Publish \/ NotifyWaiting
  \/ WriteBlock \/ Record \/ CloseSession \/ Closed
-----------------------------------------------------------------------------
(***************************************************************************)
(* The readers.  A call that returns goes to "idle", with whatever result. *)
(***************************************************************************)

ReaderUnchanged == UNCHANGED <<disk, ws, wb, log, start, restarts>>

Ask(r, no, block, then) ==
  /\ at[r] = "idle"
  /\ req' = [req EXCEPT ![r] = [no |-> no, block |-> block]]
  /\ Go(r, then)

\* openSession(sid, doNotBlock)
OpenSession(r) ==
  /\ \E sid \in Wanted, block \in BOOLEAN : Ask(r, sid, block, "prepareOpen")
  /\ ReaderUnchanged /\ UNCHANGED <<recent, recentBlock, rs, scan>>

\* OpenCondition::prepareCheckCondition: with nothing in the cache search the
\* device; a session beyond the last one ends the call.
PrepareOpen(r) ==
  /\ at[r] = "prepareOpen"
  /\ Goto(r, IF ~IsValid(recent) THEN "scan"
            ELSE IF req[r].no # NEWEST /\ req[r].no > recent.id THEN "idle"
            ELSE "openCopy")
  /\ ReaderUnchanged /\ UNCHANGED <<recent, recentBlock, rs>>

\* Variant: the check under the lock is left out.
Install_Unchecked(r) ==
  /\ at[r] = "found"
  /\ recent' = FoundSession(scan[r])
  /\ recentBlock' = [no |-> scan[r].l, id |-> scan[r].left.bid]
  /\ Go(r, "prepareOpen")
  /\ scan' = [scan EXCEPT ![r] = NoScan]
  /\ ReaderUnchanged /\ UNCHANGED <<rs, req>>

\* The result of the search goes to the cache, unless the writer was faster;
\* then the condition is looked at as above.
Install(r) ==
  /\ at[r] = "found"
  /\ recent' = IF IsValid(recent) THEN recent ELSE FoundSession(scan[r])
  /\ recentBlock' = IF IsValid(recent) THEN recentBlock
                     ELSE [no |-> scan[r].l, id |-> scan[r].left.bid]
  /\ Go(r, "prepareOpen")
  /\ scan' = [scan EXCEPT ![r] = NoScan]
  /\ ReaderUnchanged /\ UNCHANGED <<rs, req>>

\* OpenCondition::checkSynchronisedCondition, and the registration.
SyncOpen(r) ==
  /\ at[r] = "syncOpen"
  /\ Goto(r, IF IsValid(recent) /\ req[r].no <= recent.id THEN "openCopy"
            ELSE IF req[r].block THEN "waitOpen" ELSE "idle")
  /\ ReaderUnchanged /\ UNCHANGED <<recent, recentBlock, rs>>

\* The newest session is the one in the cache; others are looked for behind.
OpenCopy(r) ==
  /\ at[r] = "openCopy"
  /\ rs' = [rs EXCEPT ![r] = recent]
  /\ Goto(r, IF req[r].no \in {NEWEST, recent.id} THEN "idle" ELSE "back")
  /\ ReaderUnchanged /\ UNCHANGED <<recent, recentBlock>>

\* openPreviousSession as a call of its own: no session stops it early.
Previous(r) ==
  /\ IsValid(rs[r])
  /\ Ask(r, NEWEST, FALSE, "back")
  /\ ReaderUnchanged /\ UNCHANGED <<recent, recentBlock, rs, scan>>

\* The block before the session: the last one of the session before it ...
Back(r) ==
  /\ at[r] = "back"
  /\ LET p == CircularNumber(rs[r].first, -1)
     IN \/ /\ disk[p].magic
           /\ scan' = [scan EXCEPT ![r] = [NoScan EXCEPT !.l = p, !.left = disk[p]]]
           /\ Go(r, "backFirst")
           /\ UNCHANGED req
        \/ ~disk[p].magic /\ Goto(r, "idle")
  /\ ReaderUnchanged /\ UNCHANGED <<recent, recentBlock, rs>>

Extent(id, first, last, next) ==
  [id |-> id, first |-> first, last |-> last, len |-> CircularLength(last, first),
   next |-> next, done |-> TRUE]

\* Variant: the two blocks are not compared.
BackFirst_AnySession(r) ==
  /\ at[r] = "backFirst"
  /\ LET h == scan[r].left
     IN \/ /\ disk[h.first].magic
           /\ rs' = [rs EXCEPT ![r] = Extent(h.sid, h.first, scan[r].l, rs[r].first)]
           /\ Goto(r, IF req[r].no < h.sid /\ req[r].no # NEWEST THEN "back" ELSE "idle")
        \/ /\ ~disk[h.first].magic
           /\ Goto(r, "idle")
           /\ UNCHANGED rs
  /\ ReaderUnchanged /\ UNCHANGED <<recent, recentBlock>>

\* ... and its first block, which must be of the same session; openSession
\* goes on until it meets the identifier or a lower one.
BackFirst(r) ==
  /\ at[r] = "backFirst"
  /\ LET h == scan[r].left
         same == disk[h.first].magic /\ disk[h.first].sid = h.sid
     IN \/ /\ same
           /\ rs' = [rs EXCEPT ![r] = Extent(h.sid, h.first, scan[r].l, rs[r].first)]
           /\ Goto(r, IF req[r].no < h.sid /\ req[r].no # NEWEST THEN "back" ELSE "idle")
        \/ /\ ~same
           /\ Goto(r, "idle")
           /\ UNCHANGED rs
  /\ ReaderUnchanged /\ UNCHANGED <<recent, recentBlock>>

\* openNextSession: the block behind the session, which must be of a later one.
NextSession(r) ==
  /\ at[r] = "idle" /\ IsValid(rs[r])
  /\ LET p == CircularNumber(rs[r].last, 1)
     IN /\ disk[p].magic /\ disk[p].sid > rs[r].id
        /\ scan' = [scan EXCEPT ![r] = [NoScan EXCEPT !.l = p, !.left = disk[p]]]
        /\ Go(r, "next")
  /\ ReaderUnchanged /\ UNCHANGED <<recent, recentBlock, rs, req>>

\* It has a forward reference, or is the one in the cache, or is unknown.
NextFirst(r) ==
  /\ at[r] = "next"
  /\ LET h == scan[r].left
         p == scan[r].l
         cached == IsValid(recent) /\ recent.id = h.sid
     IN \/ /\ h.next # INVALID
           /\ rs' = [rs EXCEPT ![r] = Extent(h.sid, p, CircularNumber(h.next, -1), h.next)]
           /\ Goto(r, "idle")
        \/ /\ h.next = INVALID /\ cached
           /\ scan' = [scan EXCEPT ![r] = [NoScan EXCEPT !.l = 1]]
           /\ Go(r, "copyNext")
           /\ UNCHANGED <<rs, req>>
        \/ /\ h.next = INVALID /\ ~cached
           /\ rs' = [rs EXCEPT ![r] = NewSession(h.sid, p)]
           /\ Goto(r, "idle")
  /\ ReaderUnchanged /\ UNCHANGED <<recent, recentBlock>>

\* Session::operator=, without the lock: one field after the other.
Fields == <<"id", "first", "last", "len", "next", "done">>
CopyNext(r) ==
  /\ at[r] = "copyNext"
  /\ LET k == scan[r].l
     IN /\ rs' = [rs EXCEPT ![r][Fields[k]] = recent[Fields[k]]]
        /\ IF k = Len(Fields) THEN Goto(r, "idle")
           ELSE scan' = [scan EXCEPT ![r].l = k + 1] /\ UNCHANGED <<at, req>>
  /\ ReaderUnchanged /\ UNCHANGED <<recent, recentBlock>>

\* readSessionBlock(no, doNotBlock); the place is computed before the wait.
ReadBlock(r) ==
  /\ IsValid(rs[r])
  /\ \E no \in BlocksAsked, block \in BOOLEAN :
        /\ Ask(r, no, block, "prepareRead")
        /\ scan' = [scan EXCEPT ![r] = [NoScan EXCEPT !.l = CircularNumber(rs[r].first, no)]]
  /\ ReaderUnchanged /\ UNCHANGED <<recent, recentBlock, rs>>

\* ReadCondition::prepareCheckCondition
PrepareRead(r) ==
  /\ at[r] = "prepareRead"
  /\ Goto(r, IF rs[r].done THEN (IF req[r].no >= rs[r].len THEN "idle" ELSE "fetch")
            ELSE IF recent.id # rs[r].id THEN "idle" ELSE "syncRead")
  /\ ReaderUnchanged /\ UNCHANGED <<recent, recentBlock, rs>>

\* ReadCondition::checkSynchronisedCondition, and the registration.
SyncRead(r) ==
  /\ at[r] = "syncRead"
  /\ \/ /\ recent.id # rs[r].id
        /\ Goto(r, "prepareRead")
        /\ UNCHANGED rs
     \/ /\ recent.id = rs[r].id
        /\ rs' = [rs EXCEPT ![r] = recent]
        /\ Goto(r, IF req[r].no < CircularLength(recent.last, recent.first) THEN "fetch"
                  ELSE IF req[r].block THEN "waitRead" ELSE "idle")
  /\ ReaderUnchanged /\ UNCHANGED <<recent, recentBlock>>

\* The block is read; only its magic decides about the result.
Fetch(r) ==
  /\ at[r] = "fetch"
  /\ Goto(r, "idle")
  /\ ReaderUnchanged /\ UNCHANGED <<recent, recentBlock, rs>>

SessionReaderStep(r) ==
  \/ OpenSession(r) \/ PrepareOpen(r) \/ Install(r) \/ SyncOpen(r) \/ OpenCopy(r)
  \/ Previous(r) \/ Back(r) \/ BackFirst(r)
  \/ NextSession(r) \/ NextFirst(r) \/ CopyNext(r)
  \/ ReadBlock(r) \/ PrepareRead(r) \/ SyncRead(r) \/ Fetch(r)

\* The power fails and comes back: the device stays as it is.
Restart ==
  /\ restarts < MaxRestarts
  /\ restarts' = restarts + 1
  /\ recent' = NoSession /\ recentBlock' = [no |-> 0, id |-> 0]
  /\ ws' = NoSession /\ wb' = [no |-> 0, id |-> 0]
  /\ rs' = [r \in Readers |-> NoSession]
  /\ req' = [t \in Searchers |-> NoRequest]
  /\ scan' = [t \in Searchers |-> NoScan]
  /\ at' = [t \in Searchers |-> IF t = SessionWriter THEN "closed" ELSE "idle"]
  /\ UNCHANGED <<disk, log, start>>

StorageNext ==
  \/ SessionWriterStep
  \/ \E r \in Readers : SessionReaderStep(r)
  \/ \E t \in Searchers : Scan(t)
  \/ Restart

StorageSpec == StorageInit /\ [][StorageNext]_storageVars

-----------------------------------------------------------------------------
(***************************************************************************)
(* Properties                                                              *)
(***************************************************************************)

Places == Numbers \cup {INVALID}
Headers == [magic : BOOLEAN, sid : Nat, first : Numbers, bid : 0..IdMod - 1,
            next : Places]
Sessions == [id : Nat, first : Places, last : Places, len : 0..NumMod - 1,
             next : Places, done : BOOLEAN]
Blocks == [no : Numbers, id : 0..IdMod - 1]

\* The numbers that the code computes stay on the ring, the lengths and the
\* identifiers of blocks within their moduli, a search within the ring and a copy
\* within the fields of a session.
StorageTypeOK ==
  /\ disk \in [Numbers -> Headers]
  /\ {recent, ws} \cup {rs[r] : r \in Readers} \subseteq Sessions
  /\ {recentBlock, wb} \subseteq Blocks
  /\ \A t \in Searchers : scan[t].l \in 0..StorageSize + Len(Fields) /\ scan[t].r \in Numbers

\* At every moment, whatever the restarts, the device holds the tail of all
\* blocks ever written, in order, each with the identifier that follows that
\* of the block before it and with the place of its session's first block:
\* the search and the writer agree about where the ring ends.
DiskIsLogTail ==
  \A p \in Numbers :
    IF disk[p].magic
    THEN \E i \in 1..Len(log) :
           /\ Holds(log, p, i)
           /\ disk[p].sid = log[i] /\ disk[p].bid = IdOf(i)
           /\ disk[p].first = PlaceOf(Min(BlocksOf(log[i])))
    ELSE p >= Len(log)

\* A search for the writer that ends has found the last block written and its
\* session, also with the identifiers gone round.
SearchFindsNewest ==
  at[SessionWriter] = "found" =>
    /\ Len(log) > 0
    /\ scan[SessionWriter].l = PlaceOf(Len(log))
    /\ scan[SessionWriter].left = disk[PlaceOf(Len(log))]
    /\ FoundSession(scan[SessionWriter]).id = log[Len(log)]

\* The reference from the first block of a session that is still on the device
\* is open or goes to the place behind the last block of that session: the
\* way forward over the ring never leaves a block out.
ForwardRefsPoint ==
  \A p \in Numbers :
    LET b == BlocksOf(disk[p].sid)
    IN disk[p].magic /\ disk[p].next # INVALID =>
         disk[p].first = p /\ disk[p].next = PlaceOf(Max(b) + 1)

\* Between two calls of the writer the cache of the last session, if there is
\* one, is what the device says, whoever filled it.
CacheIsFresh ==
  at[SessionWriter] \in {"closed", "open"} /\ IsValid(recent) =>
    LET n == Len(log)
    IN \/ /\ recent.last = INVALID /\ recent.id = ws.id
          /\ recentBlock = [no |-> PlaceOf(n + 1), id |-> IdOf(n + 1)]
       \/ /\ recent.last # INVALID /\ n > 0 /\ recent.id = log[n]
          /\ recentBlock = [no |-> PlaceOf(n), id |-> IdOf(n)]
          /\ recent.last = PlaceOf(n) /\ recent.first = PlaceOf(Min(BlocksOf(log[n])))

\* A reader waits for a block or a session only while it is not there, or the
\* writer is about to notify: no notification falls between the check and the
\* registration.  (A reader that asks for the newest session is not covered:
\* its condition is never met under the lock.)
NoMissedNotification ==
  \A r \in Readers :
    \/ at[SessionWriter] \in {"notify", "notifyClosed"}
    \/ /\ at[r] = "waitRead" =>
            /\ recent.id = rs[r].id
            /\ req[r].no >= CircularLength(recent.last, recent.first)
       /\ at[r] = "waitOpen" /\ req[r].no # NEWEST =>
            ~IsValid(recent) \/ req[r].no > recent.id

\* A session that a reader takes for complete is one that was written, and its
\* first block is on the device at that moment.  If the reader came to it from a
\* later one, or over a forward reference, it is all of it: only a writer that
\* has come round the ring to the reader's place makes a reader see part of a
\* session.  (The one step that may find the first block gone is the last one
\* over a forward reference: it takes the session from a block it read before,
\* and the writer may have come round since.)
OpensReal ==
  \A r \in Readers :
    LET s == rs'[r]
        b == BlocksOf(s.id)
    IN s # rs[r] /\ s.done /\ restarts' = restarts /\ at'[r] # "copyNext" =>
         /\ b # {}
         /\ s.first = PlaceOf(Min(b)) /\ (at[r] # "next" => Holds(log, s.first, Min(b)))
         /\ s.last \in {PlaceOf(i) : i \in b}
         /\ at[r] = "next" \/ (at[r] = "backFirst" /\ s.id < rs[r].id)
              => s.last = PlaceOf(Max(b))

OpenedIsReal == [][OpensReal]_storageVars

\* From a session one comes to an older one.
PreviousIsOlder ==
  [][\A r \in Readers : at[r] = "backFirst" /\ rs'[r] # rs[r] /\ restarts' = restarts
        => rs'[r].id < rs[r].id]_storageVars

=============================================================================
