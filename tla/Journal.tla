------------------------------ MODULE Journal ------------------------------
(***************************************************************************)
(* The settings journal of store/store.go: an append-only log of records   *)
(* in one flash sector, scanned when it is opened.                         *)
(*                                                                         *)
(* The sector is modelled word by word, since the word is what the flash   *)
(* driver writes.  A record is a header of four words (magic, sequence     *)
(* number, length, checksum) and its payload.  Words are numbers: all ones *)
(* is Erased, and every word can be read as a sequence number or a length, *)
(* as the code reads whatever bytes it finds.  Payloads are whole words,   *)
(* which takes pad() out of the picture.                                   *)
(***************************************************************************)
EXTENDS Integers, Sequences, FiniteSets

CONSTANTS
    Size,        \* words in the sector
    MaxRecord,   \* longest payload, in words
    Erased,      \* the erased word (0xffffffff): the top of the number range
    Magic,       \* the word that marks a record
    Uses,        \* what the sector may hold when it is first opened, what
                 \* callers save, and the driver failures: a set of records
    None         \* no saved state (a nil payload)

HeaderLen == 4

AllFaults == {"write", "read", "erase"}

Payloads == UNION {u.payloads : u \in Uses}

ASSUME JournalAssumption ==
    /\ Size \in Nat /\ MaxRecord \in Nat \ {0}
    /\ Size >= HeaderLen + 1
    /\ Erased \in Nat /\ Magic \in 1 .. Erased - 1
    /\ MaxRecord < Magic          \* neither reads as a length that fits
    /\ \A u \in Uses : u.faults \subseteq AllFaults
    /\ \A p \in Payloads : p # <<>> /\ HeaderLen + Len(p) <= Size

VARIABLES
    use,         \* payloads, driver failures, and whether only this journal has
                 \* written the sector
    sector,      \* the flash: a word at each offset
    open,        \* whether there is a Journal
    j,           \* the Journal's fields: next, seq, last, torn, blank
    save,        \* the Save in progress
    stale        \* an erase has cleared words of the sector and reported an
                 \* error, and the Journal still counts on what they held

vars == <<use, sector, open, j, save, stale>>

-----------------------------------------------------------------------------
(* Reading a sector. *)

\* The checksum of a payload: no two payloads in play collide.  An empty body
\* checks as 0, and one erased word as the erased word.
Sum(body) ==
    CASE body = <<>>       -> 0
      [] body = <<Erased>> -> Erased
      [] OTHER -> LET b == 2 * Erased
                      code[i \in 0 .. Len(body)] ==
                          IF i = 0 THEN 1 ELSE code[i-1] * b + body[i]
                  IN  Erased + code[Len(body)]

\* Body and checksum are erased flash, and agree.
ErasedRecord(body, sum) == sum = Erased /\ body = <<Erased>>

\* Mutant: the number of any header is believed.
KeepSeq_Trusting(seq, w, proven) ==
    IF w > seq THEN w ELSE seq

\* How the counter moves when a header carries w.
KeepSeq(seq, w, proven) ==
    CASE w = Erased       -> seq
      [] w <= seq         -> seq
      [] proven           -> w
      [] seq < Erased - 1 -> seq + 1
      [] OTHER            -> seq

MinOf(a, b) == IF a < b THEN a ELSE b

\* Where the next record starts, at or after off; -1 when nothing looks like
\* one.
Resync(buf, off) ==
    LET starts == {o \in off .. Size - HeaderLen : buf[o] = Magic}
    IN  IF starts = {} THEN -1 ELSE CHOOSE o \in starts : \A x \in starts : o <= x

\* After everything from `from' on that is written.
WriteHead(buf, from) ==
    LET written == {i \in from .. Size-1 : buf[i] # Erased}
    IN  IF written = {} THEN from
        ELSE 1 + (CHOOSE i \in written : \A x \in written : x <= i)

\* Mutant: the next record may go inside the header the scan gave up on.
ResumeHead_Inside(buf, off) == MinOf(WriteHead(buf, off), Size)

\* The second half of resume: no record follows the bad header at off, and
\* the next one goes after everything that is written.
ResumeHead(buf, off) == MinOf(WriteHead(buf, off + HeaderLen), Size)

Body(buf, off, n) == [i \in 1 .. n |-> buf[off + HeaderLen + i - 1]]

\* scan: k is the journal as read so far.  A header that proves nothing is
\* stepped over to where records resume.
RECURSIVE Scan(_, _, _)
Scan(buf, off, k) ==
    IF off + HeaderLen > Size
    THEN [k EXCEPT !.next = MinOf(off, Size)]
    ELSE IF buf[off] # Magic
    THEN [k EXCEPT !.next = MinOf(off, Size)]
    ELSE
    LET seq == buf[off + 1]
        n   == buf[off + 2]
        sum == buf[off + 3]
        end == off + HeaderLen + n
        bad == \/ n > MaxRecord
               \/ end > Size
               \/ Sum(Body(buf, off, n)) # sum
               \/ ErasedRecord(Body(buf, off, n), sum)
        kept == [k EXCEPT !.seq = KeepSeq(@, seq, ~bad /\ n > 0)]
        more == Resync(buf, off + HeaderLen)
    IN  CASE bad /\ more >= 0 ->
                Scan(buf, more, [kept EXCEPT !.torn = @ + 1])
          [] bad /\ more < 0 ->
                [kept EXCEPT !.torn = @ + 1, !.next = ResumeHead(buf, off)]
          [] ~bad /\ n = 0 ->
                Scan(buf, end, [kept EXCEPT !.blank = @ + 1])
          [] OTHER ->
                Scan(buf, end, [kept EXCEPT !.last = Body(buf, off, n)])

NewJournal == [next |-> 0, seq |-> 0, last |-> None, torn |-> 0, blank |-> 0]

Opened(buf) == Scan(buf, 0, NewJournal)

-----------------------------------------------------------------------------
(* Writing. *)

Idle == [pc |-> "idle", p |-> None, rec |-> <<>>, at |-> 0, done |-> 0,
         wiped |-> FALSE]

Blank == [i \in 0 .. Size-1 |-> Erased]

\* An erase that got as far as word k.
Cleared(k) == [i \in 0 .. Size-1 |-> IF i < k THEN Erased ELSE sector[i]]

\* Flash only clears bits.
And(old, new) ==
    CASE old = Erased -> new
      [] new = Erased -> old
      [] old = new    -> old
      [] OTHER        -> 0

\* Mutant: the counter runs into the value erased flash reads as.
NextSeq_Parks == j.seq + 1

\* The number of the record about to be written.
NextSeq == IF j.seq + 1 = Erased THEN j.seq ELSE j.seq + 1

Record(p) == <<Magic, NextSeq, Len(p), Sum(p)>> \o p

ErasedFrom(off) == \A i \in off .. Size-1 : sector[i] = Erased

\* Mutant: the head stays where the failed write began, header or not.
HeadAfter_Inside(off) ==
    IF sector[off] # Magic THEN off ELSE MinOf(WriteHead(sector, off), Size)

\* headAfter: where the next record may go once a write at off has failed.
HeadAfter(off) ==
    IF Size - off < HeaderLen \/ sector[off] # Magic
    THEN off
    ELSE MinOf(WriteHead(sector, off + HeaderLen), Size)

\* The driver cannot read the sector.
ReadFails == IF "read" \in use.faults THEN BOOLEAN ELSE {FALSE}

\* The erase of the ROM returns an error.
EraseFails == "erase" \in use.faults

Init ==
    /\ \E u \in Uses :
          /\ sector \in u.sectors
          /\ use = [payloads |-> u.payloads, faults |-> u.faults, own |-> sector = Blank]
    /\ open = FALSE
    /\ j = NewJournal
    /\ save = Idle
    /\ stale = FALSE

\* Open
Open ==
    /\ ~open
    /\ open' = TRUE
    /\ j' = Opened(sector)
    /\ UNCHANGED <<use, sector, save, stale>>

\* There is no room, or something is written where the record would go or
\* anywhere after it.
NeedErase(p) ==
    \/ j.next + Len(Record(p)) > Size
    \/ ~ErasedFrom(j.next)

\* Save up to its first change to the flash.  The payload that reads as
\* erased flash is refused; a read that fails counts as "not erased".
SaveBegin(p) ==
    /\ open
    /\ save.pc = "idle"
    /\ Len(p) <= MaxRecord
    /\ ~ErasedRecord(p, Erased)
    /\ \E readFails \in ReadFails :
          save' = [pc |-> IF NeedErase(p) \/ readFails THEN "erase" ELSE "write",
                   p |-> p, rec |-> Record(p), at |-> j.next, done |-> 0,
                   wiped |-> FALSE]
    /\ UNCHANGED <<use, sector, open, j, stale>>

SaveErase ==
    /\ save.pc = "erase"
    /\ sector' = Blank
    /\ j' = [j EXCEPT !.next = 0, !.torn = 0, !.blank = 0]
    /\ save' = [save EXCEPT !.pc = "write", !.at = 0, !.wiped = TRUE]
    /\ stale' = FALSE
    /\ UNCHANGED <<use, open>>

\* Erase returns an error, and Save with it.  The driver was refused the flash
\* and has left the sector alone, or the ROM gave up on the way and has cleared
\* it up to some word; Save does not ask which.
SaveEraseFails ==
    /\ EraseFails /\ save.pc = "erase"
    /\ \E k \in 0 .. Size : sector' = Cleared(k)
    /\ stale' = (stale \/ sector' # sector)
    /\ save' = Idle
    /\ UNCHANGED <<use, open, j>>

\* The driver lands one word.
WriteWord ==
    /\ save.pc = "write"
    /\ save.done < Len(save.rec)
    /\ sector' = [sector EXCEPT ![save.at + save.done] =
                      And(@, save.rec[save.done + 1])]
    /\ save' = [save EXCEPT !.done = @ + 1]
    /\ UNCHANGED <<use, open, j, stale>>

\* Mutant: what the sector held before it was cleared is still reported.
SaveWriteFails_KeepsLast ==
    /\ "write" \in use.faults
    /\ save.pc = "write"
    /\ \E readFails \in ReadFails :
          j' = [j EXCEPT !.next = IF readFails THEN save.at ELSE HeadAfter(save.at)]
    /\ save' = Idle
    /\ UNCHANGED <<use, sector, open, stale>>

\* WriteAt returns an error, with any number of words landed.
SaveWriteFails ==
    /\ "write" \in use.faults
    /\ save.pc = "write"
    /\ \E readFails \in ReadFails :
          j' = [j EXCEPT !.next = IF readFails THEN save.at ELSE HeadAfter(save.at),
                         !.last = IF save.wiped THEN None ELSE @]
    /\ save' = Idle
    /\ UNCHANGED <<use, sector, open, stale>>

\* Mutant: the counter is not moved on.
SaveReturns_NoSeq ==
    /\ save.pc = "write"
    /\ save.done = Len(save.rec)
    /\ j' = [j EXCEPT !.next = save.at + Len(save.rec),
                      !.last = save.p]
    /\ save' = Idle
    /\ UNCHANGED <<use, sector, open, stale>>

SaveReturns ==
    /\ save.pc = "write"
    /\ save.done = Len(save.rec)
    /\ j' = [j EXCEPT !.next = save.at + Len(save.rec),
                      !.seq = save.rec[2],
                      !.last = save.p]
    /\ save' = Idle
    /\ UNCHANGED <<use, sector, open, stale>>

\* A reset, at any moment.  One that interrupts the erase leaves the sector
\* cleared up to some word.
Crash ==
    /\ open
    /\ \E k \in IF save.pc = "erase" THEN 0 .. Size ELSE {0} : sector' = Cleared(k)
    /\ open' = FALSE
    /\ j' = NewJournal
    /\ save' = Idle
    /\ stale' = FALSE
    /\ UNCHANGED use

Next ==
    \/ Open
    \/ \E p \in use.payloads : SaveBegin(p)
    \/ SaveErase
    \/ SaveEraseFails
    \/ WriteWord
    \/ SaveWriteFails
    \/ SaveReturns
    \/ Crash

Spec == Init /\ [][Next]_vars

-----------------------------------------------------------------------------
(* Properties. *)

\* Type correctness: the head stays in the sector, the counter short of the
\* value erased flash reads as, and a write inside the sector.
TypeOK ==
    /\ use.payloads \subseteq Payloads /\ use.faults \subseteq AllFaults
    /\ sector \in [0 .. Size-1 -> Nat]
    /\ open \in BOOLEAN
    /\ j.next \in 0 .. Size
    /\ j.seq \in 0 .. Erased-1
    /\ j.last \in Payloads \cup {None}
    /\ j.torn \in 0 .. Size /\ j.blank \in 0 .. Size
    /\ save.pc \in {"idle", "erase", "write"}
    /\ save.p \in Payloads \cup {None}
    /\ save.pc = "write" => save.at + Len(save.rec) <= Size
    /\ save.done \in 0 .. Len(save.rec)
    /\ stale \in BOOLEAN

\* What opening the sector now would load.
Recovered == Opened(sector).last

\* A save that reports success can be read back by the next boot, whatever
\* the sector held before and whatever was cut short on it, unless an erase
\* has cleared the sector and called it an error.
SaveSticks == [][SaveReturns /\ ~stale => Recovered' = save.p]_vars

\* Words of the sector up to the last one written.
Written == WriteHead(sector, 0)

\* In a sector that only this journal has written, through a driver that does
\* not fail, a save clears the sector only when it is full: wreckage of a torn
\* write takes no more room than what landed of it and the rest of its header
\* (TestATornWriteCostsNoErase).  A sector that does not begin with a record is
\* one an interrupted erase left.
EraseOnlyWhenFull ==
    save.pc = "erase" /\ use.own /\ use.faults = {} =>
        \/ Written + HeaderLen - 1 + Len(save.rec) > Size
        \/ sector[0] # Magic

\* The state of the journal is sound, and it spends no erase it does not need.
Sound == TypeOK /\ EraseOnlyWhenFull

\* What the journal says it holds is not something the flash lost: after a
\* failed save, Load returns a state only while a boot would find one too.  An
\* erase that cleared the sector and called it an error is what it misses.
NoGhost == open /\ save.pc = "idle" /\ j.last # None /\ ~stale => Recovered # None

\* Headers that prove nothing cannot drive the counter: in a sector without
\* one valid record it is at most the number of headers (keepSeq).
NoiseBounded ==
    LET k == Opened(sector) IN k.last = None => k.seq <= k.torn + k.blank

\* The records a scan reads, oldest first: their sequence numbers.
RECURSIVE SeqsFrom(_, _)
SeqsFrom(buf, off) ==
    IF off + HeaderLen > Size \/ buf[MinOf(off, Size-1)] # Magic THEN <<>>
    ELSE LET n == buf[off + 2]
             ok == /\ n <= MaxRecord
                   /\ off + HeaderLen + n <= Size
                   /\ Sum(Body(buf, off, n)) = buf[off + 3]
                   /\ ~ErasedRecord(Body(buf, off, n), buf[off + 3])
             more == Resync(buf, off + HeaderLen)
         IN  IF ok THEN <<buf[off + 1]>> \o SeqsFrom(buf, off + HeaderLen + n)
             ELSE IF more >= 0 THEN SeqsFrom(buf, more) ELSE <<>>

\* In a sector only this journal has written the numbers of the records climb,
\* until the counter reaches the last value short of the erased word, where it
\* stays.
SeqClimbs ==
    LET s == SeqsFrom(sector, 0)
    IN  use.own => \A i \in 1 .. Len(s) - 1 : s[i] < s[i+1] \/ s[i+1] = Erased - 1

\* The sequence counter is sound: it follows the journal's own records and
\* nothing else drives it.
SeqSound == SeqClimbs /\ NoiseBounded

\* The journal as a cell of stable storage: what is durable is what a boot
\* would find.
Store == INSTANCE StableStore WITH
    durable <- Recovered,
    known <- j.last,
    busy <- save.p,
    clears <- save.pc = "erase" \/ save.wiped,
    sure <- ~stale

\* The journal implements stable storage, through resets at any word, torn
\* records, failed writes and erases.
IsStableStore == Store!Spec
=============================================================================
