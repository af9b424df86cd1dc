------------------------------ MODULE PerfLog -------------------------------
(***************************************************************************)
(* A performance log and its mirror (xju/cmc/perflog.py): a Recorder       *)
(* appends records to the source, and a Tracker brings the mirror up to    *)
(* date with what the source says it has not seen.  Each process calls one *)
(* method at a time, so a call is an action; a call that fails or a        *)
(* process that dies leaves the store of any of the call's steps.          *)
(***************************************************************************)
EXTENDS TStore, SequencesExt

CONSTANTS
  Starts,      \* the times at which buckets start
  Lengths,     \* lengths of an encoded record
  MaxBytes,    \* max_bytes of get_some_unseen_data
  MaxRecords,  \* bound: calls of record
  MaxFaults    \* bound: failures, short writes, crashes and losses

\* Bucket starts and record lengths are numbers; a record has its newline.
ASSUME LogAssumption ==
  /\ Starts \subseteq Nat /\ Lengths \subseteq Nat \ {0}
  /\ MaxBytes \in Nat \ {0} /\ MaxRecords \in Nat /\ MaxFaults \in Nat

VARIABLES
  source, mirror,  \* their stores
  writer,          \* the bucket of the Recorder's writer, if any
  sync,            \* what a sync has under way: what was seen, or a batch
  calls,           \* calls of record so far
  writes,          \* history: records that were written, and how much was taken
  torn,            \* buckets of the mirror with a write that was cut short
  faults           \* faults so far

logVars == <<source, writer, calls, writes>>
vars == <<logVars, mirror, sync, torn, faults>>

NoWriter == [start |-> 0, id |-> 0]
NoSync == [at |-> "none"]

\* An encoded record: its last byte is the newline.
Bytes(k, n) == [i \in 1..n |-> <<k, i, n>>]

Init ==
  /\ source = NoStore /\ mirror = NoStore /\ writer = NoWriter /\ sync = NoSync
  /\ calls = 0 /\ writes = {} /\ torn = {} /\ faults = 0

Fault == faults < MaxFaults /\ faults' = faults + 1

-----------------------------------------------------------------------------
(* Recorder.record *)

\* A new bucket's id is the time of the call.
Bucket(st, s) == IF At(st, s) # {} THEN CHOOSE b \in At(st, s) : TRUE
                 ELSE [start |-> s, id |-> calls + 1]

\* The store when the writer is about to append n bytes, and those before it.
Prepared(s, n) == LET st == MakeRoom(source, n)
                  IN IF At(st, s) # {} THEN st ELSE Create(st, Bucket(st, s))
Preparing(s, n) == LET st == MakeRoom(source, n)
                   IN Deleting(source, Heavy(source, n)) \cup {st} \cup
                      (IF At(st, s) # {} THEN {} ELSE Creating(st, Bucket(st, s)))

\* Faulty: the writer of a bucket that started then is taken for this one's.
WriterOf_Start(b) == IF writer.start = b.start THEN writer ELSE b
WriterOf(b) == IF writer = b THEN writer ELSE b

Call(s, n) == calls < MaxRecords /\ n < MaxSize /\ calls' = calls + 1

\* The first k bytes of the call's record; write took them of it.
Part(n, k) == SubSeq(Bytes(calls + 1, n), 1, k)
Takes(b, n, k) ==
  writes' = writes \cup {[bucket |-> b, call |-> calls + 1, length |-> n, data |-> Part(n, k)]}

Record(s, n) ==
  LET st == Prepared(s, n)
      b == Bucket(st, s)
  IN /\ Call(s, n)
     /\ source' = Count(Write(st, WriterOf(b), Bytes(calls + 1, n)), b, n)
     /\ writer' = WriterOf(b) /\ Takes(b, n, n)
     /\ UNCHANGED <<mirror, sync, torn, faults>>

\* A step raises: unlink, mkdir, open or write.
RecordFails(s, n) ==
  LET st == Prepared(s, n)
      b == Bucket(st, s)
  IN /\ Call(s, n) /\ Fault
     /\ \/ source' \in Preparing(s, n) /\ writer' = writer
        \/ source' = st /\ writer' = b
        \/ source' = st /\ writer # b /\ writer' = NoWriter
     /\ UNCHANGED <<writes, mirror, sync, torn>>

\* write takes k bytes only and says so; nobody listens, and record returns as
\* if all were written.
RecordShort(s, n) ==
  LET st == Prepared(s, n)
      b == Bucket(st, s)
  IN /\ Call(s, n) /\ Fault
     /\ \E k \in 1..(n - 1) :
          source' = Count(Write(st, b, Part(n, k)), b, n) /\ Takes(b, n, k)
     /\ writer' = b
     /\ UNCHANGED <<mirror, sync, torn>>

\* The process dies in the call, or before it, and opens the log again.
SourceDies(s, n) ==
  LET st == Prepared(s, n)
      b == Bucket(st, s)
  IN /\ Call(s, n) /\ Fault
     /\ \/ /\ \E died \in Preparing(s, n) \cup {st} : source' = Open(died.files)
           /\ UNCHANGED writes
        \/ \E k \in 1..n :
             source' = Open(Write(st, b, Part(n, k)).files) /\ Takes(b, n, k)
     /\ writer' = NoWriter
     /\ UNCHANGED <<mirror, sync, torn>>

\* What fetch yields of a file: the lines that decode.  A record that follows
\* part of another on its line does not.
Ends(file) == {i \in DOMAIN file : file[i][2] = file[i][3]}
Lines(file) ==
  {SubSeq(file, p + 1, q) : p, q \in Ends(file) \cup {0}} \ {<<>>}
Fetched(file) ==
  {line \in Lines(file) : Ends(line) = {Len(line)} /\ line = Bytes(line[1][1], Len(line))}

-----------------------------------------------------------------------------
(* A sync: Tracker.get_seen, PerfLog.get_some_unseen_data at the source and *)
(* Tracker.write_unseen_data                                                *)

GetSeen ==
  /\ sync = NoSync /\ sync' = [at |-> "seen", sizes |-> mirror.sizes]
  /\ UNCHANGED <<logVars, mirror, torn, faults>>

\* list_unseen, in the order of its loops.
Gone_None(seen) == {}  \* faulty
Gone(seen) == DOMAIN seen \ In(source)
Grown_None(seen) == {}  \* faulty
Grown(seen) == {b \in DOMAIN seen \cap In(source) : source.sizes[b] \notin {0, seen[b]}}
New(seen) == {b \in In(source) \ DOMAIN seen : source.sizes[b] # 0}

\* Where reading starts, and how much there is to read, in memory and in the file.
Position(seen, b) ==
  IF b \in DOMAIN seen /\ seen[b] <= source.sizes[b] THEN seen[b] ELSE 0
Unread(seen, b) == LET end == IF Len(source.files[b]) < source.sizes[b]
                              THEN Len(source.files[b]) ELSE source.sizes[b]
                   IN IF end > Position(seen, b) THEN end - Position(seen, b) ELSE 0

\* Faulty: no seek_to.
Read_Start(file, position, n) == SubSeq(file, 1, n)
\* seek_to(position), read(n)
Read(file, position, n) == SubSeq(file, position + 1, position + n)

\* The buckets in order, until MaxBytes are read; the last may be read in part.
Batch(seen, order) ==
  LET unread == [i \in DOMAIN order |-> Unread(seen, order[i])]
      before(i) == SumFunctionOnSet(unread, 1..(i - 1))
      items == {i \in DOMAIN order : before(i) < MaxBytes}
      length(i) == IF before(i) + unread[i] > MaxBytes THEN MaxBytes - before(i)
                   ELSE unread[i]
      from(i) == Position(seen, order[i])
  IN [i \in items |-> [bucket |-> order[i], position |-> from(i),
                       data |-> Read(source.files[order[i]], from(i), length(i))]]

Deletions(order) ==
  [i \in DOMAIN order |-> [bucket |-> order[i], position |-> 0, data |-> <<>>]]

\* The buckets of bad cannot be read: read_failed returns and they are skipped.
GetSomeUnseenData ==
  /\ sync.at = "seen"
  /\ LET seen == sync.sizes
     IN \E bad \in SUBSET (Grown(seen) \cup New(seen)) :
          /\ IF bad = {} THEN UNCHANGED faults ELSE Fault
          /\ \E gone \in SetToSeqs(Gone(seen)), grown \in SetToSeqs(Grown(seen) \ bad),
                new \in SetToSeqs(New(seen) \ bad) :
               LET items == Deletions(gone) \o Batch(seen, grown \o new)
               IN sync' = IF items = <<>> THEN NoSync ELSE [at |-> "batch", items |-> items]
  /\ UNCHANGED <<logVars, mirror, torn>>

\* Buckets that start when b does and are not b.
Foreign(st, b) == At(st, b.start) \ {b}

\* The steps of write_unseen_data for one item.
Replaced(item) == Delete(mirror, Foreign(mirror, item.bucket))
Exists(st, b) == IF At(st, b.start) # {} THEN st ELSE Create(st, b)
Cleared(item) == LET st == Exists(Replaced(item), item.bucket)
                 IN IF item.position = 0 THEN Delete(st, {item.bucket}) ELSE st
Writable(item) == IF item.data = <<>> THEN Cleared(item)
                  ELSE Exists(Cleared(item), item.bucket)
Applying(item) ==
  LET st == Replaced(item)
  IN {mirror, st, Exists(st, item.bucket), Cleared(item), Writable(item)}
       \cup (IF At(st, item.bucket.start) # {} THEN {} ELSE Creating(st, item.bucket))

\* verify_bucket_exists, Assert(... == position) and the room append asserts.
Accepted(item) ==
  LET st == Writable(item)
  IN item.data = <<>> \/ /\ item.bucket \in In(st)
                         /\ st.sizes[item.bucket] = item.position
                         /\ Room(st) >= Len(item.data)

Item == Head(sync.items)
NextItem == sync' = IF Len(sync.items) = 1 THEN NoSync
                    ELSE [sync EXCEPT !.items = Tail(@)]
Untorn == torn' = torn \cap In(mirror')

\* An item that is not accepted ends the call.
WriteUnseenData ==
  /\ sync.at = "batch"
  /\ IF Accepted(Item)
     THEN /\ mirror' = (IF Item.data = <<>> THEN Writable(Item)
                        ELSE Append_(Writable(Item), Item.bucket, Item.data))
          /\ NextItem
     ELSE mirror' = Writable(Item) /\ sync' = NoSync
  /\ torn' = torn \cap In(Cleared(Item))
  /\ UNCHANGED <<logVars, faults>>

WriteFails ==
  /\ sync.at = "batch" /\ Fault
  /\ \E st \in Applying(Item) : mirror' = st
  /\ sync' = NoSync /\ Untorn
  /\ UNCHANGED logVars

WriteShort ==
  /\ sync.at = "batch" /\ Accepted(Item) /\ Fault
  /\ \E k \in 1..(Len(Item.data) - 1) :
       mirror' = Count(Write(Writable(Item), Item.bucket, SubSeq(Item.data, 1, k)),
                       Item.bucket, Len(Item.data))
  /\ NextItem /\ torn' = (torn \cap In(Cleared(Item))) \cup {Item.bucket}
  /\ UNCHANGED logVars

\* The mirror's process dies, in a sync or not, and opens the log again.
MirrorDies ==
  /\ Fault
  /\ \E died \in IF sync.at # "batch" THEN {mirror}
                 ELSE Applying(Item) \cup
                      (IF ~Accepted(Item) THEN {} ELSE
                       {Write(Writable(Item), Item.bucket, SubSeq(Item.data, 1, k)) :
                          k \in 0..Len(Item.data)}) :
       mirror' = Open(died.files)
  /\ sync' = NoSync /\ Untorn
  /\ UNCHANGED logVars

\* The request or the answer is lost, read_failed raises, or the source dies with
\* it.
SyncLost ==
  /\ sync # NoSync /\ Fault /\ sync' = NoSync
  /\ UNCHANGED <<logVars, mirror, torn>>

-----------------------------------------------------------------------------
Calling(s, n) ==
  Record(s, n) \/ RecordFails(s, n) \/ RecordShort(s, n) \/ SourceDies(s, n)

Recording == \E s \in Starts, n \in Lengths : Calling(s, n)

Sync == GetSeen \/ GetSomeUnseenData \/ WriteUnseenData

Next == Recording \/ Sync \/ WriteFails \/ WriteShort \/ MirrorDies \/ SyncLost

Spec == Init /\ [][Next]_vars

\* The mirror is synced again and again: WF_vars(Sync), a sync being always
\* possible.
FairSpec == Spec /\ []<><<Sync>>_vars

-----------------------------------------------------------------------------
(* Properties *)

Stores == {source, mirror}

\* The variables keep their types and a start has one bucket, in memory and in
\* the directory (read_files refuses a directory with two).
TypeOK ==
  /\ \A st \in Stores : /\ In(st) = DOMAIN st.files
                        /\ \A b \in In(st) : b.start \in Starts /\ b.id \in 1..MaxRecords
                        /\ \A b, c \in In(st) : b.start = c.start => b = c
                        /\ \A b \in In(st) : st.sizes[b] \in Nat
  /\ writer = NoWriter \/ writer.start \in Starts
  /\ sync.at \in {"none", "seen", "batch"}
  /\ calls \in 0..MaxRecords /\ faults \in 0..MaxFaults /\ torn \subseteq In(mirror)

\* Neither store is ever above its limits, in memory or on the disk.
WithinLimits ==
  \A st \in Stores :
    /\ Cardinality(DOMAIN st.files) <= MaxBuckets /\ CurrentSize(st) <= MaxSize
    /\ CurrentSize(Open(st.files)) <= MaxSize

\* What a write took of a record is in its bucket's file until that bucket is
\* evicted: no write before or after it, whole, short or torn, overwrites it.
Kept ==
  \A w \in writes : w.bucket \in In(source) =>
    \E p \in 0..(Len(source.files[w.bucket]) - Len(w.data)) :
      SubSeq(source.files[w.bucket], p + 1, p + Len(w.data)) = w.data

CutShort(w) == Len(w.data) < w.length
\* The write before it in its bucket was cut short: they share a line.
Hidden(w) ==
  \E c \in writes :
    /\ c.bucket = w.bucket /\ c.call < w.call /\ CutShort(c)
    /\ \A q \in writes : q.bucket = w.bucket => ~(c.call < q.call /\ q.call < w.call)

\* A write that is cut short loses two records and no more, although record
\* returned for both: its own and the next of its bucket.  All others that were
\* written, also by a process that died, are fetched until they are evicted.
FetchedOrHidden ==
  \A w \in writes : w.bucket \in In(source) =>
    CutShort(w) \/ Hidden(w) \/ w.data \in Fetched(source.files[w.bucket])

\* The mirror of a bucket is a prefix of it, whatever was lost or died, except
\* where a short write of the mirror itself was taken for a whole one.
MirrorIsPrefix ==
  \A b \in (In(mirror) \cap In(source)) \ torn : IsPrefix(mirror.files[b], source.files[b])

\* "there is room (as long as __tstore has same max_bytes, max_buckets as
\* source)": no assertion of write_unseen_data fails, also after a batch was
\* applied in part and a bucket replaced.
AllAccepted == sync.at = "batch" => Accepted(Item)

\* The call has no room for its record beside b and those after b, or needs a
\* bucket of its own and there are MaxBuckets of them; st is what it leaves.
Needs(st, b, s, n) ==
  LET since == {c \in In(source) : b.start <= c.start}
  IN \/ SumFunctionOnSet(source.sizes, since) + n > MaxSize
     \/ Cardinality(since) >= MaxBuckets /\ At(source, s) \cap In(st) = {}

\* A log deletes the oldest buckets, "just enough" of them: an append that fits
\* deletes none, and nor does anything but record.
OldestGo ==
  [][\A b \in In(source) \ In(source)' :
       /\ \A c \in In(source) \cap In(source)' : b.start < c.start
       /\ \E s \in Starts, n \in Lengths : Calling(s, n) /\ Needs(source', b, s, n)]_vars

Converged == /\ \A b \in DOMAIN source.files :
                  source.files[b] = <<>> \/ b \in torn
                  \/ (b \in In(mirror) /\ mirror.files[b] = source.files[b])
             /\ In(mirror) \subseteq In(source)

\* Once recording stops the mirror becomes a copy of the log.
MirrorConverges == <>[]Converged
=============================================================================
