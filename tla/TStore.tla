------------------------------- MODULE TStore -------------------------------
(***************************************************************************)
(* The time based store of xju/cmc/tstore.py: a bucket file for each time  *)
(* that has data, and in memory the size of each.  A store is a value      *)
(* here, and each operation an operator that gives the store it leaves, or *)
(* the stores it may leave when it fails or dies midway.                   *)
(***************************************************************************)
EXTENDS Integers, Sequences, FiniteSets, Functions

CONSTANTS MaxBuckets, MaxSize

\* create_bucket asserts that max_buckets - 1 is above 0.
ASSUME StoreAssumption == MaxBuckets \in Nat \ {0, 1} /\ MaxSize \in Nat

\* sizes: __bucket_sizes, of which __buckets and __current_size are summaries;
\* files: what is in the directory.  A bucket is its start and its id.
NoStore == [sizes |-> <<>>, files |-> <<>>]

\* What __init__ makes of the directory.
Open(files) == [sizes |-> [b \in DOMAIN files |-> Len(files[b])], files |-> files]

In(st) == DOMAIN st.sizes
CurrentSize(st) == SumFunction(st.sizes)
Room(st) == MaxSize - CurrentSize(st)

\* Faulty: __buckets is never filled.
At_None(st, s) == {}
\* get_bucket: the bucket that starts at s, if any.
At(st, s) == {b \in In(st) : b.start = s}

Delete(st, B) == [sizes |-> Restrict(st.sizes, In(st) \ B),
                  files |-> Restrict(st.files, DOMAIN st.files \ B)]

\* ordered.sort()
Before(b, c) == b.start < c.start \/ (b.start = c.start /\ b.id < c.id)
Earlier(st, b) == {c \in In(st) : Before(c, b)}

\* Faulty: what fills the limit exactly is taken to be above it.
Heavy_Early(st, n) ==
  {b \in In(st) : SumFunctionOnSet(st.sizes, In(st) \ Earlier(st, b)) >= MaxSize - n}
\* Faulty: room is made when the limit is passed, not before.
Heavy_Late(st, n) ==
  {b \in In(st) : SumFunctionOnSet(st.sizes, In(st) \ Earlier(st, b)) > MaxSize}
\* What __trim_bytes(max_size - n) deletes: a bucket goes when it and those after
\* it are above the limit.
Heavy(st, n) ==
  {b \in In(st) : SumFunctionOnSet(st.sizes, In(st) \ Earlier(st, b)) > MaxSize - n}

\* What __trim_buckets(max_buckets - 1) deletes.
Surplus(st) == {b \in In(st) : Cardinality(In(st) \ Earlier(st, b)) > MaxBuckets - 1}

\* The stores on the way to deleting B, oldest first.
Deleting(st, B) == {Delete(st, B \cap Earlier(st, b)) : b \in B}

MakeRoom(st, n) == Delete(st, Heavy(st, n))

\* create_bucket, unless a bucket of that start exists.
Create(st, b) ==
  LET old == Delete(st, Surplus(st))
  IN [sizes |-> [c \in In(old) \cup {b} |-> IF c = b THEN 0 ELSE old.sizes[c]],
      files |-> [c \in DOMAIN old.files \cup {b} |-> IF c = b THEN <<>> ELSE old.files[c]]]

\* The stores on the way there.
Creating(st, b) == Deleting(st, Surplus(st)) \cup {Delete(st, Surplus(st))}

\* What a gap in a file reads as.
Hole == <<0, 0, 1>>

\* seek_to(size), write: data goes to the file at the size known in memory.  A
\* file that was deleted takes it with it, and no data leaves a file as it is.
Write(st, b, data) ==
  LET at == st.sizes[b]
      file == st.files[b]
      last == IF Len(file) > at + Len(data) THEN Len(file) ELSE at + Len(data)
  IN IF b \notin In(st) \/ data = <<>> THEN st
     ELSE [st EXCEPT !.files[b] =
             [i \in 1..last |-> IF i \in (at + 1)..(at + Len(data)) THEN data[i - at]
                                ELSE IF i <= Len(file) THEN file[i] ELSE Hole]]

\* Faulty: the length of the record without its newline.
Count_Short(st, b, n) == [st EXCEPT !.sizes[b] = @ + n - 1]
\* appended(n)
Count(st, b, n) == [st EXCEPT !.sizes[b] = @ + n]
Append_(st, b, data) == Count(Write(st, b, data), b, Len(data))
=============================================================================
