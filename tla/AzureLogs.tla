------------------------------ MODULE AzureLogs ------------------------------
(***************************************************************************)
(* Reading the output files of an Azure task: the Azure branch of logs()   *)
(* with merge_logs() in include/cldmux/job.hpp.  A poll looks at the task, *)
(* then at each file, then reads a range of it and cuts it into lines.     *)
(* Meanwhile the task writes, is tried again in new files, or ends.        *)
(*                                                                         *)
(* A byte is a line feed or anything else; time and retry counts of the    *)
(* task, its epoch, are the number of the attempt.                         *)
(***************************************************************************)
EXTENDS Naturals, Sequences

CONSTANTS
    MaxAttempts,    \* bound
    MaxLength,      \* bound: bytes of a stdout and of a stderr file
    MaxBytes,       \* bound: bytes of all files
    Chunk,          \* the most bytes one poll reads of a file
    LineLimit,      \* the longest line that is kept
    RangeIgnored    \* the service may answer any range with the whole file

ASSUME AzureLogsAssumption ==
    /\ MaxAttempts \in Nat \ {0} /\ Chunk \in Nat \ {0} /\ LineLimit \in Nat /\ MaxBytes \in Nat
    /\ MaxLength["stdout"] \in Nat /\ MaxLength["stderr"] \in Nat /\ RangeIgnored \in BOOLEAN

VARIABLES
    file,       \* the files of each attempt; those of the last one can be read
    attempt,    \* the attempt that runs
    over,       \* the task is completed
    raced,      \* attempts that ended during a poll
    log,        \* the checkpoints in job_data
    cache,      \* job_data::log_cache, keyed as log_ids is
    pc,
    work,       \* logs(): the copies of the checkpoints
    out,        \* logs(): the lines so far
    epoch, final,       \* logs(): what the task showed
    stream, length      \* logs(): the file being read

vars == <<file, attempt, over, raced, log, cache, pc, work, out, epoch, final, stream, length>>
task == <<file, attempt, over>>
poll == <<work, out, epoch, final, stream, length>>

Stream == {"stdout", "stderr"}
Attempt == 1..MaxAttempts
Byte == {"x", "nl"}
Bytes(n) == UNION {[1..k -> Byte] : k \in 0..n}
Size(s) == MaxLength[s]
Longest == Size("stdout") + Size("stderr")

ForEach(v) == [a \in Attempt |-> [s \in Stream |-> v]]

\* The types of the variables; no tail is longer than the limit on lines.
TypeOK == /\ \A a \in Attempt, s \in Stream :
                 /\ file[a][s] \in Bytes(Size(s))
                 /\ \A c \in {log, work} : /\ c.offset[a][s] \in 0..Size(s)
                                           /\ c.tail[a][s] \in Bytes(LineLimit)
                                           /\ c.tailAt[a][s] \in 0..Size(s)
          /\ \A c \in {log, work} : c.active \in 0..MaxAttempts /\ c.generation \in 0..MaxAttempts
          /\ attempt \in Attempt /\ over \in BOOLEAN /\ raced \subseteq Attempt
          /\ \A l \in cache \cup out : /\ l.epoch \in Attempt /\ l.stream \in Stream
                                       /\ l.at \in 0..Longest /\ l.text \in Bytes(Longest)
                                       /\ l.generation \in 0..MaxAttempts
          /\ pc \in {"idle", "head", "get"}
          /\ epoch \in Attempt /\ final \in BOOLEAN
          /\ stream \in Stream /\ length \in 0..Longest

Init == /\ file = ForEach(<<>>) /\ attempt = 1 /\ over = FALSE /\ raced = {}
        /\ log = [offset |-> ForEach(0), tail |-> ForEach(<<>>), tailAt |-> ForEach(0),
                  active |-> 0, generation |-> 0]
        /\ cache = {} /\ pc = "idle"
        /\ work = log /\ out = {} /\ epoch = 1 /\ final = FALSE
        /\ stream = "stdout" /\ length = 0
-----------------------------------------------------------------------------
(* The task.                                                               *)

Written[a \in 0..MaxAttempts] ==
    IF a = 0 THEN 0 ELSE Written[a - 1] + Len(file[a]["stdout"]) + Len(file[a]["stderr"])

Write(s, b) == /\ ~over /\ Len(file[attempt][s]) < Size(s) /\ Written[MaxAttempts] < MaxBytes
               /\ file' = [file EXCEPT ![attempt][s] = Append(@, b)]
               /\ UNCHANGED <<attempt, over, raced, log, cache, pc, poll>>

\* A retry or a requeue starts new files.
Retry == /\ ~over /\ attempt < MaxAttempts
         /\ attempt' = attempt + 1
         /\ raced' = IF pc = "idle" THEN raced ELSE raced \cup {attempt}
         /\ UNCHANGED <<file, over, log, cache, pc, poll>>

Complete == /\ ~over /\ over' = TRUE
            /\ UNCHANGED <<file, attempt, raced, log, cache, pc, poll>>
-----------------------------------------------------------------------------
(* Cutting bytes into lines.                                               *)

LineFeeds(b) == {i \in 1..Len(b) : b[i] = "nl"}
\* Bytes up to the last line feed, and those behind it.
Cut(b) == IF LineFeeds(b) = {} THEN 0
          ELSE CHOOSE i \in LineFeeds(b) : \A j \in LineFeeds(b) : j <= i
Rest(b) == SubSeq(b, Cut(b) + 1, Len(b))
FirstLine(b) == IF LineFeeds(b) = {} THEN Len(b)
                ELSE (CHOOSE i \in LineFeeds(b) : \A j \in LineFeeds(b) : i <= j) - 1

\* The terminated lines of b with the offsets at which they start.
Bounds(b) == {p \in ({0} \cup LineFeeds(b)) \X LineFeeds(b) :
                 p[1] < p[2] /\ \A k \in LineFeeds(b) : k <= p[1] \/ k >= p[2]}
Lines(b) == {<<p[1], SubSeq(b, p[1] + 1, p[2] - 1)>> : p \in Bounds(b)}
-----------------------------------------------------------------------------
(* logs()                                                                  *)

Entries(c, a, s, lines) ==
    {[epoch |-> a, stream |-> s, at |-> l[1], text |-> l[2], generation |-> c.generation] : l \in lines}

\* Another epoch than last time: the tails of the old one become lines, and
\* what follows sorts behind them.
SameGeneration == log.generation                                        \* slip
NextGeneration == log.generation + 1
NewEpoch(a) ==
    LET old == log.active
        flushed == {s \in Stream : log.tail[old][s] # <<>>}
    IN  IF old \in {0, a}
        THEN out' = {} /\ work' = [log EXCEPT !.active = a]
        ELSE /\ out' = UNION {Entries(log, old, s, {<<log.tailAt[old][s], log.tail[old][s]>>}) : s \in flushed}
             /\ work' = [log EXCEPT !.active = a, !.generation = NextGeneration,
                             !.tail[old] = [s \in Stream |-> <<>>],
                             !.tailAt[old] = [s \in Stream |->
                                 IF s \in flushed THEN log.offset[old][s] ELSE log.tailAt[old][s]]]

\* Between polls the locals of logs() are gone.
Idle(checkpoints) == /\ pc' = "idle" /\ work' = checkpoints /\ out' = {}
                     /\ epoch' = 1 /\ final' = FALSE /\ stream' = "stdout" /\ length' = 0

ReadTask == /\ pc = "idle"
            /\ epoch' = attempt /\ final' = over /\ NewEpoch(attempt)
            /\ pc' = "head" /\ stream' = "stdout" /\ length' = 0
            /\ UNCHANGED <<task, raced, log, cache>>

\* After the last stream the copies become the checkpoints and merge_logs
\* drops the lines whose identity is known.
Known(l) == \E k \in cache : <<k.generation, k.epoch, k.stream, k.at>> = <<l.generation, l.epoch, l.stream, l.at>>
Proceed(copies, lines) ==
    IF stream = "stdout"
    THEN /\ stream' = "stderr" /\ pc' = "head" /\ work' = copies /\ out' = lines /\ length' = 0
         /\ UNCHANGED <<log, cache, epoch, final>>
    ELSE /\ log' = copies /\ cache' = cache \cup {l \in lines : ~Known(l)}
         /\ Idle(copies)

\* A line that spans polls is held up to a limit.
FitsAlone(tail, bytes, kept) == Len(bytes) <= LineLimit                 \* slip
Fits(tail, bytes, kept) == /\ tail # <<>> => Len(tail) + FirstLine(bytes) <= LineLimit
                           /\ Len(kept) <= LineLimit

\* The bytes read up to `end` of `size`, behind a tail, are cut into lines;
\* what is left is the new tail unless the end of all output was reached.
TakeBytes(copies, bytes, end, size) ==
    LET tail == copies.tail[epoch][stream]
        base == IF tail = <<>> THEN copies.offset[epoch][stream] ELSE copies.tailAt[epoch][stream]
        all == tail \o bytes
        ended == final /\ end = size
        kept == IF ended THEN <<>> ELSE Rest(all)
        last == IF Rest(all) = kept THEN {} ELSE {<<Cut(all), Rest(all)>>}
    IN  /\ Fits(tail, bytes, kept)
        /\ Proceed([copies EXCEPT !.offset[epoch][stream] = end,
                        !.tail[epoch][stream] = kept,
                        !.tailAt[epoch][stream] = IF kept # <<>> THEN base + Cut(all) ELSE end],
                   out \cup Entries(copies, epoch, stream, {<<base + l[1], l[2]>> : l \in Lines(all) \cup last}))

\* A file that became shorter is read from its start.
Truncated(size) ==
    IF size < work.offset[epoch][stream]
    THEN [work EXCEPT !.offset[epoch][stream] = 0, !.tail[epoch][stream] = <<>>,
                      !.tailAt[epoch][stream] = 0]
    ELSE work

\* HEAD: the file has nothing new, something to read, or does not exist yet.
HeadFindsNothing ==
    LET size == Len(file[attempt][stream])
        copies == Truncated(size)
    IN  /\ pc = "head" /\ copies.offset[epoch][stream] = size
        /\ TakeBytes(copies, <<>>, size, size)
        /\ UNCHANGED <<task, raced>>

HeadFindsMore ==
    LET size == Len(file[attempt][stream])
        copies == Truncated(size)
    IN  /\ pc = "head" /\ copies.offset[epoch][stream] < size
        /\ length' = size /\ work' = copies /\ pc' = "get"
        /\ UNCHANGED <<task, raced, log, cache, out, epoch, final, stream>>

HeadFindsNoFile == /\ pc = "head" /\ file[attempt][stream] = <<>>
                   /\ Proceed(work, out)
                   /\ UNCHANGED <<task, raced>>

\* GET of the range; a service that ignores it may send the whole file, which
\* is recognised by its length.
GetRange ==
    LET start == work.offset[epoch][stream]
        end == IF length - start < Chunk THEN length ELSE start + Chunk
        now == file[attempt][stream]
    IN  /\ pc = "get"
        /\ \/ Len(now) >= end /\ TakeBytes(work, SubSeq(now, start + 1, end), end, length)
           \/ /\ RangeIgnored /\ Len(now) = length
              /\ TakeBytes(work, SubSeq(now, start + 1, length), end, length)
        /\ UNCHANGED <<task, raced>>

\* Any exception: a failed call, an unexpected length, a line beyond the
\* limit.  The copies are dropped.
PollFailsHalfway ==                                                     \* slip
    /\ pc # "idle" /\ log' = work /\ Idle(work)
    /\ UNCHANGED <<task, raced, cache>>
PollFails == /\ pc # "idle" /\ Idle(log)
             /\ UNCHANGED <<task, raced, log, cache>>
-----------------------------------------------------------------------------
Poll == \/ ReadTask
        \/ HeadFindsNothing \/ HeadFindsMore \/ HeadFindsNoFile
        \/ GetRange
        \/ PollFails

Task == (\E s \in Stream, b \in Byte : Write(s, b)) \/ Retry \/ Complete

Next == Poll \/ Task

Spec == Init /\ [][Next]_vars
-----------------------------------------------------------------------------
\* What the cache holds of a file is what the file holds up to the offset, cut
\* at its line feeds, with nothing missing, torn, joined or doubled, whatever
\* ranges it was read in and whichever polls failed.  Only the unterminated
\* end may be pending, and not once the attempt is known to be over.  A poll
\* that a retry overtakes mixes two attempts; the attempt it started on is
\* excepted.
LinesAreExact ==
    \A a \in Attempt \ raced, s \in Stream :
        LET read == SubSeq(file[a][s], 1, log.offset[a][s])
            pending == log.tail[a][s]
        IN  /\ {<<l.at, l.text>> : l \in {k \in cache : k.epoch = a /\ k.stream = s}} =
                    Lines(read) \cup IF Rest(read) = pending THEN {} ELSE {<<Cut(read), Rest(read)>>}
            /\ pending = Rest(read) \/ (pending = <<>> /\ (over \/ a < log.active))
            /\ a < log.active => pending = <<>>

\* "Range offsets resume reads": two lines of one file never overlap.
ReadsResume ==
    \A k, l \in cache : /\ k.epoch = l.epoch /\ k.stream = l.stream
                        /\ k.epoch \notin raced /\ k.at < l.at
                        => k.at + Len(k.text) < l.at

\* The cache sorts by generation first, so a later attempt's lines never sort
\* before an earlier one's.
AttemptsInOrder == \A k, l \in cache : k.epoch < l.epoch => k.generation < l.generation
=============================================================================
