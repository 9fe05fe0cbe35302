------------------------------ MODULE EventLogs ------------------------------
(***************************************************************************)
(* Polling the log entries of a GCP or an AWS job: logs() and merge_logs() *)
(* of include/cldmux/job.hpp.  A poll reads page after page while the      *)
(* service goes on receiving lines, any page can fail, and the checkpoints *)
(* change only when a poll has read everything.                            *)
(*                                                                         *)
(* A line is a pair: <<receive time, time stamp>> at GCP, <<stream,        *)
(* position>> at AWS, where every attempt of the job has a stream.         *)
(***************************************************************************)
EXTENDS Naturals

CONSTANTS
    MaxFirst,   \* bound: receive times, streams
    MaxSecond,  \* bound: time stamps, lines of a stream
    MaxPages,   \* pages a poll reads from one AWS stream
    Consistent  \* the pages of a GCP listing show what was there when it began

ASSUME EventLogsAssumption ==
    MaxFirst \in Nat /\ MaxSecond \in Nat /\ MaxPages \in Nat /\ Consistent \in BOOLEAN

VARIABLES
    provider,
    shown,      \* the lines the service lists
    cursor,     \* job_data::log_cursor, 0 when empty
    highWater,  \* job_data::log_high_water, 0 when empty
    tokens,     \* job_data::log_cursors: the position a token stands for
    ids,        \* job_data::log_ids
    emitted,    \* how often a line entered log_cache and went to the sink
    pc,
    out,        \* what this poll has read, with identities
    exposed,    \* what the service listed when this poll began
    at,         \* GCP: time stamps from here up are read
    next,       \* AWS: the copied cursors
    todo,       \* AWS: streams that have not converged
    page        \* AWS: pages read of the stream

checkpoints == <<cursor, highWater, tokens>>
poll == <<out, exposed, at, next, todo, page>>
vars == <<provider, shown, checkpoints, ids, emitted, pc, poll>>

Stream == 1..MaxFirst
Line == (1..MaxFirst) \X (1..MaxSecond)

Init == /\ provider \in {"aws", "gcp"}
        /\ shown = {} /\ ids = {} /\ emitted = [l \in Line |-> 0]
        /\ cursor = 0 /\ highWater = 0 /\ tokens = [s \in Stream |-> 0]
        /\ pc = "idle" /\ out = {} /\ exposed = {} /\ at = 1
        /\ next = tokens /\ todo = {} /\ page = 0
-----------------------------------------------------------------------------
(* The services.                                                           *)

\* What the overlap of the GCP cursor is made for: an entry becomes visible
\* late by at most one receive time.
NearOrder(l) == \A g, h \in shown : ~(l[1] < g[1] /\ g[1] < h[1])

Length(s) == IF \E p \in 1..MaxSecond : <<s, p>> \in shown
             THEN CHOOSE p \in 1..MaxSecond :
                      <<s, p>> \in shown /\ \A q \in 1..MaxSecond : <<s, q>> \in shown => q <= p
             ELSE 0

Show(l) == /\ l \notin shown
           /\ IF provider = "gcp" THEN NearOrder(l) ELSE l[2] = Length(l[1]) + 1
           /\ shown' = shown \cup {l}
           /\ UNCHANGED <<provider, checkpoints, ids, emitted, pc, poll>>
-----------------------------------------------------------------------------
(* merge_logs                                                              *)

\* A line whose identity is known is dropped, the others are cached and
\* handed on.
MergeLogsUnchecked(read) ==                                             \* slip
    /\ ids' = ids \cup {e.id : e \in read}
    /\ emitted' = [l \in Line |-> IF \E e \in read : e.line = l THEN emitted[l] + 1 ELSE emitted[l]]
MergeLogs(read) ==
    LET added == {e \in read : e.id \notin ids}
    IN  /\ ids' = ids \cup {e.id : e \in added}
        /\ emitted' = [l \in Line |-> IF \E e \in added : e.line = l
                                      THEN emitted[l] + 1 ELSE emitted[l]]

\* The exception leaves the checkpoints as they were.
PollFails == /\ pc # "idle" /\ pc' = "idle"
             /\ UNCHANGED <<provider, shown, checkpoints, ids, emitted, poll>>
-----------------------------------------------------------------------------
(* GCP: entries:list with the newest time stamps first.                    *)

ListBegins == /\ pc = "idle" /\ provider = "gcp"
              /\ pc' = "list" /\ out' = {} /\ exposed' = shown /\ at' = MaxSecond + 1
              /\ UNCHANGED <<provider, shown, checkpoints, ids, emitted, next, todo, page>>

\* What the next page is taken from: the entries as they were when the
\* listing began, or as they are now.
Listed == IF Consistent THEN exposed ELSE shown

\* One page: the entries from the page token down to another time stamp that
\* the filter lets through.
PageOf(low) == {[id |-> <<0, l>>, line |-> l] :
                    l \in {x \in Listed : low <= x[2] /\ x[2] < at /\ x[1] >= cursor}}

ListPage == /\ pc = "list"
            /\ \E low \in 2..at - 1 : out' = out \cup PageOf(low) /\ at' = low
            /\ UNCHANGED <<provider, shown, checkpoints, ids, emitted, pc, exposed, next, todo, page>>

\* The highest receive time below `bound` that is known; 0 is an empty cursor.
Highest(times, bound) == IF \E t \in times : t < bound /\ t > 0
                         THEN CHOOSE t \in times : t < bound /\ \A u \in times : u < bound => u <= t
                         ELSE 0

\* The loop over the sorted lines: the two highest receive times seen so far.
AdvanceToHighWater(read) ==                                             \* slip
    LET times == {e.line[1] : e \in read} \cup {cursor, highWater}
    IN  /\ highWater' = Highest(times, MaxFirst + 1)
        /\ cursor' = highWater'
Advance(read) ==
    LET times == {e.line[1] : e \in read} \cup {cursor, highWater}
    IN  /\ highWater' = Highest(times, MaxFirst + 1)
        /\ cursor' = Highest(times, highWater')

ListEnds == /\ pc = "list"
            /\ LET read == out \cup PageOf(1)
               IN  Advance(read) /\ MergeLogs(read)
            /\ pc' = "idle"
            /\ UNCHANGED <<provider, shown, tokens, poll>>
-----------------------------------------------------------------------------
(* AWS: GetLogEvents from a token, one stream after the other.             *)

\* DescribeJobs names some of the streams.
StreamsBegin == /\ pc = "idle" /\ provider = "aws"
                /\ pc' = "streams" /\ out' = {} /\ next' = tokens /\ page' = 0
                /\ todo' \in SUBSET Stream
                /\ UNCHANGED <<provider, shown, checkpoints, ids, emitted, exposed, at>>

PagesLeft == page < MaxPages

Current(s) == s \in todo /\ \A u \in todo : s <= u

\* A page of some of the lines behind the token; it can be empty before the
\* end.
StreamPage(s) ==
    /\ pc = "streams" /\ Current(s) /\ PagesLeft
    /\ \E last \in next[s]..Length(s) :
           /\ out' = out \cup {[id |-> <<next[s], <<s, p>>>>, line |-> <<s, p>>] : p \in next[s] + 1..last}
           /\ next' = [next EXCEPT ![s] = last]
    /\ page' = page + 1
    /\ UNCHANGED <<provider, shown, checkpoints, ids, emitted, pc, exposed, at, todo>>

\* The service returns the token it was given, or none.
StreamConverges(s) ==
    /\ pc = "streams" /\ Current(s) /\ PagesLeft
    /\ next[s] = Length(s)
    /\ todo' = todo \ {s} /\ page' = 0
    /\ UNCHANGED <<provider, shown, checkpoints, ids, emitted, pc, out, exposed, at, next>>

StreamsEnd == /\ pc = "streams" /\ todo = {}
              /\ tokens' = next /\ MergeLogs(out)
              /\ pc' = "idle"
              /\ UNCHANGED <<provider, shown, cursor, highWater, poll>>
-----------------------------------------------------------------------------
Poll == \/ ListBegins \/ ListPage \/ ListEnds
        \/ StreamsBegin \/ \E s \in Stream : StreamPage(s) \/ StreamConverges(s)
        \/ StreamsEnd
        \/ PollFails

Next == (\E l \in Line : Show(l)) \/ Poll

Spec == Init /\ [][Next]_vars
-----------------------------------------------------------------------------
\* The comment at job.hpp:483-485 says that the overlap of the queries avoids
\* gaps when entries show up late: an entry that was not handed on is still
\* at or above the cursor, so that the next query lists it.
OverlapAvoidsGaps ==
    provider = "gcp" => \A l \in shown : emitted[l] = 0 => l[1] >= cursor

\* Neither provider's checkpoint passes a line that was not handed on, so that
\* the next poll that succeeds reads it: polls that fail at any page, lines
\* that arrive while pages are read and GCP entries shown late by one receive
\* time lose nothing.  At GCP this takes a consistent listing.
NothingIsSkipped ==
    /\ OverlapAvoidsGaps
    /\ provider = "aws" => \A l \in shown : emitted[l] = 0 => l[2] > tokens[l[1]]

\* No line is handed to the sink or cached twice, although polls overlap.
NothingTwice == \A l \in Line : emitted[l] <= 1
=============================================================================
