--------------------------- MODULE EventLogsProofs ---------------------------
(***************************************************************************)
(* What EventLogs promises of the lines of a job, for any number of        *)
(* streams, receive times, pages and polls: none is skipped, none is       *)
(* handed on twice.  A poll is followed by what it has read of the lines   *)
(* listed when it began, a checkpoint by the lines it was taken from.      *)
(***************************************************************************)
EXTENDS EventLogs, WellFoundedInduction, TLAPS

\* The types of the variables.
Entry == [id : Nat \X Line, line : Line]
TypeOK == /\ provider \in {"aws", "gcp"} /\ shown \subseteq Line
          /\ cursor \in 0..MaxFirst /\ highWater \in 0..MaxFirst
          /\ tokens \in [Stream -> 0..MaxSecond] /\ next \in [Stream -> 0..MaxSecond]
          /\ ids \subseteq Nat \X Line /\ emitted \in [Line -> {0, 1}]
          /\ pc \in {"idle"} \cup (IF provider = "gcp" THEN {"list"} ELSE {"streams"})
          /\ out \subseteq Entry /\ exposed \subseteq shown
          /\ at \in 1..MaxSecond + 1 /\ todo \subseteq Stream

\* An identity is known of lines that were handed on, and of no others.
IdsAreEmitted == \A i \in ids : emitted[i[2]] = 1

-----------------------------------------------------------------------------
(* GCP.                                                                    *)

\* There is one identity to a line, and a line that was handed on is known.
OneIdentity == provider = "gcp" =>
    /\ \A l \in Line : emitted[l] = 1 => <<0, l>> \in ids
    /\ pc = "list" => \A e \in out : e.id = <<0, e.line>> /\ e.line \in shown

\* The cursor and the mark above it are receive times of lines that are
\* listed, one below the other.
MarksAreShown ==
    /\ highWater # 0 => \E h \in shown : h[1] = highWater
    /\ cursor # 0 => cursor < highWater /\ \E g \in shown : g[1] = cursor

\* What came to be listed after the poll began is not more than one receive
\* time late for what was listed then.
BlindAreNear ==
    pc = "list" => \A f \in shown \ exposed, g, h \in exposed : ~(f[1] < g[1] /\ g[1] < h[1])

\* A consistent listing shows what was there when it began, and the marks were
\* taken from lines listed before.
ReadIsExposed == pc = "list" /\ Consistent =>
    /\ \A e \in out : e.line \in exposed
    /\ highWater # 0 => \E h \in exposed : h[1] = highWater
    /\ cursor # 0 => \E g \in exposed : g[1] = cursor

\* The poll has read what was listed when it began, from `at` up.
ReadDownTo == pc = "list" =>
    \A x \in exposed : at <= x[2] /\ cursor <= x[1] => [id |-> <<0, x>>, line |-> x] \in out
-----------------------------------------------------------------------------
(* AWS.                                                                    *)

\* What lies behind the tokens, and only that, was handed on.
TokensAreExact ==
    provider = "aws" => \A l \in Line : emitted[l] = 1 <=> l[2] <= tokens[l[1]]

\* A poll has read what lies between the tokens and its copies of them.
ReadUpTo == pc = "streams" =>
    /\ \A e \in out : /\ e.id[2] = e.line
                      /\ tokens[e.line[1]] < e.line[2] /\ e.line[2] <= next[e.line[1]]
    /\ \A l \in Line : tokens[l[1]] < l[2] /\ l[2] <= next[l[1]] =>
           \E e \in out : e.line = l
    /\ \A s \in Stream : tokens[s] <= next[s]

\* What is proved of the checkpoints: at GCP it takes a consistent listing.
NoneSkipped == Consistent \/ provider = "aws" => NothingIsSkipped

\* The inductive invariant.
IInv == /\ TypeOK /\ IdsAreEmitted
        /\ OneIdentity /\ MarksAreShown /\ BlindAreNear /\ ReadIsExposed /\ ReadDownTo
        /\ TokensAreExact /\ ReadUpTo
        /\ NoneSkipped
-----------------------------------------------------------------------------
(* The numbers the model picks.                                            *)

\* A set of natural numbers has a least member.
LEMMA Least ==
    ASSUME NEW T \in SUBSET Nat, T # {}
    PROVE  \E x \in T : \A y \in T : x <= y
<1>1. \E x \in T : \A y \in T : ~(<<y, x>> \in OpToRel(<, Nat))
  BY NatLessThanWellFounded, WFMin
<1>2. PICK x \in T : \A y \in T : ~(<<y, x>> \in OpToRel(<, Nat))
  BY <1>1
<1>3. ASSUME NEW y \in T PROVE x <= y
  <2>1. x \in Nat /\ y \in Nat /\ <<y, x>> \in Nat \X Nat
    OBVIOUS
  <2>2. y < x => <<y, x>> \in OpToRel(<, Nat)
    BY <2>1, Zenon DEF OpToRel
  <2>3. ~(y < x)
    BY <1>2, <2>2
  <2> QED
    BY <2>1, <2>3
<1> QED
  BY <1>3

\* A bounded one has a greatest.
LEMMA Greatest ==
    ASSUME NEW T, NEW n \in Nat, T \subseteq 0..n, T # {}
    PROVE  \E x \in T : \A y \in T : y <= x
<1> DEFINE U == {n - t : t \in T}
<1>0. \A t \in T : n - t \in Nat
  OBVIOUS
<1>1. U \in SUBSET Nat /\ U # {}
  BY <1>0
<1>2. PICK u \in U : \A v \in U : u <= v
  BY <1>1, Least
<1>3. PICK x \in T : u = n - x
  OBVIOUS
<1>4. ASSUME NEW y \in T PROVE y <= x
  <2>1. n - y \in U
    OBVIOUS
  <2>2. n - x <= n - y
    BY <1>2, <1>3, <2>1
  <2> QED
    BY <2>2
<1> QED
  BY <1>4

\* The highest receive time below a bound is one of those known and below it,
\* and none when there is none.
LEMMA HighestIsKnown ==
    ASSUME NEW times, NEW n \in Nat, times \subseteq 0..n, NEW bound \in Nat
    PROVE  /\ Highest(times, bound) \in 0..n
           /\ Highest(times, bound) # 0 =>
                  Highest(times, bound) \in times /\ Highest(times, bound) < bound
<1>1. CASE \E t \in times : t < bound /\ t > 0
  <2> DEFINE below == {t \in times : t < bound}
             Top(t) == t < bound /\ \A u \in times : u < bound => u <= t
  <2>1. below \subseteq 0..n /\ below # {}
    BY <1>1
  <2>2. \E t \in times : Top(t)
    <3>1. PICK t \in below : \A u \in below : u <= t
      BY <2>1, Greatest
    <3> QED
      BY <3>1
  <2>3. Highest(times, bound) = CHOOSE t \in times : Top(t)
    BY <1>1 DEF Highest
  <2> HIDE DEF Top
  <2>4. Highest(times, bound) \in times /\ Top(Highest(times, bound))
    BY <2>2, <2>3
  <2> QED
    BY <2>4 DEF Top
<1>2. CASE ~ \E t \in times : t < bound /\ t > 0
  BY <1>2 DEF Highest
<1> QED
  BY <1>1, <1>2

\* A stream has at most MaxSecond lines.
LEMMA LengthBounds == ASSUME NEW s \in Stream PROVE Length(s) \in 0..MaxSecond
<1> DEFINE here == {p \in 1..MaxSecond : <<s, p>> \in shown}
           Last(p) == <<s, p>> \in shown /\ \A q \in 1..MaxSecond : <<s, q>> \in shown => q <= p
<1>1. CASE here # {}
  <2>1. here \subseteq 0..MaxSecond
    BY EventLogsAssumption
  <2>2. PICK p \in here : \A q \in here : q <= p
    BY <1>1, <2>1, Greatest, EventLogsAssumption
  <2>3. \E q \in 1..MaxSecond : Last(q)
    BY <2>2
  <2>4. Length(s) = CHOOSE q \in 1..MaxSecond : Last(q)
    BY <1>1 DEF Length
  <2> HIDE DEF Last
  <2> QED
    BY <2>3, <2>4, EventLogsAssumption
<1>2. CASE here = {}
  BY <1>2, EventLogsAssumption DEF Length
<1> QED
  BY <1>1, <1>2
-----------------------------------------------------------------------------
(* merge_logs.                                                             *)

\* Merging lines none of which was handed on under another identity hands on
\* every one of them, once.
LEMMA Merged ==
    ASSUME TypeOK, IdsAreEmitted, NEW read \in SUBSET Entry, MergeLogs(read),
           \A e \in read : e.id[2] = e.line /\ (e.id \notin ids => emitted[e.line] = 0)
    PROVE  /\ ids' \subseteq Nat \X Line /\ emitted' \in [Line -> {0, 1}]
           /\ \A l \in Line : emitted'[l] = 1 <=> emitted[l] = 1 \/ \E e \in read : e.line = l
           /\ \A i \in ids' : emitted'[i[2]] = 1
           /\ \A e \in read : e.id \in ids'
           /\ ids \subseteq ids'
<1> DEFINE added == {e \in read : e.id \notin ids}
<1>1. /\ ids' = ids \cup {e.id : e \in added}
      /\ emitted' = [l \in Line |-> IF \E e \in added : e.line = l
                                    THEN emitted[l] + 1 ELSE emitted[l]]
  BY DEF MergeLogs
<1>2. \A e \in read : e.id \in Nat \X Line /\ e.line \in Line
  BY DEF Entry
<1>3. ids \subseteq Nat \X Line /\ emitted \in [Line -> {0, 1}]
  BY DEF TypeOK
<1>4. ASSUME NEW l \in Line
      PROVE  /\ emitted'[l] \in {0, 1}
             /\ emitted'[l] = 1 <=> emitted[l] = 1 \/ \E e \in read : e.line = l
  <2>1. CASE \E e \in added : e.line = l
    BY <1>1, <1>3, <2>1
  <2>2. CASE ~ \E e \in added : e.line = l
    <3>1. emitted'[l] = emitted[l]
      BY <1>1, <2>2
    <3>2. ASSUME NEW e \in read, e.line = l PROVE emitted[l] = 1
      BY <2>2, <3>2 DEF IdsAreEmitted
    <3> QED
      BY <1>3, <3>1, <3>2
  <2> QED
    BY <2>1, <2>2
<1>5. ids' \subseteq Nat \X Line
  BY <1>1, <1>2, <1>3
<1>6. emitted' \in [Line -> {0, 1}]
  BY <1>1, <1>4
<1>7. \A e \in read : e.id \in ids'
  BY <1>1
<1>8. ASSUME NEW i \in ids' PROVE emitted'[i[2]] = 1
  <2>1. CASE i \in ids
    <3>1. emitted[i[2]] = 1 /\ i[2] \in Line
      BY <1>3, <2>1 DEF IdsAreEmitted
    <3> QED
      BY <1>4, <3>1
  <2>2. CASE i \notin ids
    <3>1. PICK e \in added : i = e.id
      BY <1>1, <2>2
    <3> QED
      BY <1>2, <1>4, <3>1
  <2> QED
    BY <2>1, <2>2
<1> QED
  BY <1>1, <1>4, <1>5, <1>6, <1>7, <1>8
-----------------------------------------------------------------------------
(* The invariant.                                                          *)

LEMMA InvariantInit == Init => IInv
<1> SUFFICES ASSUME Init PROVE IInv
  OBVIOUS
<1> USE EventLogsAssumption DEF Init
<1>1. TypeOK
  BY DEF TypeOK, Entry
<1>2. /\ IdsAreEmitted /\ OneIdentity /\ MarksAreShown /\ BlindAreNear /\ ReadIsExposed
      /\ ReadDownTo /\ ReadUpTo
  BY DEF IdsAreEmitted, OneIdentity, MarksAreShown, BlindAreNear, ReadIsExposed, ReadDownTo, ReadUpTo
<1>3. TokensAreExact
  BY DEF TokensAreExact, Line, Stream
<1>4. NoneSkipped
  BY DEF NoneSkipped, NothingIsSkipped, OverlapAvoidsGaps
<1> QED
  BY <1>1, <1>2, <1>3, <1>4 DEF IInv

\* A line that comes to be listed is not behind a checkpoint.
LEMMA ShowStep == ASSUME IInv, NEW l \in Line, Show(l) PROVE IInv'
<1>1. /\ shown' = shown \cup {l} /\ l \notin shown
      /\ UNCHANGED <<provider, cursor, highWater, tokens, ids, emitted, pc, out, exposed, at, next,
                     todo, page>>
  BY DEF Show, checkpoints, poll
<1>2. provider = "gcp" => \A g, h \in shown : ~(l[1] < g[1] /\ g[1] < h[1])
  BY DEF Show, NearOrder
<1>3. TypeOK'
  BY <1>1 DEF IInv, TypeOK
<1>4. IdsAreEmitted' /\ ReadDownTo' /\ TokensAreExact' /\ ReadUpTo'
  BY <1>1 DEF IInv, IdsAreEmitted, ReadDownTo, TokensAreExact, ReadUpTo
<1>5. OneIdentity'
  BY <1>1 DEF IInv, OneIdentity
<1>6. MarksAreShown'
  BY <1>1 DEF IInv, MarksAreShown
<1>7. BlindAreNear'
  <2>1. pc = "list" => provider = "gcp" /\ exposed \subseteq shown
    BY DEF IInv, TypeOK
  <2> QED
    BY <1>1, <1>2, <2>1 DEF IInv, BlindAreNear
<1>8. ReadIsExposed'
  BY <1>1 DEF IInv, ReadIsExposed
<1>9. NoneSkipped'
  <2>1. provider = "gcp" => l[1] >= cursor
    <3> SUFFICES ASSUME provider = "gcp", ~(l[1] >= cursor) PROVE FALSE
      OBVIOUS
    <3>1. l[1] \in Nat /\ cursor \in Nat /\ highWater \in Nat
      BY EventLogsAssumption DEF Line, IInv, TypeOK
    <3>2. cursor # 0 /\ l[1] < cursor
      BY <3>1
    <3>3. cursor < highWater
      BY <3>2 DEF IInv, MarksAreShown
    <3>4. PICK g \in shown : g[1] = cursor
      BY <3>2 DEF IInv, MarksAreShown
    <3>5. PICK h \in shown : h[1] = highWater
      BY <3>1, <3>3 DEF IInv, MarksAreShown
    <3> QED
      BY <1>2, <3>2, <3>3, <3>4, <3>5
  <2>2. provider = "aws" => (emitted[l] = 0 => l[2] > tokens[l[1]])
    <3>1. emitted[l] \in {0, 1} /\ l[1] \in Stream /\ l[2] \in Nat
      BY EventLogsAssumption DEF IInv, TypeOK, Line, Stream
    <3>2. tokens[l[1]] \in Nat
      BY <3>1, EventLogsAssumption DEF IInv, TypeOK
    <3> QED
      BY <3>1, <3>2 DEF IInv, TokensAreExact
  <2> QED
    BY <1>1, <2>1, <2>2 DEF IInv, NoneSkipped, NothingIsSkipped, OverlapAvoidsGaps, TypeOK
<1> QED
  BY <1>3, <1>4, <1>5, <1>6, <1>7, <1>8, <1>9 DEF IInv

LEMMA PollFailsStep == ASSUME IInv, PollFails PROVE IInv'
<1> USE DEF PollFails, checkpoints, poll
<1>1. TypeOK'
  BY DEF IInv, TypeOK
<1>2. IdsAreEmitted' /\ MarksAreShown' /\ TokensAreExact' /\ NoneSkipped'
  BY DEF IInv, IdsAreEmitted, MarksAreShown, TokensAreExact,
                                NoneSkipped, NothingIsSkipped, OverlapAvoidsGaps
<1>3. OneIdentity' /\ BlindAreNear' /\ ReadIsExposed' /\ ReadDownTo' /\ ReadUpTo'
  BY DEF IInv, OneIdentity, BlindAreNear, ReadIsExposed, ReadDownTo, ReadUpTo
<1> QED
  BY <1>1, <1>2, <1>3 DEF IInv

LEMMA ListBeginsStep == ASSUME IInv, ListBegins PROVE IInv'
<1> USE DEF ListBegins, checkpoints
<1>1. TypeOK'
  BY EventLogsAssumption DEF IInv, TypeOK
<1>2. IdsAreEmitted' /\ MarksAreShown' /\ TokensAreExact' /\ NoneSkipped'
  BY DEF IInv, IdsAreEmitted, MarksAreShown, TokensAreExact,
                                NoneSkipped, NothingIsSkipped, OverlapAvoidsGaps
<1>3. OneIdentity' /\ BlindAreNear' /\ ReadIsExposed' /\ ReadUpTo'
  BY DEF IInv, OneIdentity, MarksAreShown, BlindAreNear, ReadIsExposed, ReadUpTo
<1>4. ReadDownTo'
  <2>1. \A x \in shown : x[2] \in 1..MaxSecond
    BY DEF IInv, TypeOK, Line
  <2> QED
    BY <2>1, EventLogsAssumption DEF ReadDownTo
<1> QED
  BY <1>1, <1>2, <1>3, <1>4 DEF IInv

\* A page holds entries with the identity of their lines, and all that is
\* listed between its bounds.
LEMMA PageIsExact ==
    ASSUME TypeOK, NEW low
    PROVE  /\ PageOf(low) \subseteq Entry
           /\ \A e \in PageOf(low) : e.id = <<0, e.line>> /\ e.line \in shown
           /\ Consistent => \A e \in PageOf(low) : e.line \in exposed
           /\ \A x \in exposed : low <= x[2] /\ x[2] < at /\ x[1] >= cursor =>
                  [id |-> <<0, x>>, line |-> x] \in PageOf(low)
<1> DEFINE lines == {x \in Listed : low <= x[2] /\ x[2] < at /\ x[1] >= cursor}
           E(x) == [id |-> <<0, x>>, line |-> x]
<1>1. PageOf(low) = {E(x) : x \in lines}
  BY DEF PageOf
<1>2. /\ lines \subseteq Line /\ lines \subseteq shown /\ exposed \subseteq Listed
      /\ Consistent => lines \subseteq exposed
  BY DEF TypeOK, Listed
<1>3. ASSUME NEW x \in lines
      PROVE  E(x) \in Entry /\ E(x).id = <<0, E(x).line>> /\ E(x).line = x
  BY <1>2 DEF Entry
<1> HIDE DEF E
<1>4. /\ PageOf(low) \subseteq Entry
      /\ \A e \in PageOf(low) : e.id = <<0, e.line>> /\ e.line \in lines
  BY <1>1, <1>3
<1>5. \A x \in lines : E(x) \in PageOf(low)
  BY <1>1
<1> QED
  BY <1>2, <1>4, <1>5 DEF E

LEMMA ListPageStep == ASSUME IInv, ListPage PROVE IInv'
<1>1. PICK low \in 2..at - 1 : out' = out \cup PageOf(low) /\ at' = low
  BY DEF ListPage
<1>2. /\ UNCHANGED <<provider, shown, cursor, highWater, tokens, ids, emitted, pc, exposed, next,
                     todo, page>>
      /\ pc = "list"
  BY DEF ListPage, checkpoints
<1>3. TypeOK
  BY DEF IInv
<1>4. low \in 1..MaxSecond + 1 /\ low < at
  BY <1>3, EventLogsAssumption DEF TypeOK
<1>5. TypeOK'
  BY <1>1, <1>2, <1>3, <1>4, PageIsExact DEF TypeOK
<1>6. IdsAreEmitted' /\ MarksAreShown' /\ BlindAreNear' /\ TokensAreExact' /\ NoneSkipped'
  BY <1>2 DEF IInv, IdsAreEmitted, MarksAreShown, BlindAreNear, TokensAreExact,
              NoneSkipped, NothingIsSkipped, OverlapAvoidsGaps
<1>7. ReadUpTo'
  BY <1>2 DEF ReadUpTo
<1>8. OneIdentity'
  BY <1>1, <1>2, <1>3, PageIsExact DEF IInv, OneIdentity
<1>9. ReadDownTo'
  <2> SUFFICES ASSUME NEW x \in exposed, low <= x[2], cursor <= x[1]
               PROVE  [id |-> <<0, x>>, line |-> x] \in out'
    BY <1>1, <1>2 DEF ReadDownTo
  <2>1. x \in exposed /\ x[1] \in Nat /\ x[2] \in Nat /\ cursor \in Nat /\ at \in Nat
    BY <1>3, EventLogsAssumption DEF TypeOK, Line
  <2>2. CASE at <= x[2]
    BY <1>1, <1>2, <2>2 DEF IInv, ReadDownTo
  <2>3. CASE x[2] < at
    BY <1>1, <1>3, <2>1, <2>3, PageIsExact
  <2> QED
    BY <2>1, <2>2, <2>3
<1>10. ReadIsExposed'
  <2>1. Consistent => \A e \in PageOf(low) : e.line \in exposed
    BY <1>3, PageIsExact
  <2> QED
    BY <1>1, <1>2, <2>1 DEF IInv, ReadIsExposed
<1> QED
  BY <1>5, <1>6, <1>7, <1>8, <1>9, <1>10 DEF IInv

\* A poll that has read everything: the checkpoints move to the two highest
\* receive times it has seen, and what was listed too late lies above them.
LEMMA ListEndsStep == ASSUME IInv, ListEnds PROVE IInv'
<1> DEFINE read == out \cup PageOf(1)
           times == {e.line[1] : e \in read} \cup {cursor, highWater}
<1>1. /\ pc = "list" /\ pc' = "idle" /\ provider = "gcp" /\ MergeLogs(read)
      /\ highWater' = Highest(times, MaxFirst + 1) /\ cursor' = Highest(times, highWater')
      /\ UNCHANGED <<provider, shown, tokens, out, exposed, at, next, todo, page>>
  BY DEF ListEnds, Advance, poll, IInv, TypeOK
<1>2. TypeOK /\ IdsAreEmitted
  BY DEF IInv
<1>3. /\ read \in SUBSET Entry
      /\ \A e \in read : e.id = <<0, e.line>> /\ e.line \in shown
  BY <1>1, <1>2, PageIsExact DEF IInv, TypeOK, OneIdentity
<1>4. Consistent => \A e \in read : e.line \in exposed
  BY <1>1, <1>2, PageIsExact DEF IInv, ReadIsExposed
<1>5. \A e \in read : e.id[2] = e.line /\ (e.id \notin ids => emitted[e.line] = 0)
  <2> SUFFICES ASSUME NEW e \in read PROVE e.id[2] = e.line /\ (e.id \notin ids => emitted[e.line] = 0)
    OBVIOUS
  <2>1. e.id = <<0, e.line>> /\ e.line \in Line
    BY <1>2, <1>3 DEF TypeOK
  <2>2. emitted[e.line] \in {0, 1} /\ (emitted[e.line] = 1 => e.id \in ids)
    BY <1>1, <1>2, <2>1 DEF TypeOK, IInv, OneIdentity
  <2> QED
    BY <2>1, <2>2
<1> HIDE DEF read
<1>6. /\ ids' \subseteq Nat \X Line /\ emitted' \in [Line -> {0, 1}]
      /\ \A l \in Line : emitted'[l] = 1 <=> emitted[l] = 1 \/ \E e \in read : e.line = l
      /\ \A i \in ids' : emitted'[i[2]] = 1
      /\ \A e \in read : e.id \in ids'
      /\ ids \subseteq ids'
  BY <1>1, <1>2, <1>3, <1>5, Merged
<1>7. times \subseteq 0..MaxFirst
  <2>1. \A e \in read : e.line[1] \in 0..MaxFirst
    BY <1>2, <1>3, EventLogsAssumption DEF TypeOK, Line
  <2> QED
    BY <1>2, <2>1 DEF TypeOK
<1>8. \A t \in times : t # 0 => \E g \in shown : g[1] = t
  <2>1. \A e \in read : \E g \in shown : g[1] = e.line[1]
    BY <1>3
  <2>2. /\ cursor # 0 => \E g \in shown : g[1] = cursor
        /\ highWater # 0 => \E g \in shown : g[1] = highWater
    BY DEF IInv, MarksAreShown
  <2> QED
    BY <2>1, <2>2
<1>9. Consistent => \A t \in times : t # 0 => \E g \in exposed : g[1] = t
  <2> SUFFICES ASSUME Consistent PROVE \A t \in times : t # 0 => \E g \in exposed : g[1] = t
    OBVIOUS
  <2>1. \A e \in read : \E g \in exposed : g[1] = e.line[1]
    BY <1>4
  <2>2. /\ cursor # 0 => \E g \in exposed : g[1] = cursor
        /\ highWater # 0 => \E g \in exposed : g[1] = highWater
    BY <1>1 DEF IInv, ReadIsExposed
  <2> QED
    BY <2>1, <2>2
<1> HIDE DEF times
<1>10. /\ highWater' \in 0..MaxFirst
       /\ highWater' # 0 => highWater' \in times
  <2>1. MaxFirst \in Nat /\ MaxFirst + 1 \in Nat
    BY EventLogsAssumption
  <2>2. /\ Highest(times, MaxFirst + 1) \in 0..MaxFirst
        /\ Highest(times, MaxFirst + 1) # 0 => Highest(times, MaxFirst + 1) \in times
    BY <1>7, <2>1, HighestIsKnown
  <2> QED
    BY <1>1, <2>2
<1>11. /\ cursor' \in 0..MaxFirst
       /\ cursor' # 0 => cursor' \in times /\ cursor' < highWater'
  <2>1. highWater' \in Nat
    BY <1>10, EventLogsAssumption
  <2> QED
    BY <1>1, <1>7, <2>1, HighestIsKnown, EventLogsAssumption
<1>12. TypeOK'
  BY <1>1, <1>2, <1>6, <1>10, <1>11 DEF TypeOK
<1>13. IdsAreEmitted'
  BY <1>6 DEF IdsAreEmitted
<1>14. OneIdentity'
  <2> SUFFICES ASSUME NEW l \in Line, emitted'[l] = 1 PROVE <<0, l>> \in ids'
    BY <1>1 DEF OneIdentity
  <2>1. CASE emitted[l] = 1
    BY <1>1, <1>6, <2>1 DEF IInv, OneIdentity
  <2>2. CASE \E e \in read : e.line = l
    BY <1>3, <1>6, <2>2
  <2> QED
    BY <1>6, <2>1, <2>2
<1>15. MarksAreShown'
  BY <1>1, <1>8, <1>10, <1>11 DEF MarksAreShown
<1>16. NoneSkipped'
  <2> SUFFICES ASSUME Consistent, NEW f \in shown, emitted'[f] = 0 PROVE f[1] >= cursor'
    BY <1>1 DEF NoneSkipped, NothingIsSkipped, OverlapAvoidsGaps
  <2>1. f \in Line /\ f[1] \in Nat /\ f[2] \in 1..MaxSecond /\ cursor \in Nat /\ cursor' \in Nat
    BY <1>2, <1>11, EventLogsAssumption DEF TypeOK, Line
  <2>2. emitted[f] # 1 /\ ~ \E e \in read : e.line = f
    BY <1>6, <2>1
  <2>3. emitted[f] = 0
    BY <1>2, <2>1, <2>2 DEF TypeOK
  <2>4. f[1] >= cursor
    BY <1>1, <2>3 DEF IInv, NoneSkipped, NothingIsSkipped, OverlapAvoidsGaps
  <2>5. f \notin exposed
    <3> SUFFICES ASSUME f \in exposed PROVE \E e \in read : e.line = f
      BY <2>2
    <3> DEFINE e == [id |-> <<0, f>>, line |-> f]
    <3>1. at \in Nat
      BY <1>2, EventLogsAssumption DEF TypeOK
    <3>2. CASE at <= f[2]
      <4>1. cursor <= f[1]
        BY <2>1, <2>4
      <4>2. e \in out
        BY <1>1, <3>2, <4>1 DEF IInv, ReadDownTo
      <4> QED
        BY <4>2 DEF read
    <3>3. CASE f[2] < at
      <4>1. e \in PageOf(1)
        BY <1>2, <2>1, <2>4, <3>3, PageIsExact
      <4> QED
        BY <4>1 DEF read
    <3> QED
      BY <2>1, <3>1, <3>2, <3>3
  <2> SUFFICES ASSUME f[1] < cursor' PROVE FALSE
    BY <2>1
  <2>6. cursor' # 0 /\ cursor' < highWater' /\ highWater' # 0
    BY <1>10, <1>11, <2>1
  <2>7. PICK g \in exposed : g[1] = cursor'
    BY <1>9, <1>11, <2>6
  <2>8. PICK h \in exposed : h[1] = highWater'
    BY <1>9, <1>10, <2>6
  <2> QED
    BY <1>1, <2>5, <2>6, <2>7, <2>8 DEF IInv, BlindAreNear
<1>17. BlindAreNear' /\ ReadIsExposed' /\ ReadDownTo' /\ TokensAreExact' /\ ReadUpTo'
  BY <1>1 DEF BlindAreNear, ReadIsExposed, ReadDownTo, TokensAreExact, ReadUpTo
<1> QED
  BY <1>12, <1>13, <1>14, <1>15, <1>16, <1>17 DEF IInv

LEMMA StreamsBeginStep == ASSUME IInv, StreamsBegin PROVE IInv'
<1> USE DEF StreamsBegin, checkpoints
<1>1. TypeOK'
  BY DEF IInv, TypeOK
<1>2. IdsAreEmitted' /\ MarksAreShown' /\ TokensAreExact' /\ NoneSkipped'
  BY DEF IInv, IdsAreEmitted, MarksAreShown, TokensAreExact,
                                NoneSkipped, NothingIsSkipped, OverlapAvoidsGaps
<1>3. OneIdentity' /\ BlindAreNear' /\ ReadIsExposed' /\ ReadDownTo'
  BY DEF IInv, OneIdentity, BlindAreNear, ReadIsExposed, ReadDownTo
<1>4. ReadUpTo'
  <2>1. \A s \in Stream : tokens[s] \in Nat
    BY EventLogsAssumption DEF IInv, TypeOK
  <2>2. \A l \in Line : l[1] \in Stream /\ l[2] \in Nat
    BY EventLogsAssumption DEF Line, Stream
  <2> QED
    BY <2>1, <2>2 DEF ReadUpTo
<1> QED
  BY <1>1, <1>2, <1>3, <1>4 DEF IInv

\* A page of a stream carries its copy of the token over the lines it reads.
LEMMA StreamPageStep == ASSUME IInv, NEW s \in Stream, StreamPage(s) PROVE IInv'
<1> DEFINE E(p) == [id |-> <<next[s], <<s, p>>>>, line |-> <<s, p>>]
<1>1. PICK last \in next[s]..Length(s) :
          /\ out' = out \cup {E(p) : p \in next[s] + 1..last}
          /\ next' = [next EXCEPT ![s] = last]
  BY DEF StreamPage
<1>2. /\ UNCHANGED <<provider, shown, cursor, highWater, tokens, ids, emitted, pc, exposed, at, todo>>
      /\ pc = "streams"
  BY DEF StreamPage, checkpoints
<1>3. /\ next[s] \in 0..MaxSecond /\ last \in next[s]..MaxSecond /\ next'[s] = last
      /\ \A t \in Stream : /\ t # s => next'[t] = next[t]
                           /\ next[t] \in Nat /\ tokens[t] \in Nat
                           /\ tokens[t] <= next[t]
  <2>1. /\ next \in [Stream -> 0..MaxSecond] /\ tokens \in [Stream -> 0..MaxSecond]
        /\ \A t \in Stream : tokens[t] <= next[t]
    BY <1>2 DEF IInv, TypeOK, ReadUpTo
  <2>2. Length(s) \in 0..MaxSecond /\ next[s] \in 0..MaxSecond
    BY <2>1, LengthBounds
  <2>3. last \in next[s]..MaxSecond
    BY <1>1, <2>2, EventLogsAssumption
  <2> QED
    BY <1>1, <2>1, <2>2, <2>3, EventLogsAssumption
<1>4. \A p \in next[s] + 1..last :
          /\ E(p) \in Entry /\ E(p).line = <<s, p>> /\ E(p).id[2] = E(p).line /\ p \in Nat
  BY <1>3, EventLogsAssumption DEF Entry, Line, Stream
<1> HIDE DEF E
<1>5. TypeOK'
  <2>1. out' \subseteq Entry
    BY <1>1, <1>4 DEF IInv, TypeOK
  <2>2. next' \in [Stream -> 0..MaxSecond]
    BY <1>1, <1>3, EventLogsAssumption DEF IInv, TypeOK
  <2> QED
    BY <1>2, <2>1, <2>2 DEF IInv, TypeOK
<1>6. IdsAreEmitted' /\ MarksAreShown' /\ TokensAreExact' /\ NoneSkipped'
  BY <1>2 DEF IInv, IdsAreEmitted, MarksAreShown, TokensAreExact,
                                NoneSkipped, NothingIsSkipped, OverlapAvoidsGaps
<1>7. OneIdentity' /\ BlindAreNear' /\ ReadIsExposed' /\ ReadDownTo'
  BY <1>2 DEF IInv, OneIdentity, BlindAreNear, ReadIsExposed, ReadDownTo
<1>8. ReadUpTo'
  <2>1. ASSUME NEW e \in out'
        PROVE  /\ e.id[2] = e.line
               /\ tokens[e.line[1]] < e.line[2] /\ e.line[2] <= next'[e.line[1]]
    <3>1. CASE e \in out
      <4>1. /\ e.id[2] = e.line /\ tokens[e.line[1]] < e.line[2] /\ e.line[2] <= next[e.line[1]]
        BY <1>2, <3>1 DEF IInv, ReadUpTo
      <4>2. e.line[1] \in Stream /\ e.line[2] \in Nat
        BY <3>1, EventLogsAssumption DEF IInv, TypeOK, Entry, Line, Stream
      <4>3. CASE e.line[1] = s
        BY <1>3, <4>1, <4>2, <4>3
      <4>4. CASE e.line[1] # s
        BY <1>3, <4>1, <4>2, <4>4
      <4> QED
        BY <4>3, <4>4
    <3>2. CASE e \notin out
      <4>1. PICK p \in next[s] + 1..last : e = E(p)
        BY <1>1, <3>2
      <4> QED
        BY <1>3, <1>4, <4>1
    <3> QED
      BY <3>1, <3>2
  <2>2. ASSUME NEW l \in Line, tokens[l[1]] < l[2], l[2] <= next'[l[1]]
        PROVE  \E e \in out' : e.line = l
    <3>1. l[1] \in Stream /\ l[2] \in Nat /\ l = <<l[1], l[2]>>
      BY EventLogsAssumption DEF Line, Stream
    <3>2. CASE l[2] <= next[l[1]]
      BY <1>1, <1>2, <2>2, <3>2 DEF IInv, ReadUpTo
    <3>3. CASE ~(l[2] <= next[l[1]])
      <4>1. l[1] = s /\ l[2] \in next[s] + 1..last
        BY <1>3, <2>2, <3>1, <3>3
      <4> QED
        BY <1>1, <1>4, <3>1, <4>1
    <3> QED
      BY <3>2, <3>3
  <2>3. \A t \in Stream : tokens[t] <= next'[t]
    BY <1>3
  <2> QED
    BY <1>2, <2>1, <2>2, <2>3 DEF ReadUpTo
<1> QED
  BY <1>5, <1>6, <1>7, <1>8 DEF IInv

LEMMA StreamConvergesStep == ASSUME IInv, NEW s \in Stream, StreamConverges(s) PROVE IInv'
<1> USE DEF StreamConverges, checkpoints
<1>1. TypeOK'
  BY DEF IInv, TypeOK
<1>2. IdsAreEmitted' /\ MarksAreShown' /\ TokensAreExact' /\ NoneSkipped'
  BY DEF IInv, IdsAreEmitted, MarksAreShown, TokensAreExact,
                                NoneSkipped, NothingIsSkipped, OverlapAvoidsGaps
<1>3. OneIdentity' /\ BlindAreNear' /\ ReadIsExposed' /\ ReadDownTo' /\ ReadUpTo'
  BY DEF IInv, OneIdentity, BlindAreNear, ReadIsExposed, ReadDownTo, ReadUpTo
<1> QED
  BY <1>1, <1>2, <1>3 DEF IInv

\* The tokens move to the copies, over the lines the poll has read.
LEMMA StreamsEndStep == ASSUME IInv, StreamsEnd PROVE IInv'
<1>1. /\ pc = "streams" /\ pc' = "idle" /\ provider = "aws" /\ tokens' = next /\ MergeLogs(out)
      /\ UNCHANGED <<provider, shown, cursor, highWater, out, exposed, at, next, todo, page>>
  BY DEF StreamsEnd, poll, IInv, TypeOK
<1>2. TypeOK /\ IdsAreEmitted
  BY DEF IInv
<1>3. ASSUME NEW e \in out
      PROVE  e.id[2] = e.line /\ (e.id \notin ids => emitted[e.line] = 0)
  <2>1. e.id[2] = e.line /\ tokens[e.line[1]] < e.line[2]
    BY <1>1 DEF IInv, ReadUpTo
  <2>2. e.line \in Line /\ e.line[2] \in Nat /\ tokens[e.line[1]] \in Nat
    BY <1>2, EventLogsAssumption DEF TypeOK, Entry, Line, Stream
  <2>3. emitted[e.line] # 1 /\ emitted[e.line] \in {0, 1}
    BY <1>1, <1>2, <2>1, <2>2 DEF IInv, TokensAreExact, TypeOK
  <2> QED
    BY <2>1, <2>3
<1>4. /\ ids' \subseteq Nat \X Line /\ emitted' \in [Line -> {0, 1}]
      /\ \A l \in Line : emitted'[l] = 1 <=> emitted[l] = 1 \/ \E e \in out : e.line = l
      /\ \A i \in ids' : emitted'[i[2]] = 1
  <2>1. out \in SUBSET Entry
    BY <1>2 DEF TypeOK
  <2> QED
    BY <1>1, <1>2, <1>3, <2>1, Merged
<1>5. TypeOK'
  BY <1>1, <1>2, <1>4 DEF TypeOK
<1>6. IdsAreEmitted'
  BY <1>4 DEF IdsAreEmitted
<1>7. TokensAreExact'
  <2> SUFFICES ASSUME NEW l \in Line PROVE emitted'[l] = 1 <=> l[2] <= next[l[1]]
    BY <1>1 DEF TokensAreExact
  <2>1. /\ l[2] \in Nat /\ tokens[l[1]] \in Nat /\ next[l[1]] \in Nat
        /\ tokens[l[1]] <= next[l[1]]
    BY <1>1, <1>2, EventLogsAssumption DEF IInv, TypeOK, ReadUpTo, Line, Stream
  <2>2. emitted[l] = 1 <=> l[2] <= tokens[l[1]]
    BY <1>1 DEF IInv, TokensAreExact
  <2>3. (\E e \in out : e.line = l) <=> tokens[l[1]] < l[2] /\ l[2] <= next[l[1]]
    BY <1>1 DEF IInv, ReadUpTo
  <2> QED
    BY <1>4, <2>1, <2>2, <2>3
<1>8. NoneSkipped'
  <2> SUFFICES ASSUME NEW l \in shown, emitted'[l] = 0 PROVE l[2] > next[l[1]]
    BY <1>1 DEF NoneSkipped, NothingIsSkipped, OverlapAvoidsGaps
  <2>1. l \in Line /\ l[2] \in Nat /\ next[l[1]] \in Nat
    BY <1>2, EventLogsAssumption DEF TypeOK, Line, Stream
  <2> QED
    BY <1>1, <1>7, <2>1 DEF TokensAreExact
<1>9. /\ OneIdentity' /\ MarksAreShown' /\ BlindAreNear' /\ ReadIsExposed' /\ ReadDownTo'
      /\ ReadUpTo'
  BY <1>1 DEF IInv, OneIdentity, MarksAreShown, BlindAreNear, ReadIsExposed, ReadDownTo, ReadUpTo
<1> QED
  BY <1>5, <1>6, <1>7, <1>8, <1>9 DEF IInv

LEMMA InvariantNext == IInv /\ [Next]_vars => IInv'
<1> SUFFICES ASSUME IInv, [Next]_vars PROVE IInv'
  OBVIOUS
<1>1. ASSUME NEW l \in Line, Show(l) PROVE IInv'
  BY <1>1, ShowStep
<1>2. ASSUME Poll PROVE IInv'
  BY <1>2, ListBeginsStep, ListPageStep, ListEndsStep, StreamsBeginStep, StreamPageStep,
     StreamConvergesStep, StreamsEndStep, PollFailsStep DEF Poll
<1>3. CASE UNCHANGED vars
  BY <1>3 DEF vars, checkpoints, poll, IInv, TypeOK, IdsAreEmitted, OneIdentity, MarksAreShown,
              BlindAreNear, ReadIsExposed, ReadDownTo, TokensAreExact, ReadUpTo,
              NoneSkipped, NothingIsSkipped, OverlapAvoidsGaps
<1> QED
  BY <1>1, <1>2, <1>3 DEF Next

THEOREM Invariant == Spec => []IInv
<1> QED
  BY InvariantInit, InvariantNext, PTL DEF Spec
-----------------------------------------------------------------------------
(* What follows for the lines of a job.                                    *)

\* Polls that fail at any page, lines that arrive while pages are read and GCP
\* entries shown late by one receive time lose nothing: what was not handed on
\* is ahead of the checkpoint of logs().  It holds for AWS as it stands, for
\* GCP if the pages of one entries:list agree on what is listed.
THEOREM NothingSkipped == Spec => [](Consistent \/ provider = "aws" => NothingIsSkipped)
<1>1. IInv => (Consistent \/ provider = "aws" => NothingIsSkipped)
  BY DEF IInv, NoneSkipped
<1> QED
  BY <1>1, Invariant, PTL

\* Although the polls overlap, merge_logs() hands every line on once.
THEOREM AtMostOnce == Spec => []NothingTwice
<1>1. IInv => NothingTwice
  BY DEF IInv, TypeOK, NothingTwice
<1> QED
  BY <1>1, Invariant, PTL
=============================================================================
