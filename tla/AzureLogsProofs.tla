--------------------------- MODULE AzureLogsProofs ---------------------------
(***************************************************************************)
(* What AzureLogs promises of the lines of a task's output, for files of   *)
(* any length, ranges and limits of any size, any number of attempts and   *)
(* any course of polls.  Both the checkpoints with the cache and, during a *)
(* poll, the copies with the cache and the lines so far satisfy one        *)
(* invariant; a range that is read takes the second pair a step further.   *)
(***************************************************************************)
EXTENDS AzureLogs, SequenceTheorems, WellFoundedInduction, TLAPS

\* Checkpoints, and lines in the cache.
Checkpoints == [offset : [Attempt -> [Stream -> Nat]], tail : [Attempt -> [Stream -> Seq(Byte)]],
                tailAt : [Attempt -> [Stream -> Nat]],
                active : 0..MaxAttempts, generation : Nat]
Entry == [epoch : Attempt, stream : Stream, at : Nat, text : Seq(Byte), generation : Nat]

\* The types of the variables, without bounds on checkpoints and lines.
Types == /\ file \in [Attempt -> [Stream -> Seq(Byte)]]
         /\ \A a \in Attempt, s \in Stream : Len(file[a][s]) <= Size(s)
         /\ attempt \in Attempt /\ over \in BOOLEAN
         /\ log \in Checkpoints /\ work \in Checkpoints /\ cache \subseteq Entry /\ out \subseteq Entry
         /\ pc \in {"idle", "head", "get"} /\ epoch \in Attempt /\ final \in BOOLEAN
         /\ stream \in Stream /\ length \in 0..Size(stream)

\* A poll works on the epoch it has seen, which is the attempt that runs or one
\* that ended since.
Placed == /\ log.active <= attempt
          /\ pc = "idle" => work = log /\ out = {}
          /\ pc # "idle" => /\ work.active = epoch /\ epoch <= attempt
                            /\ epoch = attempt \/ epoch \in raced
                            /\ final => over

\* Lines of the active epoch have the present generation, older ones a smaller.
Ordered(c, L) ==
    /\ c.generation <= c.active
    /\ \A l \in L : /\ l.epoch <= c.active
                    /\ l.epoch = c.active => l.generation = c.generation
                    /\ l.epoch < c.active => l.generation < c.generation
    /\ \A k, l \in L : k.epoch < l.epoch => k.generation < l.generation

\* The inductive invariant, whatever the service makes of ranges.
IInv == Types /\ Placed /\ Ordered(log, cache) /\ Ordered(work, cache \cup out)
-----------------------------------------------------------------------------
(* What holds when the service honours ranges.                             *)

\* Checkpoints and lines stay within the file, and a tail ends at the offset.
Within(c, L) ==
    /\ \A a \in Attempt, s \in Stream :
           /\ c.offset[a][s] <= Size(s) /\ c.tailAt[a][s] <= Size(s) /\ Len(c.tail[a][s]) <= LineLimit
           /\ c.tail[a][s] # <<>> => c.tailAt[a][s] + Len(c.tail[a][s]) = c.offset[a][s]
           /\ a # c.active => c.tail[a][s] = <<>>
    /\ \A l \in L : l.at + Len(l.text) <= Size(l.stream)

\* The lines told of one file f: those of what was read of it, the last of them
\* held back as a tail, or told as it is.
Told(L, a, s) == {<<l.at, l.text>> : l \in {k \in L : k.epoch = a /\ k.stream = s}}
LinesOf(b, tail) == Lines(b) \cup IF Rest(b) = tail THEN {} ELSE {<<Cut(b), Rest(b)>>}
Read(f, offset) == SubSeq(f, 1, offset)
\* Checkpoints and lines follow a file: the lines told are those of the bytes
\* read, and a tail is what stands behind them.
Follows(f, offset, tail, tailAt, told) ==
    /\ offset <= Len(f)
    /\ told = LinesOf(Read(f, offset), tail)
    /\ tail # <<>> => tail = Rest(Read(f, offset)) /\ tailAt = Cut(Read(f, offset))
\* They do so for all files but those of attempts that a retry overtook; the
\* rest is held back unless the attempt is over and all of it was read.
Exact(c, L) ==
    \A a \in Attempt \ raced, s \in Stream :
        /\ Follows(file[a][s], c.offset[a][s], c.tail[a][s], c.tailAt[a][s], Told(L, a, s))
        /\ c.tail[a][s] # Rest(Read(file[a][s], c.offset[a][s])) =>
               a < c.active \/ (over /\ c.offset[a][s] = Len(file[a][s]))

\* The range that is asked for is there, up to the end of a file that is over.
Ranged == pc = "get" =>
    /\ work.offset[epoch][stream] < length
    /\ epoch \notin raced => /\ length <= Len(file[epoch][stream])
                             /\ final => length = Len(file[epoch][stream])

\* The second invariant, of checkpoints and of copies.
Accurate == /\ Within(log, cache) /\ Within(work, cache \cup out)
            /\ Exact(log, cache) /\ Exact(work, cache \cup out)
            /\ Ranged
-----------------------------------------------------------------------------
(* Cutting bytes into lines.                                               *)

\* A set of positions has a greatest member.
LEMMA Greatest ==
    ASSUME NEW n \in Nat, NEW T \in SUBSET (1..n), T # {}
    PROVE  \E x \in T : \A y \in T : y <= x
<1> DEFINE Below == {n - x : x \in T}
<1>1. Below \subseteq Nat /\ Below # {}
  <2>1. \A x \in T : n - x \in Nat
    OBVIOUS
  <2> QED
    BY <2>1
<1> HIDE DEF Below
<1>2. PICK m \in Below : \A k \in Below : ~(<<k, m>> \in OpToRel(<, Nat))
  BY <1>1, NatLessThanWellFounded, WFMin
<1>3. ASSUME NEW k \in Below PROVE m <= k
  <2>1. m \in Nat /\ k \in Nat /\ <<k, m>> \in Nat \X Nat
    BY <1>1
  <2>2. ~(k < m)
    BY <2>1, <1>2 DEF OpToRel
  <2> QED
    BY <2>1, <2>2
<1>4. PICK x \in T : m = n - x
  BY DEF Below
<1>5. ASSUME NEW y \in T PROVE y <= x
  <2>1. n - y \in Below
    BY DEF Below
  <2> QED
    BY <2>1, <1>3, <1>4
<1> QED
  BY <1>5

\* Cut is the place of the last line feed, or 0.
LEMMA CutIs ==
    ASSUME NEW b \in Seq(Byte)
    PROVE  /\ LineFeeds(b) \subseteq 1..Len(b)
           /\ Cut(b) \in 0..Len(b) /\ Cut(b) \in {0} \cup LineFeeds(b)
           /\ \A j \in LineFeeds(b) : j <= Cut(b)
<1>1. LineFeeds(b) \subseteq 1..Len(b) /\ Len(b) \in Nat
  BY DEF LineFeeds
<1>2. CASE LineFeeds(b) = {}
  BY <1>1, <1>2 DEF Cut
<1>3. CASE LineFeeds(b) # {}
  <2>1. \E x \in LineFeeds(b) : \A y \in LineFeeds(b) : y <= x
    BY <1>1, <1>3, Greatest
  <2>2. Cut(b) \in LineFeeds(b) /\ \A j \in LineFeeds(b) : j <= Cut(b)
    BY <2>1, <1>3 DEF Cut
  <2> QED
    BY <2>2, <1>1
<1> QED
  BY <1>2, <1>3

\* It is the only such number.
LEMMA CutOnly ==
    ASSUME NEW b \in Seq(Byte), NEW n \in {0} \cup LineFeeds(b),
           \A j \in LineFeeds(b) : j <= n
    PROVE  Cut(b) = n
<1>1. Cut(b) \in {0} \cup LineFeeds(b) /\ \A j \in LineFeeds(b) : j <= Cut(b) /\ j \in 1..Len(b)
  BY CutIs
<1>2. Len(b) \in Nat
  OBVIOUS
<1> QED
  BY <1>1, <1>2

\* Rest is what stands behind it, without a line feed.
LEMMA RestIs ==
    ASSUME NEW b \in Seq(Byte)
    PROVE  /\ Rest(b) \in Seq(Byte) /\ Len(Rest(b)) = Len(b) - Cut(b)
           /\ \A i \in 1..Len(Rest(b)) : Rest(b)[i] = b[Cut(b) + i]
           /\ LineFeeds(Rest(b)) = {} /\ Cut(Rest(b)) = 0 /\ Lines(Rest(b)) = {}
<1>1. Cut(b) \in 0..Len(b) /\ Len(b) \in Nat
  BY CutIs
<1>2. \A i \in Cut(b) + 1..Len(b) : b[i] \in Byte
  BY <1>1, ElementOfSeq
<1>3. /\ Rest(b) \in Seq(Byte) /\ Len(Rest(b)) = Len(b) - Cut(b)
      /\ \A i \in 1..Len(Rest(b)) : Rest(b)[i] = b[Cut(b) + i]
  <2>1. /\ Rest(b) \in Seq(Byte)
        /\ Len(Rest(b)) = IF Cut(b) + 1 <= Len(b) THEN Len(b) - (Cut(b) + 1) + 1 ELSE 0
        /\ \A i \in 1..Len(b) - (Cut(b) + 1) + 1 : Rest(b)[i] = b[Cut(b) + 1 + i - 1]
    BY <1>1, <1>2, SubSeqProperties DEF Rest
  <2>2. Len(Rest(b)) = Len(b) - Cut(b) /\ Len(b) - (Cut(b) + 1) + 1 = Len(b) - Cut(b)
    BY <2>1, <1>1
  <2>3. ASSUME NEW i \in 1..Len(Rest(b)) PROVE Rest(b)[i] = b[Cut(b) + i]
    <3>1. Cut(b) + 1 + i - 1 = Cut(b) + i
      BY <1>1
    <3> QED
      BY <2>1, <2>2, <3>1
  <2> QED
    BY <2>1, <2>2, <2>3
<1>4. LineFeeds(Rest(b)) = {}
  <2> SUFFICES ASSUME NEW i \in LineFeeds(Rest(b)) PROVE FALSE
    OBVIOUS
  <2>1. i \in 1..Len(Rest(b)) /\ Rest(b)[i] = "nl"
    BY DEF LineFeeds
  <2>2. Cut(b) + i \in LineFeeds(b)
    BY <2>1, <1>1, <1>3 DEF LineFeeds
  <2>3. Cut(b) + i <= Cut(b)
    BY <2>2, CutIs
  <2> QED
    BY <2>1, <2>3, <1>1, <1>3
<1> QED
  BY <1>3, <1>4 DEF Cut, Lines, Bounds

\* Two sequences joined: the line feeds of the second are moved.
LEMMA FeedsJoined ==
    ASSUME NEW p \in Seq(Byte), NEW q \in Seq(Byte)
    PROVE  /\ p \o q \in Seq(Byte) /\ Len(p \o q) = Len(p) + Len(q)
           /\ \A i \in 1..Len(p) : i \in LineFeeds(p \o q) <=> i \in LineFeeds(p)
           /\ \A i \in 1..Len(q) : Len(p) + i \in LineFeeds(p \o q) <=> i \in LineFeeds(q)
           /\ \A k \in LineFeeds(p \o q) : k \in LineFeeds(p) \/ k - Len(p) \in LineFeeds(q)
<1> DEFINE b == p \o q
<1>1. /\ b \in Seq(Byte) /\ Len(b) = Len(p) + Len(q)
      /\ \A i \in 1..Len(p) + Len(q) : b[i] = IF i <= Len(p) THEN p[i] ELSE q[i - Len(p)]
  BY ConcatProperties
<1>2. Len(p) \in Nat /\ Len(q) \in Nat
  OBVIOUS
<1> HIDE DEF b
<1>3. \A i \in 1..Len(p) : i \in LineFeeds(b) <=> i \in LineFeeds(p)
  BY <1>1, <1>2 DEF LineFeeds
<1>4. ASSUME NEW i \in 1..Len(q) PROVE Len(p) + i \in LineFeeds(b) <=> i \in LineFeeds(q)
  <2>1. Len(p) + i \in 1..Len(p) + Len(q) /\ ~(Len(p) + i <= Len(p)) /\ (Len(p) + i) - Len(p) = i
    BY <1>2
  <2>2. b[Len(p) + i] = q[i]
    BY <1>1, <2>1
  <2> QED
    BY <1>1, <2>1, <2>2 DEF LineFeeds
<1>5. ASSUME NEW k \in LineFeeds(b) PROVE k \in LineFeeds(p) \/ k - Len(p) \in LineFeeds(q)
  <2>1. k \in 1..Len(p) + Len(q) /\ b[k] = "nl"
    BY <1>1 DEF LineFeeds
  <2>2. CASE k <= Len(p)
    BY <2>1, <2>2, <1>2, <1>3
  <2>3. CASE ~(k <= Len(p))
    <3>1. k - Len(p) \in 1..Len(q) /\ q[k - Len(p)] = "nl"
      BY <1>1, <1>2, <2>1, <2>3
    <3> QED
      BY <3>1 DEF LineFeeds
  <2> QED
    BY <2>2, <2>3
<1> QED
  BY <1>1, <1>3, <1>4, <1>5 DEF b

\* Behind a line feed, or at the start, cutting begins anew.
LEMMA CutJoined ==
    ASSUME NEW p \in Seq(Byte), NEW q \in Seq(Byte), Cut(p) = Len(p)
    PROVE  Cut(p \o q) = Len(p) + Cut(q) /\ Rest(p \o q) = Rest(q)
<1> DEFINE b == p \o q
           n == Len(p) + Cut(q)
<1>1. /\ b \in Seq(Byte) /\ Len(b) = Len(p) + Len(q)
      /\ \A i \in 1..Len(p) : i \in LineFeeds(b) <=> i \in LineFeeds(p)
      /\ \A i \in 1..Len(q) : Len(p) + i \in LineFeeds(b) <=> i \in LineFeeds(q)
      /\ \A k \in LineFeeds(b) : k \in LineFeeds(p) \/ k - Len(p) \in LineFeeds(q)
  BY FeedsJoined
<1>2. /\ Len(p) \in Nat /\ Len(q) \in Nat
      /\ LineFeeds(p) \subseteq 1..Len(p) /\ LineFeeds(q) \subseteq 1..Len(q)
      /\ Len(p) \in {0} \cup LineFeeds(p) /\ Cut(q) \in 0..Len(q) /\ Cut(q) \in {0} \cup LineFeeds(q)
      /\ \A j \in LineFeeds(q) : j <= Cut(q)
  BY CutIs
<1> HIDE DEF b
<1>3. n \in {0} \cup LineFeeds(b)
  <2>1. CASE Cut(q) = 0
    <3>1. n = Len(p)
      BY <1>2, <2>1
    <3>2. Len(p) # 0 => Len(p) \in 1..Len(p)
      BY <1>2
    <3> QED
      BY <1>1, <1>2, <3>1, <3>2
  <2>2. CASE Cut(q) # 0
    BY <1>1, <1>2, <2>2
  <2> QED
    BY <2>1, <2>2
<1>4. ASSUME NEW k \in LineFeeds(b) PROVE k <= n
  <2>1. k \in 1..Len(b)
    BY <1>1, CutIs
  <2>2. CASE k \in LineFeeds(p)
    BY <1>2, <2>1, <2>2
  <2>3. CASE k - Len(p) \in LineFeeds(q)
    BY <1>2, <2>1, <2>3, <1>1
  <2> QED
    BY <1>1, <2>2, <2>3
<1>5. Cut(b) = n
  BY <1>1, <1>3, <1>4, CutOnly
<1>6. Rest(b) = Rest(q)
  <2>1. /\ Rest(b) \in Seq(Byte) /\ Len(Rest(b)) = Len(b) - Cut(b)
        /\ \A i \in 1..Len(Rest(b)) : Rest(b)[i] = b[Cut(b) + i]
    BY <1>1, RestIs
  <2>2. /\ Rest(q) \in Seq(Byte) /\ Len(Rest(q)) = Len(q) - Cut(q)
        /\ \A i \in 1..Len(Rest(q)) : Rest(q)[i] = q[Cut(q) + i]
    BY RestIs
  <2>3. Len(Rest(b)) = Len(Rest(q))
    BY <2>1, <2>2, <1>1, <1>2, <1>5
  <2>4. ASSUME NEW i \in 1..Len(Rest(b)) PROVE Rest(b)[i] = Rest(q)[i]
    <3>1. /\ Cut(b) + i = Len(p) + (Cut(q) + i) /\ Cut(q) + i \in 1..Len(q)
          /\ Cut(b) + i \in 1..Len(p) + Len(q) /\ ~(Cut(b) + i <= Len(p))
          /\ (Cut(b) + i) - Len(p) = Cut(q) + i
      <4>1. i \in 1..Len(q) - Cut(q) /\ Cut(b) = Len(p) + Cut(q)
        BY <1>5, <2>2, <2>3
      <4>2. Len(p) \in Nat /\ Len(q) \in Nat /\ Cut(q) \in Nat
        BY <1>2
      <4>3. i \in Nat /\ 1 <= i /\ i <= Len(q) - Cut(q)
        BY <4>1, <4>2
      <4> QED
        BY <4>1, <4>2, <4>3
    <3>2. b[Cut(b) + i] = q[Cut(q) + i]
      BY <3>1, ConcatProperties DEF b
    <3> QED
      BY <2>1, <2>2, <2>3, <3>2
  <2> QED
    BY <2>1, <2>2, <2>3, <2>4, SeqEqual
<1> QED
  BY <1>5, <1>6 DEF b

\* A line is the same in a sequence and where that is part of another.
LEMMA SameText ==
    ASSUME NEW b \in Seq(Byte), NEW c \in Seq(Byte), NEW d \in Nat, d + Len(c) <= Len(b),
           \A k \in 1..Len(c) : b[d + k] = c[k],
           NEW i \in Nat, NEW j \in Nat, i < j, j <= Len(c) + 1
    PROVE  /\ SubSeq(b, d + i + 1, d + j - 1) = SubSeq(c, i + 1, j - 1)
           /\ SubSeq(c, i + 1, j - 1) \in Seq(Byte) /\ Len(SubSeq(c, i + 1, j - 1)) = j - i - 1
<1> DEFINE s == SubSeq(b, d + i + 1, d + j - 1)
           t == SubSeq(c, i + 1, j - 1)
<1>1. Len(b) \in Nat /\ Len(c) \in Nat
  OBVIOUS
<1>2. /\ d + i + 1 \in Int /\ d + j - 1 \in Int /\ i + 1 \in Int /\ j - 1 \in Int
      /\ (d + j - 1) - (d + i + 1) + 1 = j - i - 1 /\ (j - 1) - (i + 1) + 1 = j - i - 1
      /\ ~(i + 1 <= j - 1) => j - i - 1 = 0
      /\ (d + i + 1 <= d + j - 1) <=> (i + 1 <= j - 1)
  OBVIOUS
<1>3. \A k \in i + 1..j - 1 : k \in 1..Len(c) /\ c[k] \in Byte
  <2> SUFFICES ASSUME NEW k \in i + 1..j - 1 PROVE k \in 1..Len(c) /\ c[k] \in Byte
    OBVIOUS
  <2>1. k \in 1..Len(c)
    BY <1>1
  <2> QED
    BY <2>1, ElementOfSeq
<1>4. \A k \in d + i + 1..d + j - 1 : b[k] \in Byte
  <2> SUFFICES ASSUME NEW k \in d + i + 1..d + j - 1 PROVE b[k] \in Byte
    OBVIOUS
  <2>1. k \in 1..Len(b)
    BY <1>1
  <2> QED
    BY <2>1, ElementOfSeq
<1>5. /\ t \in Seq(Byte) /\ Len(t) = j - i - 1
      /\ \A k \in 1..j - i - 1 : t[k] = c[i + 1 + k - 1]
  <2>1. /\ t \in Seq(Byte) /\ Len(t) = IF i + 1 <= j - 1 THEN (j - 1) - (i + 1) + 1 ELSE 0
        /\ \A k \in 1..(j - 1) - (i + 1) + 1 : t[k] = c[i + 1 + k - 1]
    BY <1>2, <1>3, SubSeqProperties
  <2> QED
    BY <2>1, <1>2
<1>6. /\ s \in Seq(Byte) /\ Len(s) = j - i - 1
      /\ \A k \in 1..j - i - 1 : s[k] = b[d + i + 1 + k - 1]
  <2>1. /\ s \in Seq(Byte)
        /\ Len(s) = IF d + i + 1 <= d + j - 1 THEN (d + j - 1) - (d + i + 1) + 1 ELSE 0
        /\ \A k \in 1..(d + j - 1) - (d + i + 1) + 1 : s[k] = b[d + i + 1 + k - 1]
    BY <1>2, <1>4, SubSeqProperties
  <2> QED
    BY <2>1, <1>2
<1> HIDE DEF s, t
<1>7. ASSUME NEW k \in 1..j - i - 1 PROVE s[k] = t[k]
  <2>1. i + 1 + k - 1 = i + k /\ d + i + 1 + k - 1 = d + (i + k) /\ i + k \in 1..Len(c)
    BY <1>1
  <2>2. b[d + (i + k)] = c[i + k]
    BY <2>1
  <2> QED
    BY <2>1, <2>2, <1>5, <1>6
<1>8. s = t
  BY <1>5, <1>6, <1>7, SeqEqual
<1> QED
  BY <1>5, <1>8 DEF s, t

\* Where a line begins and ends.
LEMMA BoundsAre ==
    ASSUME NEW b \in Seq(Byte), NEW w \in Bounds(b)
    PROVE  /\ w[1] \in {0} \cup LineFeeds(b) /\ w[2] \in LineFeeds(b)
           /\ w[1] \in Nat /\ w[2] \in 1..Len(b) /\ w[1] < w[2] /\ w[2] <= Cut(b)
           /\ \A k \in LineFeeds(b) : k <= w[1] \/ k >= w[2]
<1>1. LineFeeds(b) \subseteq 1..Len(b) /\ Len(b) \in Nat /\ \A j \in LineFeeds(b) : j <= Cut(b)
  BY CutIs
<1> QED
  BY <1>1 DEF Bounds

\* A terminated line starts and ends before the cut.
LEMMA LinesAre ==
    ASSUME NEW b \in Seq(Byte), NEW l \in Lines(b)
    PROVE  /\ l = <<l[1], l[2]>> /\ l[1] \in Nat /\ l[2] \in Seq(Byte)
           /\ l[1] + Len(l[2]) < Cut(b)
<1>1. PICK w \in Bounds(b) : l = <<w[1], SubSeq(b, w[1] + 1, w[2] - 1)>>
  BY DEF Lines
<1> DEFINE t == SubSeq(b, w[1] + 1, w[2] - 1)
<1>2. w[1] \in Nat /\ w[2] \in 1..Len(b) /\ w[1] < w[2] /\ w[2] <= Cut(b) /\ Cut(b) \in 0..Len(b)
  BY BoundsAre, CutIs
<1>3. Len(b) \in Nat /\ \A k \in 1..Len(b) : b[0 + k] = b[k]
  OBVIOUS
<1>4. t \in Seq(Byte) /\ Len(t) = w[2] - w[1] - 1
  BY <1>2, <1>3, SameText
<1>5. l[1] = w[1] /\ l[2] = t /\ l = <<l[1], l[2]>>
  BY <1>1
<1> HIDE DEF t
<1>6. w[1] + Len(t) < Cut(b)
  BY <1>2, <1>4
<1> QED
  BY <1>2, <1>4, <1>5, <1>6

\* One line only starts at a place.
LEMMA OneLineAt ==
    ASSUME NEW b \in Seq(Byte), NEW k \in Lines(b), NEW l \in Lines(b), k[1] = l[1]
    PROVE  k = l
<1>1. PICK v \in Bounds(b) : k = <<v[1], SubSeq(b, v[1] + 1, v[2] - 1)>>
  BY DEF Lines
<1>2. PICK w \in Bounds(b) : l = <<w[1], SubSeq(b, w[1] + 1, w[2] - 1)>>
  BY DEF Lines
<1>3. /\ v[2] \in LineFeeds(b) /\ v[2] \in 1..Len(b) /\ v[1] < v[2] /\ v[1] \in Nat
      /\ \A n \in LineFeeds(b) : n <= v[1] \/ n >= v[2]
  BY BoundsAre
<1>4. /\ w[2] \in LineFeeds(b) /\ w[2] \in 1..Len(b) /\ w[1] < w[2] /\ w[1] \in Nat
      /\ \A n \in LineFeeds(b) : n <= w[1] \/ n >= w[2]
  BY BoundsAre
<1>5. v[1] = w[1]
  BY <1>1, <1>2
<1>6. v[2] = w[2]
  BY <1>3, <1>4, <1>5
<1> QED
  BY <1>1, <1>2, <1>5, <1>6

\* What stands between the bounds of a line is that line.
LEMMA LineIn ==
    ASSUME NEW b, NEW i, NEW j, <<i, j>> \in Bounds(b)
    PROVE  <<i, SubSeq(b, i + 1, j - 1)>> \in Lines(b)
<1>1. PICK w \in Bounds(b) : w[1] = i /\ w[2] = j
  OBVIOUS
<1>2. <<w[1], SubSeq(b, w[1] + 1, w[2] - 1)>> \in Lines(b)
  BY DEF Lines
<1> QED
  BY <1>1, <1>2

\* Lines that start further on.
Moved(d, lines) == {<<d + l[1], l[2]>> : l \in lines}

\* The lines of joined sequences, the first of which ends with a line feed.
LEMMA LinesJoined ==
    ASSUME NEW p \in Seq(Byte), NEW q \in Seq(Byte), Cut(p) = Len(p)
    PROVE  Lines(p \o q) = Lines(p) \cup Moved(Len(p), Lines(q))
<1> DEFINE b == p \o q
           d == Len(p)
<1>1. /\ b \in Seq(Byte) /\ Len(b) = d + Len(q)
      /\ \A i \in 1..d : i \in LineFeeds(b) <=> i \in LineFeeds(p)
      /\ \A i \in 1..Len(q) : d + i \in LineFeeds(b) <=> i \in LineFeeds(q)
      /\ \A k \in LineFeeds(b) : k \in LineFeeds(p) \/ k - d \in LineFeeds(q)
  BY FeedsJoined
<1>2. /\ \A i \in 1..d : b[0 + i] = p[i]
      /\ \A i \in 1..Len(q) : b[d + i] = q[i]
  <2>1. /\ \A i \in 1..d + Len(q) : b[i] = IF i <= d THEN p[i] ELSE q[i - d]
        /\ d \in Nat /\ Len(q) \in Nat
    BY ConcatProperties
  <2>2. ASSUME NEW i \in 1..d PROVE b[0 + i] = p[i]
    <3>1. 0 + i = i /\ i \in 1..d + Len(q) /\ i <= d
      BY <2>1
    <3> QED
      BY <2>1, <3>1
  <2>3. ASSUME NEW i \in 1..Len(q) PROVE b[d + i] = q[i]
    <3>1. d + i \in 1..d + Len(q) /\ ~(d + i <= d) /\ (d + i) - d = i
      BY <2>1
    <3> QED
      BY <2>1, <3>1
  <2> QED
    BY <2>2, <2>3
<1>3. /\ d \in Nat /\ Len(q) \in Nat /\ d \in {0} \cup LineFeeds(p)
      /\ LineFeeds(p) \subseteq 1..d /\ LineFeeds(q) \subseteq 1..Len(q) /\ LineFeeds(b) \subseteq 1..Len(b)
      /\ 0 + d <= Len(b) /\ d + Len(q) <= Len(b)
  <2>1. d \in Nat /\ Len(q) \in Nat /\ d \in {0} \cup LineFeeds(p) /\ LineFeeds(p) \subseteq 1..d
    BY CutIs
  <2>2. LineFeeds(q) \subseteq 1..Len(q) /\ LineFeeds(b) \subseteq 1..Len(b)
    BY <1>1, CutIs
  <2>3. 0 + d <= Len(b) /\ d + Len(q) <= Len(b)
    BY <1>1, <2>1
  <2> QED
    BY <2>1, <2>2, <2>3
<1> HIDE DEF b, d
<1>4. d \in {0} \cup LineFeeds(b)
  <2>1. d # 0 => d \in 1..d
    BY <1>3
  <2> QED
    BY <1>1, <1>3, <2>1
<1>5. ASSUME NEW i \in Nat, NEW j \in LineFeeds(p), i < j
      PROVE  SubSeq(b, i + 1, j - 1) = SubSeq(p, i + 1, j - 1)
  <2>1. j \in Nat /\ j <= d + 1 /\ 0 + i + 1 = i + 1 /\ 0 + j - 1 = j - 1 /\ 0 \in Nat
    BY <1>3
  <2>2. /\ \A k \in 1..Len(p) : b[0 + k] = p[k]
        /\ 0 + Len(p) <= Len(b) /\ j <= Len(p) + 1 /\ b \in Seq(Byte)
    BY <1>1, <1>2, <1>3, <2>1 DEF d
  <2>3. SubSeq(b, 0 + i + 1, 0 + j - 1) = SubSeq(p, i + 1, j - 1)
    BY <2>1, <2>2, SameText
  <2> QED
    BY <2>1, <2>3
<1>6. ASSUME NEW i \in Nat, NEW j \in LineFeeds(q), i < j
      PROVE  SubSeq(b, (d + i) + 1, (d + j) - 1) = SubSeq(q, i + 1, j - 1)
  <2>1. j \in Nat /\ j <= Len(q) + 1
    BY <1>3
  <2>2. b \in Seq(Byte) /\ d \in Nat /\ d + Len(q) <= Len(b) /\ \A k \in 1..Len(q) : b[d + k] = q[k]
    BY <1>1, <1>2, <1>3
  <2> QED
    BY <2>1, <2>2, SameText
<1>7. ASSUME NEW l \in Lines(b) PROVE l \in Lines(p) \cup Moved(d, Lines(q))
  <2>1. PICK w \in Bounds(b) : l = <<w[1], SubSeq(b, w[1] + 1, w[2] - 1)>>
    BY DEF Lines
  <2>2. /\ w[1] \in {0} \cup LineFeeds(b) /\ w[2] \in LineFeeds(b)
        /\ w[1] \in Nat /\ w[2] \in 1..Len(b) /\ w[1] < w[2]
        /\ \A k \in LineFeeds(b) : k <= w[1] \/ k >= w[2]
    BY <1>1, BoundsAre
  <2>3. CASE w[2] <= d
    <3>1. w[2] \in LineFeeds(p) /\ w[1] \in {0} \cup LineFeeds(p)
      <4>1. w[2] \in 1..d /\ (w[1] # 0 => w[1] \in 1..d)
        BY <2>2, <2>3, <1>3
      <4> QED
        BY <4>1, <2>2, <1>1
    <3>2. ASSUME NEW k \in LineFeeds(p) PROVE k <= w[1] \/ k >= w[2]
      BY <1>1, <1>3, <2>2
    <3>3. <<w[1], w[2]>> \in Bounds(p)
      BY <3>1, <3>2, <2>2 DEF Bounds
    <3>4. l = <<w[1], SubSeq(p, w[1] + 1, w[2] - 1)>>
      BY <1>5, <2>1, <2>2, <3>1
    <3> QED
      BY <3>3, <3>4, LineIn
  <2>4. CASE ~(w[2] <= d)
    <3> DEFINE i == w[1] - d
               j == w[2] - d
    <3>1. w[1] >= d
      <4>1. d # 0 => d <= w[1] \/ d >= w[2]
        BY <1>4, <2>2
      <4> QED
        BY <4>1, <2>2, <2>4, <1>3
    <3>2. i \in Nat /\ j \in 1..Len(q) /\ i < j /\ d + i = w[1] /\ d + j = w[2]
      <4>1. w[1] \in Nat /\ w[2] \in Nat /\ w[2] <= d + Len(q) /\ w[1] < w[2] /\ w[2] > d
        <5>1. d \in Nat /\ Len(q) \in Nat /\ Len(b) = d + Len(q)
          BY <1>1, <1>3
        <5>2. w[1] \in Nat /\ w[2] \in 1..Len(b) /\ w[1] < w[2] /\ ~(w[2] <= d)
          BY <2>2, <2>4
        <5> QED
          BY <5>1, <5>2
      <4> QED
        BY <4>1, <3>1, <1>3
    <3> HIDE DEF i, j
    <3>3. j \in LineFeeds(q)
      BY <1>1, <2>2, <3>2
    <3>4. i \in {0} \cup LineFeeds(q)
      <4>1. i # 0 => i \in 1..Len(q) /\ w[1] # 0
        BY <3>2, <1>3
      <4> QED
        BY <4>1, <1>1, <2>2, <3>2
    <3>5. ASSUME NEW k \in LineFeeds(q) PROVE k <= i \/ k >= j
      <4>1. k \in 1..Len(q) /\ d + k \in LineFeeds(b)
        BY <1>1, <1>3
      <4>2. d + k <= d + i \/ d + k >= d + j
        BY <4>1, <2>2, <3>2
      <4> QED
        BY <4>1, <4>2, <3>2, <1>3
    <3>6. <<i, j>> \in Bounds(q)
      BY <3>2, <3>3, <3>4, <3>5 DEF Bounds
    <3>7. <<i, SubSeq(q, i + 1, j - 1)>> \in Lines(q)
      BY <3>6, LineIn
    <3>8. l = <<d + i, SubSeq(q, i + 1, j - 1)>>
      BY <1>6, <2>1, <3>2, <3>3
    <3> QED
      BY <3>7, <3>8 DEF Moved
  <2> QED
    BY <2>3, <2>4
<1>8. ASSUME NEW l \in Lines(p) PROVE l \in Lines(b)
  <2>1. PICK w \in Bounds(p) : l = <<w[1], SubSeq(p, w[1] + 1, w[2] - 1)>>
    BY DEF Lines
  <2>2. /\ w[1] \in {0} \cup LineFeeds(p) /\ w[2] \in LineFeeds(p)
        /\ w[1] \in Nat /\ w[2] \in 1..d /\ w[1] < w[2]
        /\ \A k \in LineFeeds(p) : k <= w[1] \/ k >= w[2]
    BY BoundsAre DEF d
  <2>3. w[1] \in {0} \cup LineFeeds(b) /\ w[2] \in LineFeeds(b)
    BY <1>1, <1>3, <2>2
  <2>4. ASSUME NEW k \in LineFeeds(b) PROVE k <= w[1] \/ k >= w[2]
    <3>1. k \in 1..Len(b)
      BY <1>3
    <3>2. CASE k <= d
      BY <1>1, <2>2, <3>1, <3>2, <1>3
    <3>3. CASE ~(k <= d)
      BY <2>2, <3>1, <3>3, <1>3
    <3> QED
      BY <3>2, <3>3
  <2>5. <<w[1], w[2]>> \in Bounds(b)
    BY <2>2, <2>3, <2>4 DEF Bounds
  <2>6. l = <<w[1], SubSeq(b, w[1] + 1, w[2] - 1)>>
    BY <1>5, <2>1, <2>2
  <2> QED
    BY <2>1, <2>5, <2>6, LineIn
<1>9. ASSUME NEW m \in Lines(q) PROVE <<d + m[1], m[2]>> \in Lines(b)
  <2>1. PICK w \in Bounds(q) : m = <<w[1], SubSeq(q, w[1] + 1, w[2] - 1)>>
    BY DEF Lines
  <2>2. /\ w[1] \in {0} \cup LineFeeds(q) /\ w[2] \in LineFeeds(q)
        /\ w[1] \in Nat /\ w[2] \in 1..Len(q) /\ w[1] < w[2]
        /\ \A k \in LineFeeds(q) : k <= w[1] \/ k >= w[2]
    BY BoundsAre
  <2> DEFINE i == d + w[1]
             j == d + w[2]
  <2>3. j \in LineFeeds(b) /\ i \in {0} \cup LineFeeds(b)
    <3>1. j \in LineFeeds(b)
      BY <1>1, <2>2
    <3>2. CASE w[1] = 0
      <4>1. i = d
        BY <3>2, <1>3
      <4> QED
        BY <3>1, <4>1, <1>4
    <3>3. CASE w[1] # 0
      BY <3>1, <3>3, <1>1, <1>3, <2>2
    <3> QED
      BY <3>2, <3>3
  <2>4. ASSUME NEW k \in LineFeeds(b) PROVE k <= i \/ k >= j
    <3>1. k \in 1..Len(b)
      BY <1>3
    <3>2. CASE k <= d
      BY <2>2, <3>1, <3>2, <1>3
    <3>3. CASE ~(k <= d)
      <4>1. k - d \in 1..Len(q) /\ d + (k - d) = k
        BY <1>1, <1>3, <3>1, <3>3
      <4>2. k - d \in LineFeeds(q)
        BY <1>1, <4>1
      <4>3. k - d <= w[1] \/ k - d >= w[2]
        BY <4>2, <2>2
      <4> QED
        <5>1. k \in Nat /\ d \in Nat /\ w[1] \in Nat /\ w[2] \in Nat
          BY <1>3, <3>1, <2>2
        <5> QED
          BY <5>1, <4>3
    <3> QED
      BY <3>2, <3>3
  <2>5. i < j
    BY <1>3, <2>2
  <2>6. SubSeq(b, i + 1, j - 1) = SubSeq(q, w[1] + 1, w[2] - 1)
    BY <1>6, <2>2
  <2> HIDE DEF i, j
  <2>7. <<i, j>> \in Bounds(b)
    BY <2>3, <2>4, <2>5 DEF Bounds
  <2>8. <<i, SubSeq(b, i + 1, j - 1)>> \in Lines(b)
    BY <2>7, LineIn
  <2>9. m[1] = w[1] /\ m[2] = SubSeq(q, w[1] + 1, w[2] - 1)
    BY <2>1
  <2> QED
    BY <2>6, <2>8, <2>9 DEF i
<1> QED
  BY <1>7, <1>8, <1>9 DEF Moved, b, d

\* A sequence is its terminated lines and the rest.
LEMMA Halves ==
    ASSUME NEW b \in Seq(Byte)
    PROVE  \E p \in Seq(Byte) : /\ Cut(p) = Len(p) /\ Len(p) = Cut(b)
                                /\ p \o Rest(b) = b /\ Lines(p) = Lines(b)
<1> DEFINE p == SubSeq(b, 1, Cut(b))
<1>1. Cut(b) \in 0..Len(b) /\ Len(b) \in Nat /\ Cut(b) \in {0} \cup LineFeeds(b)
      /\ \A j \in LineFeeds(b) : j <= Cut(b)
  BY CutIs
<1>2. /\ p \in Seq(Byte) /\ Len(p) = Cut(b)
      /\ \A i \in 1..Cut(b) : p[i] = b[i]
  <2>1. \A i \in 1..Cut(b) : b[i] \in Byte
    <3>1. \A i \in 1..Cut(b) : i \in 1..Len(b)
      BY <1>1
    <3> QED
      BY <3>1, ElementOfSeq
  <2>2. /\ p \in Seq(Byte) /\ Len(p) = IF 1 <= Cut(b) THEN Cut(b) - 1 + 1 ELSE 0
        /\ \A i \in 1..Cut(b) - 1 + 1 : p[i] = b[1 + i - 1]
    BY <1>1, <2>1, SubSeqProperties
  <2>3. \A i \in 1..Cut(b) : 1 + i - 1 = i /\ i \in 1..Cut(b) - 1 + 1
    BY <1>1
  <2>4. Len(p) = Cut(b)
    BY <1>1, <2>2
  <2> QED
    BY <2>2, <2>3, <2>4
<1> HIDE DEF p
<1>3. Cut(p) = Len(p)
  <2>1. Len(p) \in {0} \cup LineFeeds(p)
    <3>1. Cut(b) # 0 => b[Cut(b)] = "nl" /\ Cut(b) \in 1..Cut(b)
      BY <1>1 DEF LineFeeds
    <3> QED
      BY <1>2, <3>1 DEF LineFeeds
  <2>2. \A j \in LineFeeds(p) : j <= Len(p)
    BY <1>2 DEF LineFeeds
  <2> QED
    BY <1>2, <2>1, <2>2, CutOnly
<1>4. p \o Rest(b) = b
  <2>1. /\ Rest(b) \in Seq(Byte) /\ Len(Rest(b)) = Len(b) - Cut(b)
        /\ \A i \in 1..Len(Rest(b)) : Rest(b)[i] = b[Cut(b) + i]
    BY RestIs
  <2>2. /\ p \o Rest(b) \in Seq(Byte) /\ Len(p \o Rest(b)) = Len(p) + Len(Rest(b))
        /\ \A i \in 1..Len(p) + Len(Rest(b)) :
               (p \o Rest(b))[i] = IF i <= Len(p) THEN p[i] ELSE Rest(b)[i - Len(p)]
    BY <1>2, <2>1, ConcatProperties
  <2>3. Len(p) + Len(Rest(b)) = Len(b)
    BY <1>1, <1>2, <2>1
  <2>4. ASSUME NEW i \in 1..Len(b) PROVE (p \o Rest(b))[i] = b[i]
    <3>1. CASE i <= Len(p)
      <4>1. i \in 1..Cut(b)
        BY <3>1, <1>1, <1>2
      <4> QED
        BY <2>2, <2>3, <3>1, <1>2, <4>1
    <3>2. CASE ~(i <= Len(p))
      <4>1. i - Len(p) \in 1..Len(Rest(b)) /\ Cut(b) + (i - Len(p)) = i
        BY <3>2, <1>1, <1>2, <2>1
      <4> QED
        BY <2>1, <2>2, <2>3, <3>2, <4>1
    <3> QED
      BY <3>1, <3>2
  <2> QED
    BY <2>2, <2>3, <2>4, SeqEqual
<1>5. Lines(p) = Lines(b)
  <2>1. Rest(b) \in Seq(Byte) /\ Lines(Rest(b)) = {}
    BY RestIs
  <2>2. Lines(p \o Rest(b)) = Lines(p) \cup Moved(Len(p), Lines(Rest(b)))
    BY <1>2, <1>3, <2>1, LinesJoined
  <2>3. Moved(Len(p), Lines(Rest(b))) = {}
    BY <2>1 DEF Moved
  <2> QED
    BY <1>4, <2>2, <2>3
<1> QED
  BY <1>2, <1>3, <1>4, <1>5

\* Nothing was read of nothing.
LEMMA EmptyIs == Rest(<<>>) = <<>> /\ Lines(<<>>) = {} /\ Cut(<<>>) = 0
<1>1. /\ <<>> \in Seq(Byte) /\ Len(<<>>) = 0
      /\ Cut(<<>>) \in 0..Len(<<>>) /\ LineFeeds(<<>>) \subseteq 1..Len(<<>>)
      /\ Rest(<<>>) \in Seq(Byte) /\ Len(Rest(<<>>)) = Len(<<>>) - Cut(<<>>)
  BY EmptySeq, CutIs, RestIs
<1>2. Rest(<<>>) = <<>> /\ LineFeeds(<<>>) = {} /\ Cut(<<>>) = 0
  BY <1>1, EmptySeq
<1> QED
  BY <1>2 DEF Lines, Bounds

\* What logs() relies on when it reads on: only the rest has to be kept, to be
\* cut together with the next bytes.
LEMMA ReadOn ==
    ASSUME NEW b \in Seq(Byte), NEW q \in Seq(Byte)
    PROVE  /\ Cut(b \o q) = Cut(b) + Cut(Rest(b) \o q)
           /\ Rest(b \o q) = Rest(Rest(b) \o q)
           /\ Lines(b \o q) = Lines(b) \cup Moved(Cut(b), Lines(Rest(b) \o q))
<1>1. PICK p \in Seq(Byte) : /\ Cut(p) = Len(p) /\ Len(p) = Cut(b)
                             /\ p \o Rest(b) = b /\ Lines(p) = Lines(b)
  BY Halves
<1>2. Rest(b) \in Seq(Byte)
  BY RestIs
<1>3. b \o q = p \o (Rest(b) \o q) /\ Rest(b) \o q \in Seq(Byte)
  <2>1. (p \o Rest(b)) \o q = p \o (Rest(b) \o q)
    BY <1>2, ConcatAssociative
  <2> QED
    BY <1>1, <1>2, <2>1, ConcatProperties
<1>4. /\ Cut(p \o (Rest(b) \o q)) = Len(p) + Cut(Rest(b) \o q)
      /\ Rest(p \o (Rest(b) \o q)) = Rest(Rest(b) \o q)
      /\ Lines(p \o (Rest(b) \o q)) = Lines(p) \cup Moved(Len(p), Lines(Rest(b) \o q))
  BY <1>1, <1>3, CutJoined, LinesJoined
<1> QED
  BY <1>1, <1>3, <1>4
-----------------------------------------------------------------------------
(* Checkpoints and lines.                                                  *)

\* What storing the end of a range in the checkpoints changes.
Stored(c, a, s, offset, tail, tailAt) ==
    [c EXCEPT !.offset[a][s] = offset, !.tail[a][s] = tail, !.tailAt[a][s] = tailAt]

\* What checkpoints hold of a file; checkpoints that differ in one file only.
HoldsOf(n, a, s, offset, tail, tailAt) ==
    n.offset[a][s] = offset /\ n.tail[a][s] = tail /\ n.tailAt[a][s] = tailAt

SameBut(n, c, a, s) ==
    \A b \in Attempt, t \in Stream : b # a \/ t # s =>
        /\ n.offset[b][t] = c.offset[b][t] /\ n.tail[b][t] = c.tail[b][t]
        /\ n.tailAt[b][t] = c.tailAt[b][t]

SameEpoch(n, c) == n.active = c.active /\ n.generation = c.generation

\* The other files of the checkpoints keep theirs.
LEMMA StoredIs ==
    ASSUME NEW c \in Checkpoints, NEW a \in Attempt, NEW s \in Stream,
           NEW offset \in Nat, NEW tail \in Seq(Byte), NEW tailAt \in Nat,
           NEW n, n = Stored(c, a, s, offset, tail, tailAt)
    PROVE  /\ n \in Checkpoints /\ SameEpoch(n, c)
           /\ HoldsOf(n, a, s, offset, tail, tailAt) /\ SameBut(n, c, a, s)
<1>1. /\ c.offset \in [Attempt -> [Stream -> Nat]] /\ c.tail \in [Attempt -> [Stream -> Seq(Byte)]]
      /\ c.tailAt \in [Attempt -> [Stream -> Nat]] /\ c.active \in 0..MaxAttempts /\ c.generation \in Nat
      /\ c = [offset |-> c.offset, tail |-> c.tail, tailAt |-> c.tailAt, active |-> c.active,
              generation |-> c.generation]
  BY DEF Checkpoints
<1>3. /\ n.offset = [c.offset EXCEPT ![a][s] = offset] /\ n.tail = [c.tail EXCEPT ![a][s] = tail]
      /\ n.tailAt = [c.tailAt EXCEPT ![a][s] = tailAt] /\ n.active = c.active /\ n.generation = c.generation
  BY <1>1 DEF Stored
<1>4. n \in Checkpoints
  <2>1. /\ [c.offset EXCEPT ![a][s] = offset] \in [Attempt -> [Stream -> Nat]]
        /\ [c.tail EXCEPT ![a][s] = tail] \in [Attempt -> [Stream -> Seq(Byte)]]
        /\ [c.tailAt EXCEPT ![a][s] = tailAt] \in [Attempt -> [Stream -> Nat]]
    BY <1>1
  <2> DEFINE O == [c.offset EXCEPT ![a][s] = offset]
             T == [c.tail EXCEPT ![a][s] = tail]
             U == [c.tailAt EXCEPT ![a][s] = tailAt]
  <2>2. n = [c EXCEPT !.offset = O, !.tail = T, !.tailAt = U]
    BY DEF Stored
  <2> HIDE DEF O, T, U
  <2>3. [c EXCEPT !.offset = O, !.tail = T, !.tailAt = U] \in Checkpoints
    BY <2>1 DEF Checkpoints, O, T, U
  <2> QED
    BY <2>2, <2>3
<1>5. HoldsOf(n, a, s, offset, tail, tailAt)
  BY <1>1, <1>3 DEF HoldsOf
<1>6. SameBut(n, c, a, s)
  BY <1>1, <1>3 DEF SameBut
<1> QED
  BY <1>3, <1>4, <1>5, <1>6 DEF SameEpoch

\* Entries makes of each line one entry of the cache.
LEMMA EntriesAre ==
    ASSUME NEW c \in Checkpoints, NEW a \in Attempt, NEW s \in Stream, NEW lines,
           lines \subseteq Nat \X Seq(Byte), NEW N, N = Entries(c, a, s, lines)
    PROVE  /\ N \subseteq Entry
           /\ \A l \in N : l.epoch = a /\ l.stream = s /\ l.generation = c.generation
           /\ {<<l.at, l.text>> : l \in N} = lines
<1>1. ASSUME NEW l \in N
      PROVE  /\ l \in Entry /\ l.epoch = a /\ l.stream = s /\ l.generation = c.generation
             /\ <<l.at, l.text>> \in lines
  <2>1. PICK m \in lines : l = [epoch |-> a, stream |-> s, at |-> m[1], text |-> m[2],
                                 generation |-> c.generation]
    BY DEF Entries
  <2>2. m = <<m[1], m[2]>> /\ m[1] \in Nat /\ m[2] \in Seq(Byte) /\ c.generation \in Nat
    BY DEF Checkpoints
  <2> QED
    BY <2>1, <2>2 DEF Entry
<1>2. ASSUME NEW m \in lines PROVE m \in {<<l.at, l.text>> : l \in N}
  <2> DEFINE l == [epoch |-> a, stream |-> s, at |-> m[1], text |-> m[2], generation |-> c.generation]
  <2>1. l \in N
    BY DEF Entries
  <2>2. m = <<m[1], m[2]>> /\ l.at = m[1] /\ l.text = m[2]
    OBVIOUS
  <2> HIDE DEF l
  <2> QED
    BY <2>1, <2>2
<1> QED
  BY <1>1, <1>2

\* Lines that are told of the active epoch keep the order.
LEMMA OrderedMore ==
    ASSUME NEW c \in Checkpoints, NEW L \in SUBSET Entry, NEW N \in SUBSET Entry, Ordered(c, L),
           \A l \in N : l.epoch = c.active /\ l.generation = c.generation
    PROVE  Ordered(c, L \cup N)
<1>1. \A l \in L \cup N : l.epoch \in Nat /\ l.generation \in Nat
  BY DEF Entry, Attempt
<1>2. c.active \in Nat /\ c.generation \in Nat
  BY DEF Checkpoints
<1> QED
  BY <1>1, <1>2 DEF Ordered

\* So do fewer lines.
LEMMA OrderedFewer ==
    ASSUME NEW c, NEW L, NEW M \in SUBSET L, Ordered(c, L)
    PROVE  Ordered(c, M)
  BY DEF Ordered

\* Only the epoch and the generation of checkpoints matter to the order.
LEMMA OrderedSame ==
    ASSUME NEW c, NEW d, NEW L, Ordered(c, L), d.active = c.active, d.generation = c.generation
    PROVE  Ordered(d, L)
  BY DEF Ordered

\* What is cut, behind a tail, from the bytes of a range.
Base(tail, offset, tailAt) == IF tail = <<>> THEN offset ELSE tailAt
KeptOf(all, ended) == IF ended THEN <<>> ELSE Rest(all)
CutOff(all, ended) == LinesOf(all, KeptOf(all, ended))

\* What is cut off lies within the bytes, and so does what is kept.
LEMMA CutOffIs ==
    ASSUME NEW all \in Seq(Byte), NEW ended \in BOOLEAN
    PROVE  /\ KeptOf(all, ended) \in Seq(Byte) /\ Cut(all) \in Nat
           /\ KeptOf(all, ended) # <<>> => Cut(all) + Len(KeptOf(all, ended)) = Len(all)
           /\ \A l \in CutOff(all, ended) :
                  /\ l = <<l[1], l[2]>> /\ l[1] \in Nat /\ l[2] \in Seq(Byte)
                  /\ l[1] + Len(l[2]) <= Len(all)
<1>1. /\ Rest(all) \in Seq(Byte) /\ Cut(all) \in 0..Len(all) /\ Len(Rest(all)) = Len(all) - Cut(all)
      /\ Len(all) \in Nat /\ <<>> \in Seq(Byte)
  BY RestIs, CutIs, EmptySeq
<1>2. Cut(all) + Len(Rest(all)) = Len(all)
  BY <1>1
<1>3. ASSUME NEW l \in Lines(all)
      PROVE  /\ l = <<l[1], l[2]>> /\ l[1] \in Nat /\ l[2] \in Seq(Byte) /\ l[1] + Len(l[2]) <= Len(all)
  <2>1. /\ l = <<l[1], l[2]>> /\ l[1] \in Nat /\ l[2] \in Seq(Byte) /\ l[1] + Len(l[2]) < Cut(all)
    BY LinesAre
  <2>2. Len(l[2]) \in Nat
    BY <2>1
  <2> QED
    BY <1>1, <2>1, <2>2
<1> QED
  BY <1>1, <1>2, <1>3 DEF KeptOf, CutOff, LinesOf

\* The step of a poll behind one file, in these terms.
All(c, bytes) == c.tail[epoch][stream] \o bytes
BaseOf(c) == Base(c.tail[epoch][stream], c.offset[epoch][stream], c.tailAt[epoch][stream])
Kept(c, bytes, ended) == KeptOf(All(c, bytes), ended)
Advanced(c, bytes, end, ended) ==
    Stored(c, epoch, stream, end, Kept(c, bytes, ended),
           IF Kept(c, bytes, ended) # <<>> THEN BaseOf(c) + Cut(All(c, bytes)) ELSE end)
Fresh(c, bytes, ended) ==
    Entries(c, epoch, stream, Moved(BaseOf(c), CutOff(All(c, bytes), ended)))

\* TakeBytes in these terms.
LEMMA TakeBytesIs ==
    ASSUME NEW c, NEW bytes, NEW end, NEW size, TakeBytes(c, bytes, end, size)
    PROVE  LET ended == final /\ end = size
           IN  /\ Proceed(Advanced(c, bytes, end, ended), out \cup Fresh(c, bytes, ended))
               /\ Len(Kept(c, bytes, ended)) <= LineLimit
  BY DEF TakeBytes, Fits, Advanced, Fresh, Kept, KeptOf, CutOff, LinesOf, All, BaseOf, Base, Stored, Moved

\* The bounds on the lengths of files are numbers.
LEMMA SizesAre ==
    \A s \in Stream : Size(s) \in Nat
  BY AzureLogsAssumption DEF Size, Stream

\* Whatever copies the poll goes on with, or ends with.
LEMMA Proceeds ==
    ASSUME IInv, pc # "idle", UNCHANGED <<task, raced>>,
           NEW c \in Checkpoints, NEW L \in SUBSET Entry, c.active = epoch, Ordered(c, cache \cup L),
           Proceed(c, L)
    PROVE  IInv'
<1>1. stream \in Stream /\ Size("stderr") \in Nat /\ Size("stdout") \in Nat
  BY SizesAre DEF IInv, Types, Stream
<1>2. CASE stream = "stdout"
  <2>1. /\ stream' = "stderr" /\ pc' = "head" /\ work' = c /\ out' = L /\ length' = 0
        /\ UNCHANGED <<log, cache, epoch, final>>
    BY <1>2 DEF Proceed
  <2>2. Types'
    BY <1>1, <2>1 DEF IInv, Types, task, Stream, Size
  <2>3. Placed'
    BY <2>1 DEF IInv, Placed, task
  <2>4. Ordered(log, cache)' /\ Ordered(work, cache \cup out)'
    <3>1. Ordered(log, cache)'
      BY <2>1 DEF IInv, Ordered
    <3>2. Ordered(work', cache' \cup out')
      BY <2>1
    <3> QED
      BY <3>1, <3>2 DEF Ordered
  <2> QED
    BY <2>2, <2>3, <2>4 DEF IInv
<1>3. CASE stream # "stdout"
  <2>1. /\ log' = c /\ work' = c /\ out' = {} /\ cache' = cache \cup {l \in L : ~Known(l)}
        /\ pc' = "idle" /\ epoch' = 1 /\ final' = FALSE /\ stream' = "stdout" /\ length' = 0
    BY <1>3 DEF Proceed, Idle
  <2>2. Types'
    <3>1. 1 \in Attempt /\ cache' \subseteq Entry
      BY <2>1, AzureLogsAssumption DEF IInv, Types, Attempt
    <3>2. 0 \in 0..Size("stdout") /\ (0..Size(stream))' = 0..Size("stdout")
      BY <1>1, <2>1 DEF Size
    <3>3. length' \in (0..Size(stream))' /\ stream' \in Stream /\ work' \in Checkpoints /\ out' \in SUBSET Entry
      BY <2>1, <3>2 DEF Stream
    <3> QED
      BY <2>1, <3>1, <3>3 DEF IInv, Types, task, Size
  <2>3. Placed'
    BY <2>1 DEF IInv, Placed, task
  <2>4. Ordered(log, cache)' /\ Ordered(work, cache \cup out)'
    <3>1. cache' \in SUBSET (cache \cup L) /\ cache' \cup out' \in SUBSET (cache \cup L)
      BY <2>1
    <3>2. Ordered(log', cache') /\ Ordered(work', cache' \cup out')
      BY <2>1, <3>1, OrderedFewer
    <3> QED
      BY <3>2 DEF Ordered
  <2> QED
    BY <2>2, <2>3, <2>4 DEF IInv
<1> QED
  BY <1>2, <1>3

\* Checkpoints that advance by a range are checkpoints of the same epoch.
LEMMA AdvancedIs ==
    ASSUME Types, NEW c \in Checkpoints, NEW bytes \in Seq(Byte), NEW end \in Nat, NEW ended \in BOOLEAN
    PROVE  /\ All(c, bytes) \in Seq(Byte) /\ BaseOf(c) \in Nat /\ Kept(c, bytes, ended) \in Seq(Byte)
           /\ Moved(BaseOf(c), CutOff(All(c, bytes), ended)) \subseteq Nat \X Seq(Byte)
           /\ Advanced(c, bytes, end, ended) \in Checkpoints
           /\ SameEpoch(Advanced(c, bytes, end, ended), c)
<1>1. /\ c.tail[epoch][stream] \in Seq(Byte) /\ c.offset[epoch][stream] \in Nat
      /\ c.tailAt[epoch][stream] \in Nat /\ epoch \in Attempt /\ stream \in Stream
  BY DEF Checkpoints, Types
<1>2. All(c, bytes) \in Seq(Byte) /\ BaseOf(c) \in Nat
  BY <1>1, ConcatProperties DEF All, BaseOf, Base
<1> DEFINE all == All(c, bytes)
           base == BaseOf(c)
<1> HIDE DEF all, base
<1>3. /\ KeptOf(all, ended) \in Seq(Byte) /\ Cut(all) \in Nat
      /\ \A l \in CutOff(all, ended) : l[1] \in Nat /\ l[2] \in Seq(Byte)
  BY <1>2, CutOffIs DEF all
<1>4. Moved(base, CutOff(all, ended)) \subseteq Nat \X Seq(Byte)
  <2>1. \A l \in CutOff(all, ended) : base + l[1] \in Nat /\ l[2] \in Seq(Byte)
    BY <1>2, <1>3 DEF base
  <2> QED
    BY <2>1 DEF Moved
<1> DEFINE k == Kept(c, bytes, ended)
           m == IF k # <<>> THEN base + Cut(all) ELSE end
<1>5. k \in Seq(Byte) /\ m \in Nat
  BY <1>2, <1>3 DEF Kept, all, base
<1>6. Advanced(c, bytes, end, ended) = Stored(c, epoch, stream, end, k, m)
  BY DEF Advanced, all, base
<1> HIDE DEF k, m
<1>7. /\ Advanced(c, bytes, end, ended) \in Checkpoints
      /\ SameEpoch(Advanced(c, bytes, end, ended), c)
  <2> DEFINE p == Stored(c, epoch, stream, end, k, m)
  <2>1. p \in Checkpoints /\ SameEpoch(p, c)
    BY <1>1, <1>5, StoredIs
  <2> QED
    BY <2>1, <1>6
<1> QED
  BY <1>2, <1>4, <1>5, <1>7 DEF k, all, base

\* A range that is taken keeps the first invariant, whatever bytes it brings.
LEMMA Takes ==
    ASSUME IInv, pc # "idle", UNCHANGED <<task, raced>>,
           NEW c \in Checkpoints, c.active = work.active, c.generation = work.generation,
           NEW bytes \in Seq(Byte), NEW end \in Nat, NEW size, TakeBytes(c, bytes, end, size)
    PROVE  IInv'
<1> DEFINE ended == final /\ end = size
           n == Advanced(c, bytes, end, ended)
           N == Fresh(c, bytes, ended)
<1>1. /\ Types /\ final \in BOOLEAN /\ epoch \in Attempt /\ stream \in Stream /\ work \in Checkpoints
      /\ cache \in SUBSET Entry /\ out \in SUBSET Entry /\ work.active = epoch
  BY DEF IInv, Types, Placed
<1>2. Proceed(n, out \cup N)
  BY TakeBytesIs
<1>3. ended \in BOOLEAN
  BY <1>1
<1> HIDE DEF ended
<1>4. n \in Checkpoints /\ n.active = epoch /\ n.generation = c.generation
  <2>1. n \in Checkpoints /\ SameEpoch(n, c)
    BY <1>1, <1>3, AdvancedIs
  <2> HIDE DEF n
  <2> QED
    BY <1>1, <2>1 DEF SameEpoch
<1>5. \A l \in N : l \in Entry /\ l.epoch = epoch /\ l.generation = c.generation
  <2> DEFINE lines == Moved(BaseOf(c), CutOff(All(c, bytes), ended))
  <2>1. lines \subseteq Nat \X Seq(Byte)
    BY <1>1, <1>3, AdvancedIs
  <2>2. N = Entries(c, epoch, stream, lines)
    BY DEF Fresh
  <2> HIDE DEF lines, N
  <2> QED
    BY <1>1, <2>1, <2>2, EntriesAre
<1> HIDE DEF n, N
<1>6. Ordered(n, (cache \cup out) \cup N)
  <2>1. Ordered(n, cache \cup out)
    BY <1>1, <1>4, OrderedSame DEF IInv
  <2>2. N \in SUBSET Entry /\ cache \cup out \in SUBSET Entry
    BY <1>1, <1>5
  <2>3. \A l \in N : l.epoch = n.active /\ l.generation = n.generation
    BY <1>4, <1>5
  <2> QED
    BY <1>4, <2>1, <2>2, <2>3, OrderedMore
<1>7. Ordered(n, cache \cup (out \cup N))
  BY <1>6, Zenon
<1>8. out \cup N \in SUBSET Entry
  BY <1>1, <1>5
<1> QED
  BY <1>2, <1>4, <1>7, <1>8, Proceeds
-----------------------------------------------------------------------------
(* The first invariant is inductive.                                       *)

\* At the start nothing was read.
LEMMA InitHolds == Init => IInv
<1> SUFFICES ASSUME Init PROVE IInv
  OBVIOUS
<1>1. 1 \in Attempt /\ \A s \in Stream : Size(s) \in Nat
  BY AzureLogsAssumption, SizesAre DEF Attempt
<1>2. <<>> \in Seq(Byte) /\ Len(<<>>) = 0
  BY EmptySeq
<1>3. /\ ForEach(<<>>) \in [Attempt -> [Stream -> Seq(Byte)]] /\ ForEach(0) \in [Attempt -> [Stream -> Nat]]
      /\ \A a \in Attempt, s \in Stream : ForEach(<<>>)[a][s] = <<>> /\ ForEach(0)[a][s] = 0
  BY <1>2 DEF ForEach
<1>4. log \in Checkpoints /\ log.active = 0 /\ log.generation = 0 /\ work = log
  BY <1>3, AzureLogsAssumption DEF Init, Checkpoints
<1>5. Types
  <2>1. file \in [Attempt -> [Stream -> Seq(Byte)]]
    BY <1>3 DEF Init
  <2>2. \A a \in Attempt, s \in Stream : Len(file[a][s]) <= Size(s)
    <3>1. \A a \in Attempt, s \in Stream : file[a][s] = <<>>
      BY <1>3 DEF Init
    <3> QED
      BY <1>1, <1>2, <3>1
  <2>3. stream \in Stream /\ length \in 0..Size(stream)
    BY <1>1 DEF Init, Stream
  <2> QED
    BY <1>1, <1>4, <2>1, <2>2, <2>3 DEF Init, Types
<1>6. Placed
  BY <1>4 DEF Init, Placed
<1>7. Ordered(log, cache) /\ Ordered(work, cache \cup out)
  BY <1>4 DEF Init, Ordered
<1> QED
  BY <1>5, <1>6, <1>7 DEF IInv

\* What the task does.
LEMMA TaskHolds ==
    ASSUME IInv, Task
    PROVE  IInv'
<1> USE DEF IInv, Types, Placed
<1>1. ASSUME NEW s \in Stream, NEW b \in Byte, Write(s, b) PROVE IInv'
  <2>1. /\ file' = [file EXCEPT ![attempt][s] = Append(@, b)] /\ Len(file[attempt][s]) < Size(s)
        /\ UNCHANGED <<attempt, over, raced, log, cache, pc, work, out, epoch, final, stream, length>>
    BY <1>1 DEF Write, poll
  <2>2. file[attempt][s] \in Seq(Byte)
    OBVIOUS
  <2>3. /\ Append(file[attempt][s], b) \in Seq(Byte) /\ Len(Append(file[attempt][s], b)) = Len(file[attempt][s]) + 1
        /\ Len(file[attempt][s]) \in Nat
    BY <2>2, AppendProperties
  <2>4. Len(file[attempt][s]) + 1 <= Size(s)
    BY <2>1, <2>3, SizesAre
  <2>5. file' \in [Attempt -> [Stream -> Seq(Byte)]]
    BY <2>1, <2>3
  <2>6. ASSUME NEW a \in Attempt, NEW t \in Stream PROVE Len(file'[a][t]) <= Size(t)
    BY <2>1, <2>3, <2>4
  <2> QED
    BY <2>1, <2>5, <2>6 DEF Ordered, Size
<1>2. CASE Retry
  <2>1. /\ attempt' = attempt + 1 /\ attempt < MaxAttempts /\ raced \subseteq raced'
        /\ pc # "idle" => attempt \in raced'
    BY <1>2 DEF Retry
  <2>2. UNCHANGED <<file, over, log, cache, pc, work, out, epoch, final, stream, length>> /\ ~over
    BY <1>2 DEF Retry, poll
  <2>3. attempt' \in Attempt /\ attempt <= attempt'
    <3>1. attempt \in 1..MaxAttempts /\ MaxAttempts \in Nat
      BY AzureLogsAssumption DEF Attempt
    <3>2. attempt + 1 \in 1..MaxAttempts /\ attempt <= attempt + 1
      BY <2>1, <3>1
    <3> QED
      BY <2>1, <3>2 DEF Attempt
  <2>4. log.active <= attempt' /\ (epoch <= attempt => epoch <= attempt')
    BY <2>3 DEF Checkpoints, Attempt
  <2>5. Types'
    BY <2>2, <2>3 DEF Size
  <2>6. Placed'
    <3>1. pc' # "idle" => epoch' = attempt' \/ epoch' \in raced'
      BY <2>1, <2>2
    <3>2. pc' # "idle" => work'.active = epoch' /\ epoch' <= attempt' /\ (final' => over')
      BY <2>2, <2>4
    <3>3. log'.active <= attempt' /\ (pc' = "idle" => work' = log' /\ out' = {})
      BY <2>2, <2>4
    <3> QED
      BY <3>1, <3>2, <3>3
  <2> QED
    BY <2>2, <2>5, <2>6 DEF Ordered
<1>3. CASE Complete
  <2>1. /\ over' = TRUE
        /\ UNCHANGED <<file, attempt, raced, log, cache, pc, work, out, epoch, final, stream, length>>
    BY <1>3 DEF Complete, poll
  <2> QED
    BY <2>1 DEF Ordered, Size
<1> QED
  BY <1>1, <1>2, <1>3 DEF Task

\* A poll that fails keeps nothing.
LEMMA FailHolds ==
    ASSUME IInv, PollFails
    PROVE  IInv'
<1>1. /\ pc' = "idle" /\ work' = log /\ out' = {} /\ epoch' = 1 /\ final' = FALSE /\ stream' = "stdout"
      /\ length' = 0 /\ UNCHANGED <<file, attempt, over, raced, log, cache>>
  BY DEF PollFails, Idle, task
<1>2. 1 \in Attempt /\ Size("stdout") \in Nat /\ "stdout" \in Stream
  BY AzureLogsAssumption, SizesAre DEF Attempt, Stream
<1>3. length' \in (0..Size(stream))'
  BY <1>1, <1>2 DEF Size
<1>4. Types'
  BY <1>1, <1>2, <1>3 DEF IInv, Types, Size
<1>5. Placed'
  BY <1>1 DEF IInv, Placed
<1>6. Ordered(log', cache') /\ Ordered(work', cache' \cup out')
  <2>1. cache' \cup out' = cache
    BY <1>1
  <2> QED
    BY <1>1, <2>1 DEF IInv
<1> QED
  BY <1>4, <1>5, <1>6 DEF IInv, Ordered

\* Part of a file.
LEMMA RangeIs ==
    ASSUME NEW f \in Seq(Byte), NEW m \in Nat, NEW n \in Nat, n <= Len(f)
    PROVE  /\ SubSeq(f, m + 1, n) \in Seq(Byte)
           /\ m <= n => /\ Len(SubSeq(f, m + 1, n)) = n - m
                        /\ \A i \in 1..n - m : SubSeq(f, m + 1, n)[i] = f[m + i]
           /\ n <= m => SubSeq(f, m + 1, n) = <<>>
<1> DEFINE t == SubSeq(f, m + 1, n)
<1>1. \A i \in m + 1..n : f[i] \in Byte
  <2>1. \A i \in m + 1..n : i \in 1..Len(f)
    OBVIOUS
  <2> QED
    BY <2>1, ElementOfSeq
<1>2. /\ t \in Seq(Byte) /\ Len(t) = IF m + 1 <= n THEN n - (m + 1) + 1 ELSE 0
      /\ \A i \in 1..n - (m + 1) + 1 : t[i] = f[m + 1 + i - 1]
  BY <1>1, SubSeqProperties
<1>3. n <= m => t = <<>>
  BY SubSeqEmpty
<1> HIDE DEF t
<1>4. ASSUME m <= n PROVE Len(t) = n - m /\ \A i \in 1..n - m : t[i] = f[m + i]
  <2>1. n - (m + 1) + 1 = n - m /\ (~(m + 1 <= n) => n - m = 0)
    BY <1>4
  <2>2. \A i \in 1..n - m : m + 1 + i - 1 = m + i
    OBVIOUS
  <2> QED
    BY <1>2, <2>1, <2>2
<1> QED
  BY <1>2, <1>3, <1>4 DEF t

\* Where a file became shorter.
LEMMA TruncatedIs ==
    ASSUME Types, NEW size \in Nat
    PROVE  /\ Truncated(size) = IF size < work.offset[epoch][stream]
                                THEN Stored(work, epoch, stream, 0, <<>>, 0) ELSE work
           /\ Truncated(size) \in Checkpoints /\ SameEpoch(Truncated(size), work)
<1>1. work \in Checkpoints /\ epoch \in Attempt /\ stream \in Stream /\ <<>> \in Seq(Byte) /\ 0 \in Nat
  BY EmptySeq DEF Types
<1>2. Truncated(size) = IF size < work.offset[epoch][stream]
                        THEN Stored(work, epoch, stream, 0, <<>>, 0) ELSE work
  BY DEF Truncated, Stored
<1> DEFINE n == Stored(work, epoch, stream, 0, <<>>, 0)
<1>3. n \in Checkpoints /\ SameEpoch(n, work)
  <2> DEFINE none == <<>>
             zero == 0
  <2>1. none \in Seq(Byte) /\ zero \in Nat
    BY <1>1
  <2>2. n = Stored(work, epoch, stream, zero, none, zero)
    OBVIOUS
  <2> HIDE DEF none, zero, n
  <2> QED
    BY <1>1, <2>1, <2>2, StoredIs
<1> HIDE DEF n
<1> QED
  BY <1>1, <1>2, <1>3 DEF n, SameEpoch

\* What another epoch makes of the checkpoints and of the tails.
Flushing == {s \in Stream : log.tail[log.active][s] # <<>>}
FlushedLine(s) == Entries(log, log.active, s, {<<log.tailAt[log.active][s], log.tail[log.active][s]>>})

\* ReadTask keeps the offsets and empties the tails of the epoch it leaves.
LEMMA NewEpochIs ==
    ASSUME IInv, pc = "idle", NewEpoch(attempt)
    PROVE  LET old == log.active
           IN  /\ work' \in Checkpoints /\ work'.active = attempt
               /\ work'.offset = log.offset
               /\ old \in {0, attempt} => /\ out' = {} /\ work'.generation = log.generation
                                          /\ work'.tail = log.tail /\ work'.tailAt = log.tailAt
               /\ old \notin {0, attempt} =>
                      /\ old \in Attempt /\ old < attempt /\ work'.generation = log.generation + 1
                      /\ out' = UNION {FlushedLine(s) : s \in Flushing}
                      /\ \A a \in Attempt, s \in Stream :
                             /\ work'.tail[a][s] = IF a = old THEN <<>> ELSE log.tail[a][s]
                             /\ work'.tailAt[a][s] = IF a = old /\ s \in Flushing THEN log.offset[a][s]
                                                     ELSE log.tailAt[a][s]
<1> DEFINE old == log.active
<1>1. /\ log \in Checkpoints /\ attempt \in Attempt /\ old \in Nat /\ old <= attempt
      /\ log.offset \in [Attempt -> [Stream -> Nat]] /\ log.tail \in [Attempt -> [Stream -> Seq(Byte)]]
      /\ log.tailAt \in [Attempt -> [Stream -> Nat]] /\ log.generation \in Nat
      /\ attempt \in 0..MaxAttempts
  <2>1. log \in Checkpoints /\ attempt \in Attempt /\ old <= attempt
    BY DEF IInv, Types, Placed
  <2>2. attempt \in 0..MaxAttempts
    BY <2>1, AzureLogsAssumption DEF Attempt
  <2> QED
    BY <2>1, <2>2 DEF Checkpoints
<1>2. CASE old \in {0, attempt}
  <2>1. out' = {} /\ work' = [log EXCEPT !.active = attempt]
    BY <1>2 DEF NewEpoch
  <2>2. [log EXCEPT !.active = attempt] \in Checkpoints
    BY <1>1 DEF Checkpoints
  <2>3. /\ work'.active = attempt /\ work'.offset = log.offset /\ work'.tail = log.tail
        /\ work'.tailAt = log.tailAt /\ work'.generation = log.generation
    BY <1>1, <2>1 DEF Checkpoints
  <2> QED
    BY <1>2, <2>1, <2>2, <2>3
<1>3. CASE old \notin {0, attempt}
  <2>1. old \in Attempt /\ old < attempt
    BY <1>1, <1>3, AzureLogsAssumption DEF Attempt
  <2> DEFINE T == [log.tail EXCEPT ![old] = [s \in Stream |-> <<>>]]
             U == [log.tailAt EXCEPT ![old] = [s \in Stream |-> IF s \in Flushing THEN log.offset[old][s]
                                                                ELSE log.tailAt[old][s]]]
  <2>2. work' = [log EXCEPT !.active = attempt, !.generation = log.generation + 1, !.tail = T, !.tailAt = U]
    BY <1>3 DEF NewEpoch, NextGeneration, Flushing
  <2>3. out' = UNION {FlushedLine(s) : s \in Flushing}
    BY <1>3 DEF NewEpoch, FlushedLine, Flushing
  <2>4. T \in [Attempt -> [Stream -> Seq(Byte)]] /\ U \in [Attempt -> [Stream -> Nat]]
    <3>1. [s \in Stream |-> <<>>] \in [Stream -> Seq(Byte)]
      BY EmptySeq
    <3>2. [s \in Stream |-> IF s \in Flushing THEN log.offset[old][s] ELSE log.tailAt[old][s]]
              \in [Stream -> Nat]
      BY <1>1, <2>1
    <3> QED
      BY <1>1, <3>1, <3>2
  <2>5. \A a \in Attempt, s \in Stream :
            /\ T[a][s] = IF a = old THEN <<>> ELSE log.tail[a][s]
            /\ U[a][s] = IF a = old /\ s \in Flushing THEN log.offset[a][s] ELSE log.tailAt[a][s]
    BY <1>1
  <2> HIDE DEF T, U
  <2>6. log.generation + 1 \in Nat
    BY <1>1
  <2>7. work' \in Checkpoints
    BY <1>1, <2>2, <2>4, <2>6 DEF Checkpoints
  <2>8. /\ work'.active = attempt /\ work'.offset = log.offset /\ work'.tail = T
        /\ work'.tailAt = U /\ work'.generation = log.generation + 1
    BY <1>1, <2>2 DEF Checkpoints
  <2> QED
    BY <1>3, <2>1, <2>3, <2>5, <2>7, <2>8
<1> QED
  BY <1>2, <1>3

\* A new epoch has a greater generation than all lines told so far.
LEMMA ReadTaskHolds ==
    ASSUME IInv, ReadTask
    PROVE  IInv'
<1> DEFINE old == log.active
<1>1. /\ epoch' = attempt /\ final' = over /\ pc' = "head" /\ stream' = "stdout" /\ length' = 0
      /\ UNCHANGED <<file, attempt, over, raced, log, cache>>
      /\ pc = "idle" /\ NewEpoch(attempt)
  BY DEF ReadTask, task
<1>2. Types /\ Placed /\ Ordered(log, cache) /\ log \in Checkpoints /\ cache \subseteq Entry
      /\ attempt \in Attempt /\ old \in Nat /\ attempt \in Nat /\ log.generation \in Nat /\ old <= attempt
  BY DEF IInv, Types, Placed, Attempt, Checkpoints
<1>3. /\ work' \in Checkpoints /\ work'.active = attempt
      /\ old \in {0, attempt} => out' = {} /\ work'.generation = log.generation
      /\ old \notin {0, attempt} => /\ old \in Attempt /\ old < attempt
                                    /\ work'.generation = log.generation + 1
                                    /\ out' = UNION {FlushedLine(s) : s \in Flushing}
  BY <1>1, NewEpochIs
<1>4. \A l \in cache : l.epoch \in Nat /\ l.generation \in Nat /\ l.epoch >= 1
  BY <1>2 DEF Entry, Attempt
<1>5. ASSUME old = 0 PROVE Ordered(work', cache' \cup out') /\ out' \subseteq Entry
  <2>1. cache = {} /\ log.generation = 0
    BY <1>2, <1>4, <1>5 DEF Ordered
  <2>2. Ordered(work', cache' \cup out') /\ out' \subseteq Entry
    BY <1>1, <1>2, <1>3, <1>5, <2>1 DEF Ordered
  <2> QED
    BY <2>2
<1>6. ASSUME old = attempt, old # 0 PROVE Ordered(work', cache' \cup out') /\ out' \subseteq Entry
  <2>1. cache' \cup out' = cache /\ out' \subseteq Entry
    BY <1>1, <1>3, <1>6
  <2>2. Ordered(work', cache)
    BY <1>2, <1>3, <1>6, OrderedSame
  <2> QED
    BY <2>1, <2>2
<1>7. ASSUME old \notin {0, attempt} PROVE Ordered(work', cache' \cup out') /\ out' \subseteq Entry
  <2>1. ASSUME NEW s \in Flushing
        PROVE  /\ FlushedLine(s) \subseteq Entry
               /\ \A l \in FlushedLine(s) : l.epoch = old /\ l.generation = log.generation
    <3> DEFINE lines == {<<log.tailAt[old][s], log.tail[old][s]>>}
    <3>1. s \in Stream /\ old \in Attempt
      BY <1>3, <1>7 DEF Flushing
    <3>2. log.tailAt[old][s] \in Nat /\ log.tail[old][s] \in Seq(Byte)
      BY <1>2, <3>1 DEF Checkpoints
    <3>3. lines \subseteq Nat \X Seq(Byte)
      BY <3>2
    <3>4. FlushedLine(s) = Entries(log, old, s, lines)
      BY DEF FlushedLine
    <3> HIDE DEF lines
    <3> QED
      BY <1>2, <3>1, <3>3, <3>4, EntriesAre
  <2>2. out' \subseteq Entry /\ \A l \in out' : l.epoch = old /\ l.generation = log.generation
    BY <1>3, <1>7, <2>1
  <2>3. Ordered(log, cache \cup out')
    BY <1>2, <2>2, OrderedMore
  <2>4. Ordered(work', cache \cup out')
    <3>1. \A l \in cache \cup out' : l.epoch \in Nat /\ l.generation \in Nat
      BY <1>2, <2>2 DEF Entry, Attempt
    <3>2. \A l \in cache \cup out' : l.epoch < work'.active /\ l.generation < work'.generation
      <4>1. \A l \in cache \cup out' : l.epoch <= old /\ l.generation <= log.generation
        BY <1>2, <2>3, <3>1 DEF Ordered
      <4> QED
        BY <1>2, <1>3, <1>7, <3>1, <4>1
    <3>3. work'.generation <= work'.active
      BY <1>2, <1>3, <1>7 DEF Ordered
    <3> QED
      BY <2>3, <3>1, <3>2, <3>3, <1>3, <1>7, <1>2 DEF Ordered
  <2> QED
    BY <1>1, <2>2, <2>4
<1>8. Ordered(work', cache' \cup out') /\ out' \subseteq Entry
  BY <1>2, <1>5, <1>6, <1>7
<1>9. length' \in (0..Size(stream))' /\ stream' \in Stream
  BY <1>1, SizesAre DEF Size, Stream
<1>10. Types'
  BY <1>1, <1>2, <1>3, <1>8, <1>9 DEF Types, Size
<1>11. Placed'
  BY <1>1, <1>2, <1>3 DEF Placed
<1>12. Ordered(log', cache')
  BY <1>1, <1>2
<1> QED
  BY <1>8, <1>10, <1>11, <1>12 DEF IInv, Ordered

\* HEAD moves on to the next file, to a range, or ends the poll.
LEMMA HeadHolds ==
    ASSUME IInv, HeadFindsNothing \/ HeadFindsMore \/ HeadFindsNoFile
    PROVE  IInv'
<1> DEFINE size == Len(file[attempt][stream])
           c == Truncated(size)
<1>1. /\ Types /\ stream \in Stream /\ attempt \in Attempt /\ file[attempt][stream] \in Seq(Byte)
      /\ size \in Nat /\ size <= Size(stream) /\ Size(stream) \in Nat
      /\ work \in Checkpoints /\ out \subseteq Entry
  BY SizesAre DEF IInv, Types
<1>2. c \in Checkpoints /\ c.active = work.active /\ c.generation = work.generation
  BY <1>1, TruncatedIs DEF SameEpoch
<1>3. <<>> \in Seq(Byte)
  BY EmptySeq
<1>4. CASE HeadFindsNothing
  <2>1. pc # "idle" /\ UNCHANGED <<task, raced>> /\ TakeBytes(c, <<>>, size, size)
    BY <1>4 DEF HeadFindsNothing
  <2> DEFINE none == <<>>
  <2>2. none \in Seq(Byte) /\ TakeBytes(c, none, size, size)
    BY <1>3, <2>1
  <2> HIDE DEF none, size, c
  <2> QED
    BY <1>1, <1>2, <2>1, <2>2, Takes
<1>5. CASE HeadFindsMore
  <2>1. /\ pc = "head" /\ length' = size /\ work' = c /\ pc' = "get"
        /\ UNCHANGED <<file, attempt, over, raced, log, cache, out, epoch, final, stream>>
    BY <1>5 DEF HeadFindsMore, task
  <2> HIDE DEF size, c
  <2>2. length' \in (0..Size(stream))'
    BY <1>1, <2>1 DEF Size
  <2>3. Types'
    BY <1>1, <1>2, <2>1, <2>2 DEF Types, Size
  <2>4. Placed'
    BY <1>2, <2>1 DEF IInv, Placed
  <2>5. Ordered(work', cache' \cup out')
    BY <1>2, <2>1, OrderedSame DEF IInv
  <2>6. Ordered(log', cache')
    BY <2>1 DEF IInv
  <2> QED
    BY <2>3, <2>4, <2>5, <2>6 DEF IInv, Ordered
<1>6. CASE HeadFindsNoFile
  <2>1. pc # "idle" /\ UNCHANGED <<task, raced>> /\ Proceed(work, out)
    BY <1>6 DEF HeadFindsNoFile
  <2>2. work.active = epoch /\ Ordered(work, cache \cup out)
    BY <2>1 DEF IInv, Placed
  <2> QED
    BY <1>1, <2>1, <2>2, Proceeds
<1> QED
  BY <1>4, <1>5, <1>6

\* A range, even one the service ignores, is taken.
LEMMA GetHolds ==
    ASSUME IInv, GetRange
    PROVE  IInv'
<1> DEFINE start == work.offset[epoch][stream]
           end == IF length - start < Chunk THEN length ELSE start + Chunk
           now == file[attempt][stream]
<1>1. /\ work \in Checkpoints /\ start \in Nat /\ length \in Nat /\ Chunk \in Nat /\ now \in Seq(Byte)
      /\ stream \in Stream /\ epoch \in Attempt
  <2>1. /\ work \in Checkpoints /\ file \in [Attempt -> [Stream -> Seq(Byte)]] /\ attempt \in Attempt
        /\ stream \in Stream /\ epoch \in Attempt /\ length \in 0..Size(stream)
    BY DEF IInv, Types
  <2>2. length \in Nat /\ Chunk \in Nat
    BY <2>1, SizesAre, AzureLogsAssumption
  <2> QED
    BY <2>1, <2>2 DEF Checkpoints
<1>2. end \in Nat
  BY <1>1
<1>3. /\ pc # "idle" /\ UNCHANGED <<task, raced>>
      /\ \/ Len(now) >= end /\ TakeBytes(work, SubSeq(now, start + 1, end), end, length)
         \/ RangeIgnored /\ Len(now) = length /\ TakeBytes(work, SubSeq(now, start + 1, length), end, length)
  BY DEF GetRange
<1> HIDE DEF start, end, now
<1>4. CASE Len(now) >= end /\ TakeBytes(work, SubSeq(now, start + 1, end), end, length)
  <2>1. SubSeq(now, start + 1, end) \in Seq(Byte)
    BY <1>1, <1>2, <1>4, RangeIs
  <2> QED
    BY <1>1, <1>2, <1>3, <1>4, <2>1, Takes
<1>5. CASE Len(now) = length /\ TakeBytes(work, SubSeq(now, start + 1, length), end, length)
  <2>1. SubSeq(now, start + 1, length) \in Seq(Byte)
    BY <1>1, <1>2, <1>5, RangeIs
  <2> QED
    BY <1>1, <1>2, <1>3, <1>5, <2>1, Takes
<1> QED
  BY <1>3, <1>4, <1>5

\* The first invariant holds in every state: checkpoints, copies and lines have
\* their types, a poll stays on the epoch it has seen, and generations follow
\* epochs.
THEOREM Invariant == Spec => []IInv
<1>1. ASSUME IInv, [Next]_vars PROVE IInv'
  <2>1. CASE UNCHANGED vars
    <3>1. /\ UNCHANGED <<file, attempt, over, raced, log, cache, pc, work, out, epoch, final, stream, length>>
          /\ Types /\ Placed /\ Ordered(log, cache) /\ Ordered(work, cache \cup out)
      BY <1>1, <2>1 DEF vars, IInv
    <3>2. Types'
      BY <3>1 DEF Types, Size
    <3>3. Placed'
      BY <3>1 DEF Placed
    <3>4. Ordered(log', cache') /\ Ordered(work', cache' \cup out')
      BY <3>1
    <3> QED
      BY <3>2, <3>3, <3>4 DEF IInv, Ordered
  <2>2. CASE Next
    BY <1>1, <2>2, TaskHolds, FailHolds, ReadTaskHolds, HeadHolds, GetHolds DEF Next, Poll
  <2> QED
    BY <1>1, <2>1, <2>2
<1> QED
  BY <1>1, InitHolds, PTL DEF Spec
-----------------------------------------------------------------------------
(* Reading on in one file.                                                 *)

\* What was read of a file is its beginning.
LEMMA ReadIs ==
    ASSUME NEW f \in Seq(Byte), NEW n \in Nat, n <= Len(f)
    PROVE  /\ Read(f, n) \in Seq(Byte) /\ Len(Read(f, n)) = n
           /\ \A i \in 1..n : Read(f, n)[i] = f[i]
<1>1. 0 + 1 = 1 /\ 0 \in Nat /\ 0 <= n /\ n - 0 = n
  OBVIOUS
<1>2. /\ SubSeq(f, 0 + 1, n) \in Seq(Byte) /\ Len(SubSeq(f, 0 + 1, n)) = n - 0
      /\ \A i \in 1..n - 0 : SubSeq(f, 0 + 1, n)[i] = f[0 + i]
  BY <1>1, RangeIs
<1>3. \A i \in 1..n : 0 + i = i
  OBVIOUS
<1> QED
  BY <1>1, <1>2, <1>3 DEF Read

\* Reading on adds the bytes behind the offset.
LEMMA ReadMore ==
    ASSUME NEW f \in Seq(Byte), NEW n \in Nat, NEW m \in Nat, n <= m, m <= Len(f)
    PROVE  Read(f, m) = Read(f, n) \o SubSeq(f, n + 1, m)
<1> DEFINE r == Read(f, n)
           q == SubSeq(f, n + 1, m)
<1>1. r \in Seq(Byte) /\ Len(r) = n /\ \A i \in 1..n : r[i] = f[i]
  <2>1. n <= Len(f)
    OBVIOUS
  <2> QED
    BY <2>1, ReadIs
<1>2. q \in Seq(Byte) /\ Len(q) = m - n /\ \A i \in 1..m - n : q[i] = f[n + i]
  BY RangeIs
<1>3. Read(f, m) \in Seq(Byte) /\ Len(Read(f, m)) = m /\ \A i \in 1..m : Read(f, m)[i] = f[i]
  BY ReadIs
<1> HIDE DEF r, q
<1>4. /\ r \o q \in Seq(Byte) /\ Len(r \o q) = Len(r) + Len(q)
      /\ \A i \in 1..Len(r) + Len(q) : (r \o q)[i] = IF i <= Len(r) THEN r[i] ELSE q[i - Len(r)]
  BY <1>1, <1>2, ConcatProperties
<1>5. Len(r) + Len(q) = m
  BY <1>1, <1>2
<1>6. ASSUME NEW i \in 1..m PROVE Read(f, m)[i] = (r \o q)[i]
  <2>1. CASE i <= n
    <3>1. i \in 1..n
      BY <2>1
    <3> QED
      BY <1>1, <1>3, <1>4, <1>5, <2>1, <3>1
  <2>2. CASE ~(i <= n)
    <3>1. i - n \in 1..m - n /\ n + (i - n) = i
      BY <2>2
    <3> QED
      BY <1>1, <1>2, <1>3, <1>4, <1>5, <2>2, <3>1
  <2> QED
    BY <2>1, <2>2
<1>7. Read(f, m) = r \o q
  BY <1>3, <1>4, <1>5, <1>6, SeqEqual
<1> QED
  BY <1>7 DEF r, q

\* A byte that is written changes nothing of what was read.
LEMMA ReadOfMore ==
    ASSUME NEW f \in Seq(Byte), NEW b \in Byte, NEW n \in Nat, n <= Len(f)
    PROVE  Read(Append(f, b), n) = Read(f, n)
<1> DEFINE g == Append(f, b)
<1>1. g \in Seq(Byte) /\ Len(g) = Len(f) + 1 /\ \A i \in 1..Len(f) : g[i] = f[i]
  BY AppendProperties
<1> HIDE DEF g
<1>2. n <= Len(g) /\ \A i \in 1..n : i \in 1..Len(f)
  BY <1>1
<1>3. Read(f, n) \in Seq(Byte) /\ Len(Read(f, n)) = n /\ \A i \in 1..n : Read(f, n)[i] = f[i]
  BY ReadIs
<1>4. Read(g, n) \in Seq(Byte) /\ Len(Read(g, n)) = n /\ \A i \in 1..n : Read(g, n)[i] = g[i]
  BY <1>1, <1>2, ReadIs
<1>5. Read(g, n) = Read(f, n)
  BY <1>1, <1>2, <1>3, <1>4, SeqEqual
<1> QED
  BY <1>5 DEF g

\* One file is read on: the bytes behind the offset are cut behind the tail.
Continues(f, offset, tail, tailAt, told, end, kept, at, new) ==
    LET all == tail \o SubSeq(f, offset + 1, end)
        base == Base(tail, offset, tailAt)
    IN  /\ offset <= end /\ end <= Len(f)
        /\ kept \in {<<>>, Rest(all)}
        /\ at = IF kept # <<>> THEN base + Cut(all) ELSE end
        /\ new = told \cup Moved(base, LinesOf(all, kept))

\* That leaves what cutting the whole file up to the new offset would: the
\* heart of LinesAreExact.
LEMMA FollowsOn ==
    ASSUME NEW f \in Seq(Byte), NEW offset \in Nat, NEW tail \in Seq(Byte), NEW tailAt \in Nat,
           NEW told, NEW end \in Nat, NEW kept, NEW at, NEW new,
           Follows(f, offset, tail, tailAt, told),
           tail # Rest(Read(f, offset)) => offset = Len(f),
           Continues(f, offset, tail, tailAt, told, end, kept, at, new)
    PROVE  /\ Follows(f, end, kept, at, new)
           /\ kept = Rest(tail \o SubSeq(f, offset + 1, end)) /\ tail = Rest(Read(f, offset))
                  => kept = Rest(Read(f, end))
<1> DEFINE q == SubSeq(f, offset + 1, end)
           read == Read(f, offset)
           next == Read(f, end)
           all == tail \o q
           base == Base(tail, offset, tailAt)
<1>1. /\ offset <= Len(f) /\ told = LinesOf(read, tail)
      /\ tail # <<>> => tail = Rest(read) /\ tailAt = Cut(read)
      /\ offset <= end /\ end <= Len(f) /\ kept \in {<<>>, Rest(all)}
      /\ at = IF kept # <<>> THEN base + Cut(all) ELSE end
      /\ new = told \cup Moved(base, LinesOf(all, kept))
  BY DEF Follows, Continues
<1>2. read \in Seq(Byte) /\ Len(read) = offset /\ q \in Seq(Byte) /\ next = read \o q
  <2>1. read \in Seq(Byte) /\ Len(read) = offset
    BY <1>1, ReadIs
  <2>2. q \in Seq(Byte)
    BY <1>1, RangeIs
  <2> QED
    BY <1>1, <2>1, <2>2, ReadMore
<1>3. /\ Rest(read) \in Seq(Byte) /\ Len(Rest(read)) = Len(read) - Cut(read)
      /\ Cut(read) \in 0..Len(read)
  BY <1>2, RestIs, CutIs
<1>4. CASE tail = Rest(read)
  <2>1. base = Cut(read)
    <3>1. CASE tail = <<>>
      <4>1. Len(Rest(read)) = 0 /\ base = offset
        BY <3>1, <1>4, EmptySeq DEF Base
      <4>2. Len(read) \in Nat /\ Len(read) = offset
        BY <1>2
      <4>3. Cut(read) = offset
        <5> HIDE DEF read
        <5> QED
          BY <4>1, <4>2, <1>3
      <4> QED
        BY <4>1, <4>3
    <3>2. CASE tail # <<>>
      BY <3>2, <1>1 DEF Base
    <3> QED
      BY <3>1, <3>2
  <2>2. all = Rest(read) \o q
    BY <1>4
  <2> HIDE DEF q, read, next, all, base
  <2>3. /\ Cut(read \o q) = Cut(read) + Cut(Rest(read) \o q)
        /\ Rest(read \o q) = Rest(Rest(read) \o q)
        /\ Lines(read \o q) = Lines(read) \cup Moved(Cut(read), Lines(Rest(read) \o q))
    BY <1>2, ReadOn
  <2>4. /\ Cut(next) = base + Cut(all) /\ Rest(next) = Rest(all)
        /\ Lines(next) = Lines(read) \cup Moved(base, Lines(all))
    BY <1>2, <2>1, <2>2, <2>3
  <2>5. told = Lines(read)
    BY <1>1, <1>4 DEF LinesOf
  <2>6. told \cup Moved(base, LinesOf(all, kept)) = LinesOf(next, kept)
    <3> DEFINE last == IF Rest(all) = kept THEN {} ELSE {<<Cut(all), Rest(all)>>}
    <3>1. Moved(base, LinesOf(all, kept)) = Moved(base, Lines(all)) \cup Moved(base, last)
      BY DEF Moved, LinesOf
    <3>2. Moved(base, last) = IF Rest(next) = kept THEN {} ELSE {<<Cut(next), Rest(next)>>}
      <4>1. CASE Rest(all) = kept
        BY <2>4, <4>1 DEF Moved
      <4>2. CASE Rest(all) # kept
        <5>1. last = {<<Cut(all), Rest(all)>>} /\ Rest(next) # kept
          BY <2>4, <4>2
        <5>2. Moved(base, {<<Cut(all), Rest(all)>>}) = {<<base + Cut(all), Rest(all)>>}
          BY DEF Moved
        <5> HIDE DEF last
        <5> QED
          BY <2>4, <5>1, <5>2
      <4> QED
        BY <4>1, <4>2
    <3> QED
      BY <2>4, <2>5, <3>1, <3>2 DEF LinesOf
  <2>7. kept # <<>> => kept = Rest(next) /\ at = Cut(next)
    BY <1>1, <2>4
  <2>8. Follows(f, end, kept, at, new)
    BY <1>1, <2>6, <2>7 DEF Follows, next
  <2> QED
    BY <2>4, <2>8 DEF next, all, q
<1>5. CASE tail # Rest(read)
  <2>1. tail = <<>> /\ offset = Len(f)
    BY <1>1, <1>5
  <2>2. end = offset
    BY <1>1, <2>1
  <2>3. q = <<>>
    BY <2>2, RangeIs
  <2>4. all = <<>>
    BY <2>1, <2>3, ConcatEmptySeq, EmptySeq
  <2>5. kept = <<>> /\ LinesOf(all, kept) = {}
    BY <1>1, <2>4, EmptyIs DEF LinesOf
  <2>6. new = told
    <3>1. Moved(base, {}) = {}
      BY DEF Moved
    <3> HIDE DEF all, base
    <3> QED
      BY <1>1, <2>5, <3>1
  <2>7. Follows(f, end, kept, at, new)
    BY <1>1, <2>1, <2>2, <2>5, <2>6 DEF Follows
  <2> QED
    BY <1>5, <2>7
<1> QED
  BY <1>4, <1>5
-----------------------------------------------------------------------------
(* The second invariant is inductive.                                      *)

\* What checkpoints that advance by a range hold of the file that is read.
LEMMA AdvancedAt ==
    ASSUME Types, NEW c \in Checkpoints, NEW bytes \in Seq(Byte), NEW end \in Nat, NEW ended \in BOOLEAN
    PROVE  LET n == Advanced(c, bytes, end, ended)
               k == Kept(c, bytes, ended)
           IN  /\ n.offset[epoch][stream] = end /\ n.tail[epoch][stream] = k
               /\ n.tailAt[epoch][stream] = IF k # <<>> THEN BaseOf(c) + Cut(All(c, bytes)) ELSE end
               /\ SameBut(n, c, epoch, stream)
<1> DEFINE n == Advanced(c, bytes, end, ended)
           k == Kept(c, bytes, ended)
           m == IF k # <<>> THEN BaseOf(c) + Cut(All(c, bytes)) ELSE end
<1>1. epoch \in Attempt /\ stream \in Stream
  BY DEF Types
<1>2. k \in Seq(Byte) /\ All(c, bytes) \in Seq(Byte) /\ BaseOf(c) \in Nat
  BY AdvancedIs
<1>3. Cut(All(c, bytes)) \in Nat
  BY <1>2, CutOffIs
<1>4. m \in Nat
  BY <1>2, <1>3
<1>5. n = Stored(c, epoch, stream, end, k, m)
  BY DEF Advanced
<1> HIDE DEF k, m, n
<1>6. HoldsOf(n, epoch, stream, end, k, m)
  BY <1>1, <1>2, <1>4, <1>5, StoredIs
<1>7. SameBut(n, c, epoch, stream)
  BY <1>1, <1>2, <1>4, <1>5, StoredIs
<1> QED
  BY <1>6, <1>7 DEF m, k, n, HoldsOf

\* Which lines are fresh.
LEMMA FreshAre ==
    ASSUME Types, NEW c \in Checkpoints, NEW bytes \in Seq(Byte), NEW ended \in BOOLEAN
    PROVE  LET N == Fresh(c, bytes, ended)
           IN  /\ N \subseteq Entry
               /\ \A l \in N : l.epoch = epoch /\ l.stream = stream /\ l.generation = c.generation
               /\ {<<l.at, l.text>> : l \in N} = Moved(BaseOf(c), CutOff(All(c, bytes), ended))
<1> DEFINE lines == Moved(BaseOf(c), CutOff(All(c, bytes), ended))
           N == Fresh(c, bytes, ended)
<1>1. lines \subseteq Nat \X Seq(Byte) /\ epoch \in Attempt /\ stream \in Stream
  <2>1. 0 \in Nat
    OBVIOUS
  <2> QED
    BY <2>1, AdvancedIs DEF Types
<1>2. N = Entries(c, epoch, stream, lines)
  BY DEF Fresh
<1> HIDE DEF lines, N
<1>3. /\ N \subseteq Entry
      /\ \A l \in N : l.epoch = epoch /\ l.stream = stream /\ l.generation = c.generation
      /\ {<<l.at, l.text>> : l \in N} = lines
  BY <1>1, <1>2, EntriesAre
<1> QED
  BY <1>3 DEF lines, N

\* What a poll has read is told in the stream and the epoch it reads.
LEMMA ToldHere ==
    ASSUME NEW L, NEW N, NEW a, NEW s, \A l \in N : l.epoch = a /\ l.stream = s
    PROVE  Told(L \cup N, a, s) = Told(L, a, s) \cup {<<l.at, l.text>> : l \in N}
  BY DEF Told

\* Checkpoints that advance by a range stay within the file.
LEMMA WithinOn ==
    ASSUME Types, NEW c \in Checkpoints, NEW L \in SUBSET Entry, Within(c, L), c.active = epoch,
           NEW bytes \in Seq(Byte), NEW end \in Nat, NEW ended \in BOOLEAN,
           end <= Size(stream), c.offset[epoch][stream] <= end,
           Len(bytes) = end - c.offset[epoch][stream], Len(Kept(c, bytes, ended)) <= LineLimit
    PROVE  Within(Advanced(c, bytes, end, ended), L \cup Fresh(c, bytes, ended))
<1> DEFINE n == Advanced(c, bytes, end, ended)
           k == Kept(c, bytes, ended)
           N == Fresh(c, bytes, ended)
           all == All(c, bytes)
           base == BaseOf(c)
           at == IF k # <<>> THEN base + Cut(all) ELSE end
           offset == c.offset[epoch][stream]
           tail == c.tail[epoch][stream]
<1>1. /\ epoch \in Attempt /\ stream \in Stream /\ Size(stream) \in Nat
      /\ offset \in Nat /\ tail \in Seq(Byte) /\ c.tailAt[epoch][stream] \in Nat
  BY SizesAre DEF Types, Checkpoints
<1>2. tail # <<>> => c.tailAt[epoch][stream] + Len(tail) = offset
  BY <1>1 DEF Within
<1>3. base \in Nat /\ all \in Seq(Byte) /\ k \in Seq(Byte)
  <2>1. 0 \in Nat
    OBVIOUS
  <2> QED
    BY <2>1, AdvancedIs
<1>4. base + Len(all) = end
  <2>1. Len(all) = Len(tail) + Len(bytes)
    BY <1>1, ConcatProperties DEF All
  <2>2. CASE tail = <<>>
    <3>1. Len(tail) = 0 /\ base = offset
      BY <2>2, EmptySeq DEF BaseOf, Base
    <3>2. Len(all) = end - offset
      <4> HIDE DEF all, tail, offset
      <4> QED
        BY <1>1, <2>1, <3>1 DEF offset
    <3> HIDE DEF all, base, offset
    <3> QED
      BY <1>1, <3>1, <3>2
  <2>3. CASE tail # <<>>
    <3>1. base = c.tailAt[epoch][stream] /\ base + Len(tail) = offset
      BY <1>2, <2>3 DEF BaseOf, Base
    <3>2. Len(tail) \in Nat /\ Len(bytes) = end - offset
      BY <1>1
    <3>3. offset \in Nat /\ base \in Nat
      BY <1>1, <1>3
    <3>4. Len(all) = Len(tail) + (end - offset)
      BY <2>1, <3>2
    <3>5. base + Len(tail) = offset
      BY <3>1
    <3> HIDE DEF all, tail, base, offset
    <3> QED
      BY <3>2, <3>3, <3>4, <3>5
  <2> QED
    BY <2>2, <2>3
<1> HIDE DEF offset, tail
<1>5. /\ n.offset[epoch][stream] = end /\ n.tail[epoch][stream] = k /\ n.tailAt[epoch][stream] = at
      /\ SameBut(n, c, epoch, stream)
      /\ n.active = epoch
  <2>1. n.active = epoch
    BY AdvancedIs DEF SameEpoch
  <2>2. /\ n.offset[epoch][stream] = end /\ n.tail[epoch][stream] = k /\ n.tailAt[epoch][stream] = at
        /\ SameBut(n, c, epoch, stream)
    BY AdvancedAt
  <2> QED
    BY <2>1, <2>2
<1>6. /\ Cut(all) \in Nat /\ Len(all) \in Nat /\ Len(k) \in Nat
      /\ k # <<>> => Cut(all) + Len(k) = Len(all)
      /\ \A l \in CutOff(all, ended) :
             /\ l = <<l[1], l[2]>> /\ l[1] \in Nat /\ l[2] \in Seq(Byte) /\ l[1] + Len(l[2]) <= Len(all)
  <2>1. k = KeptOf(all, ended)
    BY DEF Kept
  <2> HIDE DEF k, all
  <2>2. /\ Cut(all) \in Nat
        /\ KeptOf(all, ended) # <<>> => Cut(all) + Len(KeptOf(all, ended)) = Len(all)
        /\ \A l \in CutOff(all, ended) :
               /\ l = <<l[1], l[2]>> /\ l[1] \in Nat /\ l[2] \in Seq(Byte) /\ l[1] + Len(l[2]) <= Len(all)
    BY <1>3, CutOffIs
  <2>3. Len(all) \in Nat /\ Len(k) \in Nat
    BY <1>3
  <2> QED
    BY <2>1, <2>2, <2>3
<1>7. /\ \A l \in N : l \in Entry /\ l.stream = stream
      /\ \A l \in N : <<l.at, l.text>> \in Moved(base, CutOff(all, ended))
  <2>1. /\ N \subseteq Entry /\ \A l \in N : l.stream = stream
        /\ {<<l.at, l.text>> : l \in N} = Moved(base, CutOff(all, ended))
    BY FreshAre
  <2> HIDE DEF N, base, all
  <2> QED
    BY <2>1
<1> HIDE DEF n, k, N, all, base
<1>8. at <= end /\ at \in Nat /\ (k # <<>> => at + Len(k) = end)
  BY <1>3, <1>4, <1>6
<1>9. ASSUME NEW l \in N PROVE l.at + Len(l.text) <= Size(l.stream)
  <2>1. PICK m \in CutOff(all, ended) : <<l.at, l.text>> = <<base + m[1], m[2]>>
    BY <1>7 DEF Moved
  <2>2. l.at = base + m[1] /\ l.text = m[2] /\ m[1] \in Nat /\ Len(m[2]) \in Nat /\ m[1] + Len(m[2]) <= Len(all)
    BY <2>1, <1>6
  <2>3. l.at + Len(l.text) <= end
    BY <1>3, <1>4, <1>6, <2>2
  <2>4. l.at + Len(l.text) \in Nat
    BY <1>3, <2>2
  <2> QED
    BY <1>1, <1>7, <2>3, <2>4
<1> HIDE DEF at
<1>10. ASSUME NEW a \in Attempt, NEW s \in Stream
       PROVE  /\ n.offset[a][s] <= Size(s) /\ n.tailAt[a][s] <= Size(s) /\ Len(n.tail[a][s]) <= LineLimit
              /\ n.tail[a][s] # <<>> => n.tailAt[a][s] + Len(n.tail[a][s]) = n.offset[a][s]
              /\ a # n.active => n.tail[a][s] = <<>>
  <2>1. CASE a = epoch /\ s = stream
    <3>1. at <= Size(stream)
      BY <1>1, <1>8
    <3> QED
      BY <2>1, <3>1, <1>5, <1>8 DEF k
  <2>2. CASE ~(a = epoch /\ s = stream)
    BY <2>2, <1>5 DEF Within, SameBut
  <2> QED
    BY <2>1, <2>2
<1>11. \A l \in L : l.at + Len(l.text) <= Size(l.stream)
  BY DEF Within
<1>12. Within(n, L \cup N)
  BY <1>9, <1>10, <1>11 DEF Within
<1> QED
  BY <1>12 DEF n, N

\* A range read at the active epoch keeps all files exact.
LEMMA ExactOn ==
    ASSUME Types, NEW c \in Checkpoints, NEW L \in SUBSET Entry, Exact(c, L), c.active = epoch,
           NEW end \in Nat, NEW ended \in BOOLEAN, NEW bytes \in Seq(Byte),
           epoch \notin raced =>
               /\ c.offset[epoch][stream] <= end /\ end <= Len(file[epoch][stream])
               /\ bytes = SubSeq(file[epoch][stream], c.offset[epoch][stream] + 1, end)
               /\ ended => over /\ end = Len(file[epoch][stream])
    PROVE  Exact(Advanced(c, bytes, end, ended), L \cup Fresh(c, bytes, ended))
<1> DEFINE n == Advanced(c, bytes, end, ended)
           N == Fresh(c, bytes, ended)
<1>1. /\ epoch \in Attempt /\ stream \in Stream /\ over \in BOOLEAN
      /\ file[epoch][stream] \in Seq(Byte) /\ c.offset[epoch][stream] \in Nat
      /\ c.tail[epoch][stream] \in Seq(Byte) /\ c.tailAt[epoch][stream] \in Nat
  BY DEF Types, Checkpoints
<1>2. /\ n.offset[epoch][stream] = end /\ n.tail[epoch][stream] = Kept(c, bytes, ended)
      /\ n.tailAt[epoch][stream] =
             IF Kept(c, bytes, ended) # <<>> THEN BaseOf(c) + Cut(All(c, bytes)) ELSE end
      /\ SameBut(n, c, epoch, stream)
  BY AdvancedAt
<1>3. n.active = epoch
  BY AdvancedIs DEF SameEpoch
<1>4. /\ \A l \in N : l.epoch = epoch /\ l.stream = stream
      /\ {<<l.at, l.text>> : l \in N} = Moved(BaseOf(c), CutOff(All(c, bytes), ended))
  BY FreshAre
<1>5. ASSUME epoch \notin raced
      PROVE  /\ Follows(file[epoch][stream], n.offset[epoch][stream], n.tail[epoch][stream],
                        n.tailAt[epoch][stream], Told(L \cup N, epoch, stream))
             /\ n.tail[epoch][stream] # Rest(Read(file[epoch][stream], n.offset[epoch][stream])) =>
                    over /\ n.offset[epoch][stream] = Len(file[epoch][stream])
  <2> DEFINE f == file[epoch][stream]
             offset == c.offset[epoch][stream]
             tail == c.tail[epoch][stream]
             tailAt == c.tailAt[epoch][stream]
             told == Told(L, epoch, stream)
             all == All(c, bytes)
             base == BaseOf(c)
             kept == Kept(c, bytes, ended)
             at == IF kept # <<>> THEN base + Cut(all) ELSE end
  <2>1. ~(epoch < c.active)
    BY <1>1 DEF Attempt
  <2>2. /\ offset <= end /\ end <= Len(f) /\ bytes = SubSeq(f, offset + 1, end)
        /\ ended => over /\ end = Len(f)
    BY <1>5
  <2>3. /\ Follows(f, offset, tail, tailAt, told)
        /\ tail # Rest(Read(f, offset)) => over /\ offset = Len(f)
    BY <1>1, <1>5, <2>1 DEF Exact
  <2>4. all = tail \o SubSeq(f, offset + 1, end) /\ base = Base(tail, offset, tailAt)
    BY <2>2 DEF All, BaseOf
  <2>5. kept \in {<<>>, Rest(all)} /\ (~ended => kept = Rest(all)) /\ LinesOf(all, kept) = CutOff(all, ended)
    BY DEF Kept, KeptOf, CutOff
  <2>6. Told(L \cup N, epoch, stream) = told \cup Moved(base, LinesOf(all, kept))
    <3>1. {<<l.at, l.text>> : l \in N} = Moved(base, LinesOf(all, kept))
      BY <1>4, <2>5
    <3>2. \A l \in N : l.epoch = epoch /\ l.stream = stream
      BY <1>4
    <3> HIDE DEF N, base, all, kept
    <3>3. Told(L \cup N, epoch, stream) = Told(L, epoch, stream) \cup {<<l.at, l.text>> : l \in N}
      BY <3>2, ToldHere
    <3> QED
      BY <3>1, <3>3
  <2>7. /\ n.offset[epoch][stream] = end /\ n.tail[epoch][stream] = kept
        /\ n.tailAt[epoch][stream] = at
    BY <1>2
  <2>8. /\ f \in Seq(Byte) /\ offset \in Nat /\ tail \in Seq(Byte) /\ tailAt \in Nat
        /\ at = IF kept # <<>> THEN base + Cut(all) ELSE end
    BY <1>1
  <2> DEFINE new == told \cup Moved(base, LinesOf(all, kept))
  <2>9. Continues(f, offset, tail, tailAt, told, end, kept, at, new)
    <3> HIDE DEF kept, at, told, n, N, f, offset, tail, tailAt, all, base
    <3> QED
      BY <2>2, <2>4, <2>5, <2>8 DEF Continues
  <2> HIDE DEF new, kept, at, all, base, told, n, N, f, offset, tail, tailAt
  <2>10. /\ Follows(f, end, kept, at, new)
         /\ kept = Rest(tail \o SubSeq(f, offset + 1, end)) /\ tail = Rest(Read(f, offset))
                => kept = Rest(Read(f, end))
    BY <2>3, <2>8, <2>9, FollowsOn
  <2>11. kept # Rest(Read(f, end)) => over /\ end = Len(f)
    <3>1. CASE ended
      BY <2>2, <3>1
    <3>2. CASE ~ended /\ kept # Rest(Read(f, end))
      <4>1. over /\ offset = Len(f)
        BY <2>3, <2>4, <2>5, <2>10, <3>2
      <4>2. Len(f) \in Nat
        BY <2>8
      <4> QED
        BY <2>2, <2>8, <4>1, <4>2
    <3> QED
      BY <3>1, <3>2
  <2> QED
    BY <2>6, <2>7, <2>11, <2>10 DEF f, new
<1> HIDE DEF n, N
<1>6. ASSUME NEW a \in Attempt \ raced, NEW s \in Stream, ~(a = epoch /\ s = stream)
      PROVE  /\ Follows(file[a][s], n.offset[a][s], n.tail[a][s], n.tailAt[a][s], Told(L \cup N, a, s))
             /\ n.tail[a][s] # Rest(Read(file[a][s], n.offset[a][s])) =>
                    a < n.active \/ (over /\ n.offset[a][s] = Len(file[a][s]))
  <2>1. Told(L \cup N, a, s) = Told(L, a, s)
    <3>1. \A l \in N : ~(l.epoch = a /\ l.stream = s)
      BY <1>4, <1>6
    <3> QED
      BY <3>1 DEF Told
  <2>2. n.offset[a][s] = c.offset[a][s] /\ n.tail[a][s] = c.tail[a][s] /\ n.tailAt[a][s] = c.tailAt[a][s]
    BY <1>2, <1>6 DEF SameBut
  <2>3. /\ Follows(file[a][s], c.offset[a][s], c.tail[a][s], c.tailAt[a][s], Told(L, a, s))
        /\ c.tail[a][s] # Rest(Read(file[a][s], c.offset[a][s])) =>
               a < c.active \/ (over /\ c.offset[a][s] = Len(file[a][s]))
    BY DEF Exact
  <2> QED
    BY <1>3, <2>1, <2>2, <2>3
<1>7. Exact(n, L \cup N)
  BY <1>5, <1>6 DEF Exact
<1> QED
  BY <1>7 DEF n, N

\* The lines told of a file start at different places, so dropping a line whose
\* identity is known drops one that is there already.
LEMMA OneTold ==
    ASSUME NEW b \in Seq(Byte), NEW tail, NEW k \in LinesOf(b, tail), NEW l \in LinesOf(b, tail), k[1] = l[1]
    PROVE  k = l
<1>1. Cut(b) \in Nat
  BY CutIs
<1>2. ASSUME NEW m \in Lines(b) PROVE m[1] # Cut(b)
  <2>1. m[1] \in Nat /\ m[2] \in Seq(Byte) /\ m[1] + Len(m[2]) < Cut(b)
    BY LinesAre
  <2>2. Len(m[2]) \in Nat
    BY <2>1
  <2> QED
    BY <1>1, <2>1, <2>2
<1>3. CASE k \in Lines(b) /\ l \in Lines(b)
  BY <1>3, OneLineAt
<1>4. CASE ~(k \in Lines(b) /\ l \in Lines(b))
  <2>1. k = <<Cut(b), Rest(b)>> \/ l = <<Cut(b), Rest(b)>>
    BY <1>4 DEF LinesOf
  <2>2. k[1] = Cut(b) /\ l[1] = Cut(b)
    BY <2>1
  <2>3. k \notin Lines(b) /\ l \notin Lines(b)
    BY <1>2, <2>2
  <2> QED
    BY <2>3 DEF LinesOf
<1> QED
  BY <1>3, <1>4

\* merge_logs() keeps the copies exact.
LEMMA Merge ==
    ASSUME Types, NEW c \in Checkpoints, NEW L \in SUBSET Entry, Exact(c, cache \cup L)
    PROVE  Exact(c, cache \cup {l \in L : ~Known(l)})
<1> DEFINE M == cache \cup {l \in L : ~Known(l)}
           All0 == cache \cup L
<1>1. ASSUME NEW a \in Attempt \ raced, NEW s \in Stream
      PROVE  Told(M, a, s) = Told(All0, a, s)
  <2> DEFINE b == Read(file[a][s], c.offset[a][s])
             tail == c.tail[a][s]
  <2>1. file[a][s] \in Seq(Byte) /\ c.offset[a][s] \in Nat
    BY DEF Types, Checkpoints
  <2>2. c.offset[a][s] <= Len(file[a][s]) /\ Told(All0, a, s) = LinesOf(b, tail)
    BY DEF Exact, Follows
  <2>3. b \in Seq(Byte)
    BY <2>1, <2>2, ReadIs
  <2> HIDE DEF b, tail
  <2>4. ASSUME NEW l \in L, Known(l), l.epoch = a, l.stream = s
        PROVE  <<l.at, l.text>> \in Told(M, a, s)
    <3>1. PICK k \in cache : k.epoch = a /\ k.stream = s /\ k.at = l.at
      BY <2>4 DEF Known
    <3>2. <<k.at, k.text>> \in Told(All0, a, s) /\ <<l.at, l.text>> \in Told(All0, a, s)
      BY <2>4, <3>1 DEF Told
    <3>3. <<k.at, k.text>> = <<l.at, l.text>>
      <4> DEFINE u == <<k.at, k.text>>
                 v == <<l.at, l.text>>
      <4>1. u[1] = v[1] /\ u \in LinesOf(b, tail) /\ v \in LinesOf(b, tail)
        BY <2>2, <3>1, <3>2
      <4> HIDE DEF u, v
      <4>2. u = v
        BY <2>3, <4>1, OneTold
      <4> QED
        BY <4>2 DEF u, v
    <3>4. <<k.at, k.text>> \in Told(M, a, s)
      BY <3>1 DEF Told
    <3> QED
      BY <3>3, <3>4
  <2>5. ASSUME NEW l \in All0, l.epoch = a, l.stream = s
        PROVE  <<l.at, l.text>> \in Told(M, a, s)
    <3>1. CASE l \in M
      BY <2>5, <3>1 DEF Told
    <3>2. CASE l \notin M
      BY <2>4, <2>5, <3>2
    <3> QED
      BY <3>1, <3>2
  <2>6. Told(M, a, s) \subseteq Told(All0, a, s)
    BY DEF Told
  <2>7. Told(All0, a, s) \subseteq Told(M, a, s)
    <3> HIDE DEF M, All0
    <3> SUFFICES ASSUME NEW t \in Told(All0, a, s) PROVE t \in Told(M, a, s)
      OBVIOUS
    <3>1. PICK l \in All0 : l.epoch = a /\ l.stream = s /\ t = <<l.at, l.text>>
      BY DEF Told
    <3> QED
      BY <2>5, <3>1
  <2> QED
    BY <2>6, <2>7
<1> HIDE DEF M
<1>2. Exact(c, M)
  BY <1>1 DEF Exact
<1> QED
  BY <1>2 DEF M

\* Whatever copies the poll goes on with, or ends with, again.
LEMMA ProceedsExactly ==
    ASSUME IInv, Accurate, pc # "idle", UNCHANGED <<task, raced>>,
           NEW c \in Checkpoints, NEW L \in SUBSET Entry,
           Within(c, cache \cup L), Exact(c, cache \cup L), Proceed(c, L)
    PROVE  Accurate'
<1>1. UNCHANGED <<file, over, raced>>
  BY DEF task
<1>2. CASE stream = "stdout"
  <2>1. /\ pc' = "head" /\ work' = c /\ out' = L
        /\ UNCHANGED <<log, cache>>
    BY <1>2 DEF Proceed
  <2>2. Exact(log, cache)' /\ Within(log, cache)'
    BY <1>1, <2>1 DEF Accurate, Exact, Within, Size
  <2>3. Exact(work, cache \cup out)' /\ Within(work, cache \cup out)'
    <3> DEFINE M == cache \cup L
    <3>1. Exact(c, M) /\ Within(c, M) /\ work' = c /\ (cache \cup out)' = M
      BY <2>1
    <3> HIDE DEF M
    <3> QED
      BY <1>1, <3>1 DEF Exact, Within, Size
  <2> QED
    BY <2>1, <2>2, <2>3 DEF Accurate, Ranged
<1>3. CASE stream # "stdout"
  <2> DEFINE M == cache \cup {l \in L : ~Known(l)}
  <2>1. /\ log' = c /\ work' = c /\ out' = {} /\ cache' = M /\ pc' = "idle"
    BY <1>3 DEF Proceed, Idle
  <2>2. Exact(c, M)
    BY Merge DEF IInv
  <2>3. Within(c, M)
    BY DEF Within
  <2>4. (cache \cup out)' = M
    BY <2>1
  <2> HIDE DEF M
  <2>5. Exact(log, cache)' /\ Within(log, cache)'
    BY <1>1, <2>1, <2>2, <2>3 DEF Exact, Within, Size
  <2>6. Exact(work, cache \cup out)' /\ Within(work, cache \cup out)'
    BY <1>1, <2>1, <2>2, <2>3, <2>4 DEF Exact, Within, Size
  <2> QED
    BY <2>1, <2>5, <2>6 DEF Accurate, Ranged
<1> QED
  BY <1>2, <1>3

\* A range is taken: its bytes are those behind the offset, up to an end that
\* is that of the file when all output has ended.
LEMMA TakesExactly ==
    ASSUME IInv, Accurate, pc # "idle", UNCHANGED <<task, raced>>,
           NEW c \in Checkpoints, c.active = work.active,
           Within(c, cache \cup out), Exact(c, cache \cup out),
           NEW bytes \in Seq(Byte), NEW end \in Nat, NEW size, TakeBytes(c, bytes, end, size),
           end <= Size(stream), c.offset[epoch][stream] <= end,
           Len(bytes) = end - c.offset[epoch][stream],
           epoch \notin raced =>
               /\ end <= Len(file[epoch][stream])
               /\ bytes = SubSeq(file[epoch][stream], c.offset[epoch][stream] + 1, end)
               /\ final /\ end = size => over /\ end = Len(file[epoch][stream])
    PROVE  Accurate'
<1> DEFINE ended == final /\ end = size
           n == Advanced(c, bytes, end, ended)
           N == Fresh(c, bytes, ended)
           L == cache \cup out
<1>1. /\ Types /\ final \in BOOLEAN /\ L \in SUBSET Entry /\ out \in SUBSET Entry /\ c.active = epoch
  BY DEF IInv, Types, Placed
<1>2. Proceed(n, out \cup N) /\ Len(Kept(c, bytes, ended)) <= LineLimit
  BY TakeBytesIs
<1>3. ended \in BOOLEAN /\ (epoch \notin raced /\ ended => over /\ end = Len(file[epoch][stream]))
  BY <1>1
<1> HIDE DEF ended, L
<1>4. n \in Checkpoints
  BY <1>1, <1>3, AdvancedIs
<1>5. N \in SUBSET Entry
  BY <1>1, <1>3, FreshAre
<1>6. Within(n, L \cup N)
  <2>1. Within(c, L)
    BY DEF L
  <2> QED
    BY <1>1, <1>2, <1>3, <2>1, WithinOn
<1>7. Exact(n, L \cup N)
  <2>1. Exact(c, L)
    BY DEF L
  <2> QED
    BY <1>1, <1>3, <2>1, ExactOn
<1> HIDE DEF n, N
<1>8. L \cup N = cache \cup (out \cup N) /\ out \cup N \in SUBSET Entry
  BY <1>1, <1>5 DEF L
<1>9. Within(n, cache \cup (out \cup N)) /\ Exact(n, cache \cup (out \cup N))
  BY <1>6, <1>7, <1>8, Zenon
<1> QED
  BY <1>2, <1>4, <1>8, <1>9, ProceedsExactly

\* Nothing was read, and nothing is told.
LEMMA InitExactly == Init => Accurate
<1> SUFFICES ASSUME Init PROVE Accurate
  OBVIOUS
<1>1. /\ \A a \in Attempt, s \in Stream : ForEach(<<>>)[a][s] = <<>> /\ ForEach(0)[a][s] = 0
      /\ <<>> \in Seq(Byte) /\ Len(<<>>) = 0 /\ \A s \in Stream : Size(s) \in Nat
  BY SizesAre, EmptySeq DEF ForEach
<1>2. /\ \A a \in Attempt, s \in Stream : /\ file[a][s] = <<>> /\ log.offset[a][s] = 0
                                          /\ log.tail[a][s] = <<>> /\ log.tailAt[a][s] = 0
      /\ work = log /\ cache = {} /\ out = {} /\ pc = "idle"
  BY <1>1 DEF Init
<1>3. Within(log, {})
  <2>1. LineLimit \in Nat
    BY AzureLogsAssumption
  <2> QED
    BY <1>1, <1>2, <2>1 DEF Within
<1>4. Follows(<<>>, 0, <<>>, 0, {}) /\ <<>> = Rest(Read(<<>>, 0))
  <2>1. Read(<<>>, 0) = <<>>
    <3>1. 0 \in Nat /\ 0 <= Len(<<>>)
      BY <1>1
    <3>2. Read(<<>>, 0) \in Seq(Byte) /\ Len(Read(<<>>, 0)) = 0
      BY <1>1, <3>1, ReadIs
    <3> QED
      BY <3>2, EmptySeq
  <2>2. LinesOf(<<>>, <<>>) = {}
    BY EmptyIs DEF LinesOf
  <2>3. 0 <= Len(<<>>)
    BY <1>1
  <2> QED
    BY <2>1, <2>2, <2>3, EmptyIs DEF Follows
<1>5. \A a, s : Told({}, a, s) = {}
  BY DEF Told
<1>6. Exact(log, {})
  BY <1>2, <1>4, <1>5 DEF Exact
<1>7. cache \cup out = {}
  BY <1>2
<1> QED
  BY <1>2, <1>3, <1>6, <1>7 DEF Accurate, Ranged

\* The same checkpoints and lines are exact of what the files are next.
StillExact(c, L) ==
    \A a \in Attempt \ raced', s \in Stream :
        /\ Follows(file'[a][s], c.offset[a][s], c.tail[a][s], c.tailAt[a][s], Told(L, a, s))
        /\ c.tail[a][s] # Rest(Read(file'[a][s], c.offset[a][s])) =>
               a < c.active \/ (over' /\ c.offset[a][s] = Len(file'[a][s]))

\* What the task writes behind what was read does not matter.
LEMMA WriteExactly ==
    ASSUME Types, NEW s \in Stream, NEW b \in Byte, Write(s, b), NEW c \in Checkpoints, NEW L, Exact(c, L)
    PROVE  StillExact(c, L)
<1>1. /\ ~over /\ file' = [file EXCEPT ![attempt][s] = Append(@, b)] /\ over' = over /\ raced' = raced
      /\ file \in [Attempt -> [Stream -> Seq(Byte)]] /\ attempt \in Attempt
  BY DEF Write, Types
<1>2. ASSUME NEW a \in Attempt \ raced, NEW t \in Stream
      PROVE  /\ Follows(file'[a][t], c.offset[a][t], c.tail[a][t], c.tailAt[a][t], Told(L, a, t))
             /\ c.tail[a][t] # Rest(Read(file'[a][t], c.offset[a][t])) => a < c.active
  <2> DEFINE f == file[a][t]
             g == file'[a][t]
             n == c.offset[a][t]
  <2>1. f \in Seq(Byte) /\ n \in Nat
    BY <1>1 DEF Checkpoints
  <2>2. /\ Follows(f, n, c.tail[a][t], c.tailAt[a][t], Told(L, a, t))
        /\ c.tail[a][t] # Rest(Read(f, n)) => a < c.active
    BY <1>1 DEF Exact
  <2>3. g = f \/ g = Append(f, b)
    BY <1>1
  <2>4. n <= Len(f)
    BY <2>2 DEF Follows
  <2> HIDE DEF f, g, n
  <2>5. Read(g, n) = Read(f, n) /\ n <= Len(g)
    <3>1. CASE g = f
      BY <2>4, <3>1
    <3>2. CASE g = Append(f, b)
      <4>1. Len(g) = Len(f) + 1 /\ Len(f) \in Nat
        BY <2>1, <3>2, AppendProperties
      <4>2. n <= Len(g)
        BY <2>1, <2>4, <4>1
      <4>3. Read(Append(f, b), n) = Read(f, n)
        BY <2>1, <2>4, ReadOfMore
      <4> QED
        BY <3>2, <4>2, <4>3
    <3> QED
      BY <2>3, <3>1, <3>2
  <2>6. /\ Follows(g, n, c.tail[a][t], c.tailAt[a][t], Told(L, a, t))
        /\ c.tail[a][t] # Rest(Read(g, n)) => a < c.active
    BY <2>2, <2>5 DEF Follows
  <2> QED
    BY <2>6 DEF g, n
<1> QED
  BY <1>1, <1>2 DEF StillExact

\* The task can write, be tried again or end without making a line wrong.
LEMMA TaskExactly ==
    ASSUME IInv, Accurate, Task
    PROVE  Accurate'
<1>1. ASSUME NEW s \in Stream, NEW b \in Byte, Write(s, b) PROVE Accurate'
  <2>1. /\ file' = [file EXCEPT ![attempt][s] = Append(@, b)] /\ ~over
        /\ UNCHANGED <<over, raced, log, cache, pc, work, out, epoch, final, stream, length>>
    BY <1>1 DEF Write, poll
  <2>2. Types /\ log \in Checkpoints /\ work \in Checkpoints
    BY DEF IInv, Types
  <2>3. Exact(log, cache)' /\ Exact(work, cache \cup out)'
    <3>1. StillExact(log, cache)
      BY <1>1, <2>2, WriteExactly DEF Accurate
    <3>2. StillExact(work, cache \cup out)
      <4> DEFINE L == cache \cup out
      <4>1. Exact(work, L)
        BY DEF Accurate
      <4> HIDE DEF L
      <4>2. StillExact(work, L)
        BY <1>1, <2>2, <4>1, WriteExactly
      <4> QED
        BY <4>2 DEF L
    <3> QED
      BY <2>1, <3>1, <3>2 DEF StillExact, Exact
  <2>4. Within(log, cache)' /\ Within(work, cache \cup out)'
    BY <2>1 DEF Accurate, Within, Size
  <2>5. Ranged'
    <3>1. ASSUME pc = "get", epoch \notin raced
          PROVE  length <= Len(file'[epoch][stream]) /\ ~final
      <4>1. /\ file[epoch][stream] \in Seq(Byte) /\ epoch \in Attempt /\ stream \in Stream
            /\ length \in Nat /\ length <= Len(file[epoch][stream]) /\ ~final
        BY <2>1, <3>1, SizesAre DEF IInv, Types, Placed, Accurate, Ranged
      <4>2. file'[epoch][stream] \in {file[epoch][stream], Append(file[epoch][stream], b)}
        BY <2>1, <2>2, <4>1 DEF Types
      <4>3. Len(Append(file[epoch][stream], b)) = Len(file[epoch][stream]) + 1 /\ Len(file[epoch][stream]) \in Nat
        BY <4>1, AppendProperties
      <4> QED
        BY <4>1, <4>2, <4>3
    <3> QED
      BY <2>1, <3>1 DEF Accurate, Ranged
  <2> QED
    BY <2>3, <2>4, <2>5 DEF Accurate
<1>2. CASE Retry
  <2>1. /\ raced \subseteq raced'
        /\ UNCHANGED <<file, over, log, cache, pc, work, out, epoch, final, stream, length>>
    BY <1>2 DEF Retry, poll
  <2>2. Exact(log, cache)' /\ Exact(work, cache \cup out)'
    BY <2>1 DEF Accurate, Exact
  <2>3. Within(log, cache)' /\ Within(work, cache \cup out)'
    BY <2>1 DEF Accurate, Within, Size
  <2>4. Ranged'
    BY <2>1 DEF Accurate, Ranged
  <2> QED
    BY <2>2, <2>3, <2>4 DEF Accurate
<1>3. CASE Complete
  <2>1. /\ over' = TRUE
        /\ UNCHANGED <<file, raced, log, cache, pc, work, out, epoch, final, stream, length>>
    BY <1>3 DEF Complete, poll
  <2>2. Exact(log, cache)' /\ Exact(work, cache \cup out)'
    BY <2>1 DEF Accurate, Exact
  <2>3. Within(log, cache)' /\ Within(work, cache \cup out)'
    BY <2>1 DEF Accurate, Within, Size
  <2>4. Ranged'
    BY <2>1 DEF Accurate, Ranged
  <2> QED
    BY <2>2, <2>3, <2>4 DEF Accurate
<1> QED
  BY <1>1, <1>2, <1>3 DEF Task

\* A poll that fails goes back to checkpoints that are exact.
LEMMA FailExactly ==
    ASSUME IInv, Accurate, PollFails
    PROVE  Accurate'
<1>1. /\ pc' = "idle" /\ work' = log /\ out' = {} /\ UNCHANGED <<file, over, raced, log, cache>>
  BY DEF PollFails, Idle, task
<1>2. (cache \cup out)' = cache
  BY <1>1
<1>3. Exact(log, cache) /\ Within(log, cache)
  BY DEF Accurate
<1>4. Exact(log, cache)' /\ Within(log, cache)'
  BY <1>1, <1>3 DEF Exact, Within, Size
<1>5. Exact(work, cache \cup out)' /\ Within(work, cache \cup out)'
  BY <1>1, <1>2, <1>3 DEF Exact, Within, Size
<1> QED
  BY <1>1, <1>4, <1>5 DEF Accurate, Ranged

\* The tails of an epoch that is left become lines as they are.
LEMMA FlushIs ==
    ASSUME IInv, log.active \in Attempt, NEW L, L = UNION {FlushedLine(s) : s \in Flushing}
    PROVE  /\ \A l \in L : /\ l.epoch = log.active /\ l.stream \in Flushing
                           /\ <<l.at, l.text>> = <<log.tailAt[log.active][l.stream], log.tail[log.active][l.stream]>>
           /\ \A s \in Flushing :
                  <<log.tailAt[log.active][s], log.tail[log.active][s]>> \in Told(L, log.active, s)
<1> DEFINE old == log.active
           line(s) == <<log.tailAt[old][s], log.tail[old][s]>>
<1>1. ASSUME NEW s \in Flushing
      PROVE  /\ \A l \in FlushedLine(s) : l.epoch = old /\ l.stream = s
             /\ {<<l.at, l.text>> : l \in FlushedLine(s)} = {line(s)}
  <2> DEFINE lines == {line(s)}
             F == FlushedLine(s)
  <2>1. s \in Stream /\ old \in Attempt /\ log \in Checkpoints
    BY DEF Flushing, IInv, Types
  <2>2. log.tailAt[old][s] \in Nat /\ log.tail[old][s] \in Seq(Byte)
    BY <2>1 DEF Checkpoints
  <2>3. lines \subseteq Nat \X Seq(Byte)
    BY <2>2
  <2>4. F = Entries(log, old, s, lines)
    BY DEF FlushedLine
  <2> HIDE DEF lines, F
  <2>5. (\A l \in F : l.epoch = old /\ l.stream = s) /\ {<<l.at, l.text>> : l \in F} = lines
    BY <2>1, <2>3, <2>4, EntriesAre
  <2> QED
    BY <2>5 DEF lines, F
<1>2. ASSUME NEW l \in L
      PROVE  l.epoch = old /\ l.stream \in Flushing /\ <<l.at, l.text>> = line(l.stream)
  <2>1. PICK s \in Flushing : l \in FlushedLine(s)
    OBVIOUS
  <2>2. l.epoch = old /\ l.stream = s
    BY <1>1, <2>1
  <2>3. <<l.at, l.text>> \in {<<m.at, m.text>> : m \in FlushedLine(s)}
    BY <2>1
  <2>4. <<l.at, l.text>> = line(s)
    <3>1. <<l.at, l.text>> \in {line(s)}
      BY <1>1, <2>3
    <3> QED
      BY <3>1
  <2> QED
    BY <2>1, <2>2, <2>4
<1>3. ASSUME NEW s \in Flushing PROVE line(s) \in Told(L, old, s)
  <2>1. line(s) \in {<<l.at, l.text>> : l \in FlushedLine(s)}
    BY <1>1
  <2>2. PICK l \in FlushedLine(s) : line(s) = <<l.at, l.text>>
    BY <2>1
  <2>3. l.epoch = old /\ l.stream = s /\ l \in L
    BY <1>1, <2>2
  <2> QED
    BY <2>2, <2>3 DEF Told
<1> QED
  BY <1>2, <1>3

\* A line that was held back and is told as it is.
LEMMA FlushFollows ==
    ASSUME NEW f, NEW offset, NEW tail, NEW tailAt, NEW told, NEW new, NEW at,
           Follows(f, offset, tail, tailAt, told), tail # <<>>, new = told \cup {<<tailAt, tail>>}
    PROVE  Follows(f, offset, <<>>, at, new)
<1> DEFINE b == Read(f, offset)
<1>1. offset <= Len(f) /\ told = LinesOf(b, tail) /\ tail = Rest(b) /\ tailAt = Cut(b)
  BY DEF Follows
<1>2. new = LinesOf(b, <<>>)
  BY <1>1 DEF LinesOf
<1> QED
  BY <1>1, <1>2 DEF Follows

\* The tails of an epoch that is left are told once, and its files stay exact.
LEMMA ReadTaskExactly ==
    ASSUME IInv, Accurate, ReadTask
    PROVE  Accurate'
<1> DEFINE old == log.active
           L == cache \cup out'
<1>1. /\ pc' = "head" /\ pc = "idle" /\ NewEpoch(attempt) /\ out = {}
      /\ UNCHANGED <<file, over, raced, log, cache>>
  BY DEF ReadTask, task, IInv, Placed
<1>2. /\ log \in Checkpoints /\ work' \in Checkpoints /\ work'.active = attempt
      /\ work'.offset = log.offset
      /\ old \in {0, attempt} => /\ out' = {} /\ work'.tail = log.tail /\ work'.tailAt = log.tailAt
      /\ old \notin {0, attempt} =>
             /\ old \in Attempt /\ old < attempt /\ out' = UNION {FlushedLine(s) : s \in Flushing}
             /\ \A a \in Attempt, s \in Stream :
                    /\ work'.tail[a][s] = IF a = old THEN <<>> ELSE log.tail[a][s]
                    /\ work'.tailAt[a][s] = IF a = old /\ s \in Flushing THEN log.offset[a][s]
                                            ELSE log.tailAt[a][s]
  BY <1>1, NewEpochIs DEF IInv, Types
<1>3. /\ attempt \in Nat /\ old \in Nat /\ old <= attempt /\ Attempt \subseteq Nat \ {0}
      /\ Within(log, cache) /\ Exact(log, cache)
  <2>1. attempt \in Attempt /\ log \in Checkpoints /\ old <= attempt
    BY DEF IInv, Types, Placed
  <2>2. old \in Nat
    BY <2>1 DEF Checkpoints
  <2> QED
    BY <2>1, <2>2 DEF Attempt, Accurate
<1>4. ASSUME old \in {0, attempt} PROVE Within(work', L) /\ Exact(work', L)
  <2>1. L = cache /\ work'.tail = log.tail /\ work'.tailAt = log.tailAt
    BY <1>2, <1>4
  <2>2. ASSUME NEW a \in Attempt, NEW s \in Stream, a # work'.active PROVE log.tail[a][s] = <<>>
    BY <1>2, <1>3, <1>4, <2>2 DEF Within
  <2>3. Within(work', cache)
    BY <1>2, <1>3, <2>1, <2>2 DEF Within
  <2>4. Exact(work', cache)
    <3>1. \A a \in Attempt : a < old => a < attempt
      BY <1>3
    <3> QED
      BY <1>2, <1>3, <2>1, <3>1 DEF Exact
  <2> QED
    BY <2>1, <2>3, <2>4
<1>5. ASSUME old \notin {0, attempt} PROVE Within(work', L) /\ Exact(work', L)
  <2>1. /\ old \in Attempt /\ old < attempt
        /\ \A a \in Attempt, s \in Stream :
               /\ work'.tail[a][s] = IF a = old THEN <<>> ELSE log.tail[a][s]
               /\ work'.tailAt[a][s] = IF a = old /\ s \in Flushing THEN log.offset[a][s]
                                       ELSE log.tailAt[a][s]
    BY <1>2, <1>5
  <2>2. /\ \A l \in out' : /\ l.epoch = old /\ l.stream \in Flushing
                           /\ <<l.at, l.text>> = <<log.tailAt[old][l.stream], log.tail[old][l.stream]>>
        /\ \A s \in Flushing : <<log.tailAt[old][s], log.tail[old][s]>> \in Told(out', old, s)
    <3>1. out' = UNION {FlushedLine(s) : s \in Flushing}
      BY <1>2, <1>5
    <3> QED
      BY <2>1, <3>1, FlushIs
  <2>3. /\ \A s \in Stream : s \in Flushing <=> log.tail[old][s] # <<>>
        /\ Flushing \subseteq Stream
    BY DEF Flushing
  <2>4. ASSUME NEW a \in Attempt, NEW s \in Stream
        PROVE  /\ a = old /\ s \in Flushing =>
                      Told(L, a, s) = Told(cache, a, s) \cup {<<log.tailAt[a][s], log.tail[a][s]>>}
               /\ ~(a = old /\ s \in Flushing) => Told(L, a, s) = Told(cache, a, s)
    <3>1. Told(L, a, s) = Told(cache, a, s) \cup Told(out', a, s)
      BY DEF Told
    <3>2. a = old /\ s \in Flushing => Told(out', a, s) = {<<log.tailAt[a][s], log.tail[a][s]>>}
      BY <2>2 DEF Told
    <3>3. ~(a = old /\ s \in Flushing) => Told(out', a, s) = {}
      BY <2>2 DEF Told
    <3> QED
      BY <3>1, <3>2, <3>3
  <2>5. Within(work', L)
    <3>1. ASSUME NEW a \in Attempt, NEW s \in Stream
          PROVE  /\ work'.offset[a][s] <= Size(s) /\ work'.tailAt[a][s] <= Size(s)
                 /\ Len(work'.tail[a][s]) <= LineLimit
                 /\ work'.tail[a][s] # <<>> =>
                        work'.tailAt[a][s] + Len(work'.tail[a][s]) = work'.offset[a][s]
                 /\ a # work'.active => work'.tail[a][s] = <<>>
      <4>1. Len(<<>>) <= LineLimit
        BY EmptySeq, AzureLogsAssumption
      <4>2. CASE a = old
        BY <1>2, <1>3, <2>1, <4>1, <4>2 DEF Within
      <4>3. CASE a # old
        BY <1>2, <1>3, <2>1, <4>3 DEF Within
      <4> QED
        BY <4>2, <4>3
    <3>2. ASSUME NEW l \in out' PROVE l.at + Len(l.text) <= Size(l.stream)
      <4>1. /\ l.stream \in Stream /\ log.tail[old][l.stream] # <<>>
            /\ l.at = log.tailAt[old][l.stream] /\ l.text = log.tail[old][l.stream]
        BY <2>2, <2>3
      <4> QED
        BY <1>3, <2>1, <4>1 DEF Within
    <3>3. \A l \in cache : l.at + Len(l.text) <= Size(l.stream)
      BY <1>3 DEF Within
    <3> QED
      BY <3>1, <3>2, <3>3 DEF Within
  <2>6. Exact(work', L)
    <3> SUFFICES ASSUME NEW a \in Attempt \ raced, NEW s \in Stream
                 PROVE  /\ Follows(file[a][s], work'.offset[a][s], work'.tail[a][s], work'.tailAt[a][s],
                                   Told(L, a, s))
                        /\ work'.tail[a][s] # Rest(Read(file[a][s], work'.offset[a][s])) =>
                               a < work'.active \/ (over /\ work'.offset[a][s] = Len(file[a][s]))
      BY DEF Exact
    <3>1. /\ Follows(file[a][s], log.offset[a][s], log.tail[a][s], log.tailAt[a][s], Told(cache, a, s))
          /\ log.tail[a][s] # Rest(Read(file[a][s], log.offset[a][s])) =>
                 a < old \/ (over /\ log.offset[a][s] = Len(file[a][s]))
      BY <1>3 DEF Exact
    <3>2. CASE a = old /\ s \in Flushing
      <4> DEFINE told == Told(cache, a, s)
                 new == Told(L, a, s)
                 f == file[a][s]
                 n == log.offset[a][s]
                 t == log.tail[a][s]
                 m == log.tailAt[a][s]
                 at == work'.tailAt[a][s]
      <4>1. /\ Follows(f, n, t, m, told) /\ t # <<>> /\ new = told \cup {<<m, t>>}
            /\ work'.tail[a][s] = <<>> /\ work'.offset[a][s] = n
        BY <1>2, <2>1, <2>3, <2>4, <3>1, <3>2
      <4> HIDE DEF told, new, f, n, t, m, at, L
      <4>2. Follows(f, n, <<>>, at, new)
        BY <4>1, FlushFollows
      <4>3. a < work'.active
        BY <1>2, <2>1, <3>2
      <4> QED
        BY <4>1, <4>2, <4>3 DEF new, f, at
    <3>3. CASE ~(a = old /\ s \in Flushing)
      <4>1. /\ work'.tail[a][s] = log.tail[a][s] /\ work'.tailAt[a][s] = log.tailAt[a][s]
            /\ work'.offset[a][s] = log.offset[a][s] /\ Told(L, a, s) = Told(cache, a, s)
        BY <1>2, <2>1, <2>3, <2>4, <3>3
      <4>2. a < old => a < work'.active
        BY <1>2, <1>3, <2>1
      <4> HIDE DEF L
      <4> QED
        BY <3>1, <4>1, <4>2
    <3> QED
      BY <3>2, <3>3
  <2> QED
    BY <2>5, <2>6
<1>6. Within(work', L) /\ Exact(work', L)
  BY <1>4, <1>5
<1>7. (cache \cup out)' = L
  BY <1>1
<1> HIDE DEF L
<1>8. Exact(work, cache \cup out)' /\ Within(work, cache \cup out)'
  BY <1>1, <1>6, <1>7 DEF Exact, Within, Size
<1>9. Exact(log, cache)' /\ Within(log, cache)'
  BY <1>1, <1>3 DEF Exact, Within, Size
<1> QED
  BY <1>1, <1>8, <1>9 DEF Accurate, Ranged

\* Whatever is stored for an attempt that a retry overtook is excepted.
LEMMA Restarted ==
    ASSUME Types, NEW c \in Checkpoints, NEW L, Within(c, L), Exact(c, L), epoch \in raced,
           NEW zero \in Nat, zero = 0, NEW none \in Seq(Byte), none = <<>>,
           NEW n, n = Stored(c, epoch, stream, zero, none, zero)
    PROVE  Within(n, L) /\ Exact(n, L)
<1>1. epoch \in Attempt /\ stream \in Stream
  BY DEF Types
<1>2. HoldsOf(n, epoch, stream, zero, none, zero) /\ SameEpoch(n, c) /\ SameBut(n, c, epoch, stream)
  BY <1>1, StoredIs
<1>3. n.active = c.active
  BY <1>2 DEF SameEpoch
<1>4. ASSUME NEW a \in Attempt, NEW s \in Stream
      PROVE  /\ n.offset[a][s] <= Size(s) /\ n.tailAt[a][s] <= Size(s) /\ Len(n.tail[a][s]) <= LineLimit
             /\ n.tail[a][s] # <<>> => n.tailAt[a][s] + Len(n.tail[a][s]) = n.offset[a][s]
             /\ a # n.active => n.tail[a][s] = <<>>
  <2>1. CASE a = epoch /\ s = stream
    BY <1>2, <2>1, SizesAre, EmptySeq, AzureLogsAssumption DEF HoldsOf
  <2>2. CASE ~(a = epoch /\ s = stream)
    BY <1>2, <1>3, <2>2 DEF Within, SameBut
  <2> QED
    BY <2>1, <2>2
<1>5. Within(n, L)
  BY <1>4 DEF Within
<1>6. Exact(n, L)
  BY <1>2, <1>3 DEF Exact, SameBut
<1> QED
  BY <1>5, <1>6

\* A file that is read from its start again belongs to another attempt than the
\* one the poll started on.
LEMMA TruncatedExactly ==
    ASSUME IInv, Accurate, pc # "idle", NEW size, size = Len(file[attempt][stream])
    PROVE  /\ Within(Truncated(size), cache \cup out) /\ Exact(Truncated(size), cache \cup out)
           /\ epoch \notin raced => epoch = attempt
<1> DEFINE n == Truncated(size)
           L == cache \cup out
<1>1. /\ epoch \in Attempt /\ stream \in Stream /\ work \in Checkpoints /\ attempt \in Attempt
      /\ file[attempt][stream] \in Seq(Byte) /\ size \in Nat
      /\ epoch \notin raced => epoch = attempt
      /\ Within(work, L) /\ Exact(work, L) /\ Types
  BY DEF IInv, Types, Placed, Accurate
<1>2. work.offset[epoch][stream] \in Nat
  BY <1>1 DEF Checkpoints
<1>3. CASE size < work.offset[epoch][stream]
  <2> DEFINE zero == 0
             none == <<>>
  <2>1. n = Stored(work, epoch, stream, zero, none, zero)
    BY <1>1, <1>3, TruncatedIs
  <2>2. zero \in Nat /\ zero = 0 /\ none \in Seq(Byte) /\ none = <<>>
    BY EmptySeq
  <2>3. epoch \in raced
    <3> SUFFICES ASSUME epoch \notin raced PROVE FALSE
      OBVIOUS
    <3>1. work.offset[epoch][stream] <= Len(file[epoch][stream]) /\ epoch = attempt
      BY <1>1 DEF Exact, Follows
    <3> QED
      BY <1>1, <1>2, <1>3, <3>1
  <2> HIDE DEF n, zero, none, L
  <2>4. Within(n, L) /\ Exact(n, L)
    BY <1>1, <2>1, <2>2, <2>3, Restarted
  <2> QED
    BY <1>1, <2>4 DEF n, L
<1>4. CASE ~(size < work.offset[epoch][stream])
  <2>1. n = work
    BY <1>1, <1>4, TruncatedIs
  <2> QED
    BY <1>1, <2>1
<1> QED
  BY <1>3, <1>4

\* HEAD ends a file that has nothing new and prepares the range of one that has.
LEMMA HeadExactly ==
    ASSUME IInv, Accurate, HeadFindsNothing \/ HeadFindsMore \/ HeadFindsNoFile
    PROVE  Accurate'
<1> DEFINE size == Len(file[attempt][stream])
           c == Truncated(size)
<1>1. /\ Types /\ stream \in Stream /\ attempt \in Attempt /\ file[attempt][stream] \in Seq(Byte)
      /\ size \in Nat /\ size <= Size(stream) /\ work \in Checkpoints /\ out \in SUBSET Entry
  BY DEF IInv, Types
<1>2. c \in Checkpoints /\ c.active = work.active
  BY <1>1, TruncatedIs DEF SameEpoch
<1>3. pc = "head"
  BY DEF HeadFindsNothing, HeadFindsMore, HeadFindsNoFile
<1>4. /\ Within(c, cache \cup out) /\ Exact(c, cache \cup out)
      /\ epoch \notin raced => epoch = attempt
      /\ final => over
  <2>1. final => over
    BY <1>3 DEF IInv, Placed
  <2> QED
    BY <1>3, <2>1, TruncatedExactly
<1>5. CASE HeadFindsNothing
  <2> DEFINE none == <<>>
  <2>1. /\ UNCHANGED <<task, raced>> /\ TakeBytes(c, none, size, size)
        /\ c.offset[epoch][stream] = size
    BY <1>5 DEF HeadFindsNothing
  <2>2. /\ none \in Seq(Byte) /\ Len(none) = 0 /\ size - size = 0
        /\ SubSeq(file[attempt][stream], size + 1, size) = none
    BY <1>1, EmptySeq, RangeIs
  <2>3. ASSUME epoch \notin raced
        PROVE  /\ size <= Len(file[epoch][stream])
               /\ none = SubSeq(file[epoch][stream], size + 1, size)
               /\ final => over /\ size = Len(file[epoch][stream])
    <3>1. file[epoch][stream] = file[attempt][stream]
      BY <1>4, <2>3
    <3>2. size <= Len(file[epoch][stream]) /\ (final => over /\ size = Len(file[epoch][stream]))
      BY <1>1, <1>4, <3>1
    <3> HIDE DEF none, size
    <3> QED
      BY <2>2, <3>1, <3>2
  <2> HIDE DEF none, size, c
  <2>4. /\ c.offset[epoch][stream] <= size /\ size <= Size(stream)
        /\ Len(none) = size - c.offset[epoch][stream]
        /\ epoch \notin raced => none = SubSeq(file[epoch][stream], c.offset[epoch][stream] + 1, size)
    BY <1>1, <2>1, <2>2, <2>3
  <2> QED
    BY <1>1, <1>2, <1>3, <1>4, <2>1, <2>2, <2>3, <2>4, TakesExactly
<1>6. CASE HeadFindsMore
  <2>1. /\ c.offset[epoch][stream] < size /\ length' = size /\ work' = c
        /\ UNCHANGED <<file, over, raced, log, cache, out, epoch, final, stream>>
    BY <1>6 DEF HeadFindsMore, task
  <2>2. Ranged'
    <3>1. epoch \notin raced => size = Len(file[epoch][stream])
      BY <1>4
    <3> HIDE DEF size, c
    <3> QED
      BY <1>1, <2>1, <3>1 DEF Ranged
  <2> HIDE DEF size, c
  <2>3. Exact(log, cache)' /\ Within(log, cache)'
    BY <2>1 DEF Accurate, Exact, Within, Size
  <2>4. Exact(work, cache \cup out)' /\ Within(work, cache \cup out)'
    <3> DEFINE L == cache \cup out
    <3>1. Exact(c, L) /\ Within(c, L) /\ L' = L
      BY <1>4, <2>1
    <3> HIDE DEF L
    <3>2. Exact(work, L)' /\ Within(work, L)'
      BY <2>1, <3>1 DEF Exact, Within, Size
    <3> QED
      BY <3>2 DEF L
  <2> QED
    BY <2>2, <2>3, <2>4 DEF Accurate
<1>7. CASE HeadFindsNoFile
  <2>1. Proceed(work, out) /\ UNCHANGED <<task, raced>>
    BY <1>7 DEF HeadFindsNoFile
  <2>2. Within(work, cache \cup out) /\ Exact(work, cache \cup out)
    BY DEF Accurate
  <2> QED
    BY <1>1, <1>3, <2>1, <2>2, ProceedsExactly
<1> QED
  BY <1>5, <1>6, <1>7

\* A range the service honours is the bytes behind the offset.
LEMMA GetExactly ==
    ASSUME IInv, Accurate, GetRange, ~RangeIgnored
    PROVE  Accurate'
<1> DEFINE start == work.offset[epoch][stream]
           end == IF length - start < Chunk THEN length ELSE start + Chunk
           now == file[attempt][stream]
           bytes == SubSeq(now, start + 1, end)
<1>1. /\ work \in Checkpoints /\ length \in Nat /\ Chunk \in Nat /\ now \in Seq(Byte)
      /\ stream \in Stream /\ epoch \in Attempt /\ length <= Size(stream) /\ Size(stream) \in Nat
  <2>1. /\ work \in Checkpoints /\ file \in [Attempt -> [Stream -> Seq(Byte)]] /\ attempt \in Attempt
        /\ stream \in Stream /\ epoch \in Attempt /\ length \in 0..Size(stream)
    BY DEF IInv, Types
  <2> QED
    BY <2>1, SizesAre, AzureLogsAssumption
<1>2. /\ pc = "get" /\ UNCHANGED <<task, raced>>
      /\ Len(now) >= end /\ TakeBytes(work, bytes, end, length)
  BY DEF GetRange
<1>3. /\ start < length
      /\ epoch \notin raced => /\ length <= Len(file[epoch][stream]) /\ epoch = attempt
                               /\ final => over /\ length = Len(file[epoch][stream])
      /\ Within(work, cache \cup out) /\ Exact(work, cache \cup out)
  BY <1>2 DEF Accurate, Ranged, IInv, Placed
<1>4. start \in Nat
  BY <1>1 DEF Checkpoints
<1> HIDE DEF start
<1>5. end \in Nat /\ start <= end /\ end <= length
  BY <1>1, <1>3, <1>4
<1> HIDE DEF end, now
<1>6. bytes \in Seq(Byte) /\ Len(bytes) = end - start
  <2>1. end <= Len(now)
    BY <1>1, <1>2, <1>5
  <2> QED
    BY <1>1, <1>4, <1>5, <2>1, RangeIs
<1>7. epoch \notin raced =>
          /\ end <= Len(file[epoch][stream])
          /\ bytes = SubSeq(file[epoch][stream], start + 1, end)
          /\ final /\ end = length => over /\ end = Len(file[epoch][stream])
  BY <1>1, <1>2, <1>3, <1>5 DEF now
<1>8. end <= Size(stream)
  BY <1>1, <1>5
<1> HIDE DEF bytes
<1> QED
  BY <1>1, <1>2, <1>3, <1>5, <1>6, <1>7, <1>8, TakesExactly DEF start
-----------------------------------------------------------------------------
(* The theorems.                                                           *)

\* The invariants together are inductive when the service honours ranges.
THEOREM Accuracy == ~RangeIgnored => (Spec => [](IInv /\ Accurate))
<1> SUFFICES ASSUME ~RangeIgnored PROVE Spec => [](IInv /\ Accurate)
  OBVIOUS
<1>1. ASSUME IInv, IInv', Accurate, [Next]_vars PROVE Accurate'
  <2>1. CASE UNCHANGED vars
    BY <1>1, <2>1 DEF vars, Accurate, Within, Exact, Ranged, Size
  <2>2. CASE Next
    BY <1>1, <2>2, TaskExactly, FailExactly, ReadTaskExactly, HeadExactly, GetExactly DEF Next, Poll
  <2> QED
    BY <1>1, <2>1, <2>2
<1> QED
  BY <1>1, Invariant, InitExactly, PTL DEF Spec

\* What the cache holds of each file is what the file holds up to the offset,
\* cut at its line feeds, however many ranges it was read in and whichever
\* polls failed in between, for every length of the files and every limit.
THEOREM Exactness == ~RangeIgnored => (Spec => []LinesAreExact)
<1>1. ASSUME Exact(log, cache), Within(log, cache) PROVE LinesAreExact
  <2> SUFFICES ASSUME NEW a \in Attempt \ raced, NEW s \in Stream
               PROVE  LET read == SubSeq(file[a][s], 1, log.offset[a][s])
                          pending == log.tail[a][s]
                      IN  /\ {<<l.at, l.text>> : l \in {k \in cache : k.epoch = a /\ k.stream = s}} =
                                  Lines(read) \cup IF Rest(read) = pending THEN {} ELSE {<<Cut(read), Rest(read)>>}
                          /\ pending = Rest(read) \/ (pending = <<>> /\ (over \/ a < log.active))
                          /\ a < log.active => pending = <<>>
    BY DEF LinesAreExact
  <2> DEFINE read == Read(file[a][s], log.offset[a][s])
             pending == log.tail[a][s]
  <2>1. /\ Follows(file[a][s], log.offset[a][s], pending, log.tailAt[a][s], Told(cache, a, s))
        /\ pending # Rest(read) => a < log.active \/ over
    BY <1>1 DEF Exact
  <2>2. Told(cache, a, s) = LinesOf(read, pending) /\ (pending # <<>> => pending = Rest(read))
    BY <2>1 DEF Follows
  <2>3. a < log.active => pending = <<>>
    <3>1. a < log.active => a # log.active
      BY DEF Attempt
    <3> QED
      BY <1>1, <3>1 DEF Within
  <2>4. read = SubSeq(file[a][s], 1, log.offset[a][s])
    BY DEF Read
  <2> HIDE DEF read, pending
  <2> QED
    BY <2>1, <2>2, <2>3, <2>4 DEF Told, LinesOf, pending
<1> QED
  BY <1>1, Accuracy, PTL DEF Accurate

\* The lines of a later attempt never sort before those of an earlier one,
\* whatever a retry overtakes and whatever the service makes of ranges.
THEOREM InOrder == Spec => []AttemptsInOrder
<1>1. IInv => AttemptsInOrder
  BY DEF IInv, Ordered, AttemptsInOrder
<1> QED
  BY <1>1, Invariant, PTL

\* Sequences of bounded length are the bytes of TypeOK.
LEMMA BytesAre ==
    ASSUME NEW b \in Seq(Byte), NEW n \in Nat, Len(b) <= n
    PROVE  b \in Bytes(n)
<1>1. Len(b) \in 0..n /\ b \in [1..Len(b) -> Byte]
  BY LenProperties
<1> QED
  BY <1>1 DEF Bytes

\* Types: no checkpoint points behind the end of its file, no line that is held
\* back is longer than the limit, and generations stay below the attempts.
THEOREM TypeCorrect == ~RangeIgnored => (Spec => []TypeOK)
<1> DEFINE Raced == raced \subseteq Attempt
<1>1. ASSUME IInv, Raced, [Next]_vars PROVE Raced'
  <2>1. raced' = raced \/ raced' = raced \cup {attempt}
    BY <1>1 DEF Next, Poll, Task, ReadTask, HeadFindsNothing, HeadFindsMore, HeadFindsNoFile, GetRange,
                PollFails, Write, Retry, Complete, vars
  <2> QED
    BY <1>1, <2>1 DEF IInv, Types
<1>2. Init => Raced
  BY DEF Init
<1>3. ASSUME IInv, Accurate, Raced PROVE TypeOK
  <2>1. /\ \A s \in Stream : Size(s) \in Nat /\ Size(s) <= Longest
        /\ Longest \in Nat /\ LineLimit \in Nat /\ MaxAttempts \in Nat
    BY AzureLogsAssumption, SizesAre DEF Longest, Size, Stream
  <2>2. Types /\ Within(log, cache) /\ Within(work, cache \cup out)
        /\ Ordered(log, cache) /\ Ordered(work, cache \cup out)
    BY <1>3 DEF IInv, Accurate
  <2>3. ASSUME NEW a \in Attempt, NEW s \in Stream, NEW c \in {log, work}
        PROVE  /\ file[a][s] \in Bytes(Size(s)) /\ c.offset[a][s] \in 0..Size(s)
               /\ c.tail[a][s] \in Bytes(LineLimit) /\ c.tailAt[a][s] \in 0..Size(s)
    <3>1. /\ file[a][s] \in Seq(Byte) /\ Len(file[a][s]) <= Size(s)
          /\ c.offset[a][s] \in Nat /\ c.tailAt[a][s] \in Nat /\ c.tail[a][s] \in Seq(Byte)
      <4>1. c \in Checkpoints /\ file[a][s] \in Seq(Byte) /\ Len(file[a][s]) <= Size(s)
        BY <2>2 DEF Types
      <4> QED
        BY <4>1 DEF Checkpoints
    <3>2. c.offset[a][s] <= Size(s) /\ c.tailAt[a][s] <= Size(s) /\ Len(c.tail[a][s]) <= LineLimit
      BY <2>2 DEF Within
    <3> QED
      BY <2>1, <3>1, <3>2, BytesAre
  <2>4. ASSUME NEW c \in {log, work}
        PROVE  c.active \in 0..MaxAttempts /\ c.generation \in 0..MaxAttempts
    <3>1. c.active \in 0..MaxAttempts /\ c.generation \in Nat /\ c.generation <= c.active
      BY <2>2 DEF Types, Checkpoints, Ordered
    <3> QED
      BY <2>1, <3>1
  <2>5. ASSUME NEW l \in cache \cup out
        PROVE  /\ l.epoch \in Attempt /\ l.stream \in Stream /\ l.at \in 0..Longest
               /\ l.text \in Bytes(Longest) /\ l.generation \in 0..MaxAttempts
    <3>1. /\ l.epoch \in Attempt /\ l.stream \in Stream /\ l.at \in Nat /\ l.text \in Seq(Byte)
          /\ l.generation \in Nat
      BY <2>2 DEF Types, Entry
    <3>2. l.at + Len(l.text) <= Size(l.stream)
      BY <2>2 DEF Within
    <3>3. l.generation <= work.generation
      <4>1. /\ l.epoch <= work.active
            /\ l.epoch = work.active => l.generation = work.generation
            /\ l.epoch < work.active => l.generation < work.generation
        BY <2>2 DEF Ordered
      <4>2. l.epoch \in Nat /\ work.active \in Nat /\ work.generation \in Nat
        BY <2>2, <3>1 DEF Attempt, Types, Checkpoints
      <4> QED
        BY <3>1, <4>1, <4>2
    <3>4. l.at <= Longest /\ Len(l.text) <= Longest
      <4>1. Len(l.text) \in Nat /\ Size(l.stream) \in Nat /\ Size(l.stream) <= Longest
        BY <2>1, <3>1
      <4> QED
        BY <2>1, <3>1, <3>2, <4>1
    <3>5. l.generation \in 0..MaxAttempts
      <4>1. work.generation \in 0..MaxAttempts
        BY <2>4
      <4> QED
        BY <2>1, <3>1, <3>3, <4>1
    <3> QED
      BY <2>1, <3>1, <3>4, <3>5, BytesAre
  <2>6. length \in 0..Longest
    <3>1. length \in 0..Size(stream) /\ stream \in Stream
      BY <2>2 DEF Types
    <3> QED
      BY <2>1, <3>1
  <2> QED
    BY <1>3, <2>2, <2>3, <2>4, <2>5, <2>6 DEF TypeOK, Types
<1> HIDE DEF Raced
<1> QED
  BY <1>1, <1>2, <1>3, Invariant, Accuracy, PTL DEF Spec
=============================================================================
