-------------------------- MODULE TranscriptProofs --------------------------
(***************************************************************************)
(* The transcript is faithful and the screen is right, for every set of    *)
(* indices, every layout and every number of events; the parser of think   *)
(* tags finds them however the text is cut.                                *)
(*                                                                         *)
(* TranscriptFaithful is not inductive: nothing in it says that the stack  *)
(* of the Tasks is what runs, or that the segment open at an index belongs *)
(* to the block that the index now names.  TranscriptInv adds both, and    *)
(* that the ids of the calls are the ones that were given out.             *)
(***************************************************************************)
EXTENDS Transcript, ThinkTags, TLAPS, FiniteSetTheorems, WellFoundedInduction, SequenceTheorems

Kinds == {"text", "thinking"}
Ids == {"omitted", "task", "call", "variant", "marker"} \X Nat

SegmentRow == [kind : Kinds \cup {"tool_call", "tool_result", "subagent", "error"}, parts : Seq(Nat)]
OpenTyped(open) == DOMAIN open = {"thinking", "text", "tool"} /\ \A kind \in DOMAIN open : open[kind] \in [Indices -> Nat]

ScreenShape ==
    /\ DOMAIN tScreen = {"layout", "shown", "updated", "status", "ended", "bare"}
    /\ tScreen.layout \in Layouts /\ tScreen.status \in BOOLEAN /\ tScreen.ended \in BOOLEAN
    /\ tScreen.bare # "no" => tScreen.ended

FedShape ==
    /\ DOMAIN tFed = {"n", "live", "blocks", "tasks", "tools", "calls", "regular", "omitted", "pieces"}
    /\ tFed.n \in Nat /\ tFed.blocks \in Nat /\ tFed.calls \in Nat
    /\ tFed.regular \in BOOLEAN /\ tFed.omitted \in BOOLEAN
    /\ tFed.live \in [Indices -> [kind : Kinds \cup {"none", "tool"}, block : Nat]]
    /\ tFed.tasks \in Seq(Ids) /\ tFed.tools \subseteq Ids
    /\ tFed.pieces \in Seq([block : Nat, expected : {"shown", "hidden", "either"}])

TShape ==
    /\ tSegs \in Seq(SegmentRow) /\ OpenTyped(tOpen) /\ tStack \in Seq(Ids)
    /\ ScreenShape /\ FedShape

\* The ids of the unanswered calls are those that were given out, each once.
IdsGiven ==
    /\ \A id \in tFed.tools \cup ToSet(tFed.tasks) :
          IF id = Omitted THEN tFed.omitted ELSE \E n \in 1..tFed.calls : id = CallId(n)
    /\ \A j, k \in DOMAIN tFed.tasks : j # k /\ tFed.tasks[j] = tFed.tasks[k] => tFed.tasks[j] = Omitted
    /\ \A id \in tFed.tools \cap ToSet(tFed.tasks) : id = Omitted

\* The stack is the Tasks that run, as long as they end in reverse order; and
\* if every id is given it never holds a Task that has ended.
StackFollows ==
    /\ tFed.regular => /\ Len(tStack) = Len(tFed.tasks)
                       /\ \A k \in DOMAIN tStack : tStack[k] = IF tFed.tasks[k] = Omitted THEN Marker(k) ELSE tFed.tasks[k]
    /\ ~tFed.omitted => /\ ToSet(tStack) \subseteq ToSet(tFed.tasks)
                        /\ \A j, k \in DOMAIN tStack : j # k => tStack[j] # tStack[k]

\* Outside the Tasks, the block that an index belongs to has a segment of its
\* own open there.
OpensFollow ==
    /\ \A kind \in Kinds : tOpen[kind][0] = 0
    /\ tStack = <<>> =>
          /\ \A i \in Indices \ {0} : tFed.live[i].kind \in Kinds =>
                LET k == tOpen[tFed.live[i].kind][i]
                IN  /\ k \in DOMAIN tSegs
                    /\ \A m \in DOMAIN tSegs[k].parts : tFed.pieces[tSegs[k].parts[m]].block = tFed.live[i].block
          /\ \A i, j \in Indices \ {0} : /\ tFed.live[i].kind \in Kinds /\ tFed.live[j].kind \in Kinds
                                         /\ tOpen[tFed.live[i].kind][i] = tOpen[tFed.live[j].kind][j]
                                         => i = j

PartsSaid ==
    /\ \A k \in DOMAIN tSegs : ToSet(tSegs[k].parts) \subseteq DOMAIN tFed.pieces
    /\ ~tScreen.ended /\ tFed.n = 0 => tFed.pieces = <<>> /\ tSegs = <<>>

TranscriptInv == TShape /\ IdsGiven /\ StackFollows /\ OpensFollow /\ PartsSaid /\ TranscriptFaithful

-----------------------------------------------------------------------------
(***************************************************************************)
(* The numbers of segments and calls.                                      *)
(***************************************************************************)
\* A set of naturals that is not empty has a least one.
LEMMA LeastNatural == ASSUME NEW T, T \subseteq Nat, T # {} PROVE \E x \in T : \A y \in T : x <= y
<1>1. PICK x \in T : \A y \in T : ~(<<y, x>> \in OpToRel(<, Nat))
  BY NatLessThanWellFounded, WFMin
<1>2. ASSUME NEW y \in T PROVE x <= y
  <2>1. <<y, x>> \in Nat \X Nat /\ ~(y < x)
    BY <1>1 DEF OpToRel
  <2> QED BY <2>1
<1> QED BY <1>2

\* The greatest of finitely many naturals.
LEMMA GreatestNatural ==
  ASSUME NEW n \in Nat, NEW T, T \subseteq 0..n, T # {}
  PROVE  \E x \in T : \A y \in T : y <= x
<1>1. PICK U : U = {m \in Nat : \A y \in T : y <= m}
  OBVIOUS
<1>2. U \subseteq Nat /\ n \in U
  BY <1>1
<1>3. PICK m \in U : \A y \in U : m <= y
  BY <1>2, LeastNatural
<1>4. m \in Nat /\ \A y \in T : y <= m /\ y \in Nat
  BY <1>1, <1>2
<1>5. m \in T
  <2> SUFFICES ASSUME m \notin T PROVE FALSE
    OBVIOUS
  <2>1. \A y \in T : y <= m - 1 /\ y \in Nat
    BY <1>4
  <2>2. m - 1 \in Nat
    <3>1. PICK y \in T : TRUE
      OBVIOUS
    <3> QED BY <1>4, <2>1, <3>1
  <2>3. m - 1 \in U
    BY <1>1, <2>1, <2>2
  <2> QED BY <1>3, <1>4, <2>3
<1> QED BY <1>4, <1>5

-----------------------------------------------------------------------------
\* A screen keeps its layout, and an update does not end the task.
LEMMA ScreenSteps ==
  ASSUME TShape, NEW segs, NEW status \in BOOLEAN, NEW force \in BOOLEAN, NEW screen \in Update(segs, status, force)
  PROVE  /\ DOMAIN screen = DOMAIN tScreen /\ screen.layout = tScreen.layout /\ screen.ended = tScreen.ended
         /\ screen.status \in BOOLEAN /\ screen.bare = tScreen.bare
<1>1. PICK drawn : drawn = Shows(segs, status)
  OBVIOUS
<1>2. /\ DOMAIN drawn = DOMAIN tScreen /\ drawn.layout = tScreen.layout /\ drawn.ended = tScreen.ended
      /\ drawn.status = tScreen.status /\ drawn.bare = tScreen.bare
  BY <1>1 DEF Shows, TShape, ScreenShape, FedShape
<1>3. CASE force
  BY <1>1, <1>2, <1>3 DEF Update, TShape, ScreenShape, FedShape
<1>4. CASE ~force
  <2>1. PICK base \in {drawn, tScreen} : screen = [base EXCEPT !.status = status]
    BY <1>1, <1>4 DEF Update
  <2>2. /\ DOMAIN base = DOMAIN tScreen /\ base.layout = tScreen.layout /\ base.ended = tScreen.ended
        /\ base.bare = tScreen.bare
    BY <1>2
  <2> QED BY <2>1, <2>2 DEF TShape, ScreenShape, FedShape
<1> QED BY <1>3, <1>4

LEMMA StopKeeps ==
  ASSUME NEW open, OpenTyped(open), NEW i \in Indices
  PROVE  /\ OpenTyped(Stop(open, i))
         /\ \A kind \in DOMAIN open : \A j \in Indices : j # i => Stop(open, i)[kind][j] = open[kind][j]
         /\ \A kind \in DOMAIN open : \A j \in Indices : Stop(open, i)[kind][j] \in {0, open[kind][j]}
<1>1. PICK kind \in DOMAIN open : Stop(open, i) = [open EXCEPT ![kind][i] = 0]
  BY DEF Stop, OpenTyped
<1>2. PICK row : row = [open[kind] EXCEPT ![i] = 0]
  OBVIOUS
<1>3. Stop(open, i) = [open EXCEPT ![kind] = row]
  BY <1>1, <1>2
<1>4. row \in [Indices -> Nat] /\ row[i] = 0 /\ \A j \in Indices : j # i => row[j] = open[kind][j]
  BY <1>2 DEF OpenTyped
<1> QED BY <1>3, <1>4 DEF OpenTyped

\* No new piece: the segments that hold the pieces are as they were.
PiecesKept ==
  /\ tFed'.pieces = tFed.pieces
  /\ tSegs' = tSegs \/ \E row \in SegmentRow : row.parts = <<>> /\ tSegs' = Append(tSegs, row)

LEMMA PiecesKeep ==
  ASSUME TShape, TranscriptFaithful, \A k \in DOMAIN tSegs : ToSet(tSegs[k].parts) \subseteq DOMAIN tFed.pieces, PiecesKept
  PROVE  /\ TranscriptFaithful' /\ \A k \in DOMAIN tSegs' : ToSet(tSegs'[k].parts) \subseteq DOMAIN tFed'.pieces
         /\ tSegs' \in Seq(SegmentRow) /\ tFed'.pieces \in Seq([block : Nat, expected : {"shown", "hidden", "either"}])
         /\ \A k \in DOMAIN tSegs : k \in DOMAIN tSegs' /\ tSegs'[k].parts = tSegs[k].parts
<1>1. /\ \A k \in DOMAIN tSegs : k \in DOMAIN tSegs' /\ tSegs'[k] = tSegs[k]
      /\ \A k \in DOMAIN tSegs' : k \in DOMAIN tSegs \/ tSegs'[k].parts = <<>>
      /\ tSegs' \in Seq(SegmentRow)
  <2>1. tSegs \in Seq(SegmentRow)
    BY DEF TShape, ScreenShape, FedShape
  <2>2. CASE tSegs' = tSegs
    BY <2>1, <2>2
  <2>3. ASSUME NEW row \in SegmentRow, row.parts = <<>>, tSegs' = Append(tSegs, row)
        PROVE  /\ \A k \in DOMAIN tSegs : k \in DOMAIN tSegs' /\ tSegs'[k] = tSegs[k]
               /\ \A k \in DOMAIN tSegs' : k \in DOMAIN tSegs \/ tSegs'[k].parts = <<>>
               /\ tSegs' \in Seq(SegmentRow)
    <3>1. Len(tSegs') = Len(tSegs) + 1 /\ tSegs'[Len(tSegs) + 1] = row /\ tSegs' \in Seq(SegmentRow)
          /\ \A k \in 1..Len(tSegs) : tSegs'[k] = tSegs[k]
      BY <2>1, <2>3
    <3> QED BY <2>1, <2>3, <3>1
  <2> QED BY <2>2, <2>3 DEF PiecesKept
<1>2. \A n : Holding(n)' = Holding(n)
  BY <1>1 DEF Holding, ToSet
<1>3. \A k \in DOMAIN tSegs' : ToSet(tSegs'[k].parts) \subseteq DOMAIN tFed'.pieces
  BY <1>1 DEF ToSet, PiecesKept
<1>4. \A n \in DOMAIN tFed'.pieces :
          /\ tFed'.pieces[n].expected = "shown" => \E k \in DOMAIN tSegs' : Holding(n)' = {k}
          /\ tFed'.pieces[n].expected = "hidden" => Holding(n)' = {}
  BY <1>1, <1>2 DEF PiecesKept, TranscriptFaithful
<1>5. \A k \in DOMAIN tSegs' : \A i, j \in DOMAIN tSegs'[k].parts :
          i < j => /\ tSegs'[k].parts[i] < tSegs'[k].parts[j]
                   /\ tFed'.pieces[tSegs'[k].parts[i]].block = tFed'.pieces[tSegs'[k].parts[j]].block
  BY <1>1 DEF PiecesKept, TranscriptFaithful
<1>6. TranscriptFaithful'
  BY <1>4, <1>5 DEF TranscriptFaithful
<1> QED BY <1>1, <1>3, <1>6 DEF TShape, ScreenShape, FedShape, PiecesKept

\* The blocks that were open outside the Tasks still are, or none is.
LEMMA OpensKeep ==
  ASSUME TShape, OpensFollow, PiecesKept, TranscriptFaithful,
         \A k \in DOMAIN tSegs : ToSet(tSegs[k].parts) \subseteq DOMAIN tFed.pieces,
         \A kind \in Kinds : tOpen'[kind][0] = tOpen[kind][0],
         tStack' = <<>> =>
           \A i \in Indices \ {0} : tFed'.live[i].kind \in Kinds =>
             tStack = <<>> /\ tFed'.live[i] = tFed.live[i] /\ tOpen'[tFed.live[i].kind][i] = tOpen[tFed.live[i].kind][i]
  PROVE  OpensFollow'
<1>1. /\ \A k \in DOMAIN tSegs : k \in DOMAIN tSegs' /\ tSegs'[k].parts = tSegs[k].parts
      /\ tFed'.pieces = tFed.pieces
  BY PiecesKeep DEF PiecesKept
<1>2. ASSUME tStack' = <<>>, NEW i \in Indices \ {0}, tFed'.live[i].kind \in Kinds
      PROVE  LET k == tOpen'[tFed'.live[i].kind][i]
             IN  /\ k \in DOMAIN tSegs'
                 /\ \A m \in DOMAIN tSegs'[k].parts : tFed'.pieces[tSegs'[k].parts[m]].block = tFed'.live[i].block
  <2>1. /\ tStack = <<>> /\ tFed'.live[i] = tFed.live[i]
        /\ tOpen'[tFed.live[i].kind][i] = tOpen[tFed.live[i].kind][i]
    BY <1>2
  <2>2. LET k == tOpen[tFed.live[i].kind][i]
        IN  /\ k \in DOMAIN tSegs
            /\ \A m \in DOMAIN tSegs[k].parts : tFed.pieces[tSegs[k].parts[m]].block = tFed.live[i].block
    BY <1>2, <2>1 DEF OpensFollow
  <2>3. PICK k : k = tOpen[tFed.live[i].kind][i]
    OBVIOUS
  <2>4. k \in DOMAIN tSegs /\ \A m \in DOMAIN tSegs[k].parts : tFed.pieces[tSegs[k].parts[m]].block = tFed.live[i].block
    BY <2>2, <2>3
  <2>5. tOpen'[tFed'.live[i].kind][i] = k
    BY <2>1, <2>3
  <2>6. /\ k \in DOMAIN tSegs'
        /\ \A m \in DOMAIN tSegs'[k].parts : tFed'.pieces[tSegs'[k].parts[m]].block = tFed'.live[i].block
    BY <1>1, <2>1, <2>4
  <2> QED BY <2>5, <2>6
<1>3. ASSUME tStack' = <<>>, NEW i \in Indices \ {0}, NEW j \in Indices \ {0},
             tFed'.live[i].kind \in Kinds, tFed'.live[j].kind \in Kinds,
             tOpen'[tFed'.live[i].kind][i] = tOpen'[tFed'.live[j].kind][j]
      PROVE  i = j
  <2>1. /\ tStack = <<>> /\ tFed'.live[i] = tFed.live[i] /\ tFed'.live[j] = tFed.live[j]
        /\ tOpen'[tFed.live[i].kind][i] = tOpen[tFed.live[i].kind][i]
        /\ tOpen'[tFed.live[j].kind][j] = tOpen[tFed.live[j].kind][j]
    BY <1>3
  <2>2. tFed.live[i].kind \in Kinds /\ tFed.live[j].kind \in Kinds
    BY <1>3, <2>1
  <2>3. tOpen[tFed.live[i].kind][i] = tOpen[tFed.live[j].kind][j]
    BY <1>3, <2>1
  <2> QED BY <2>1, <2>2, <2>3 DEF OpensFollow
<1>4. \A kind \in Kinds : tOpen'[kind][0] = 0
  BY DEF OpensFollow
<1> QED BY <1>2, <1>3, <1>4 DEF OpensFollow

-----------------------------------------------------------------------------
\* _subagent_pop cuts the stack; with a match, just below the topmost one.
LEMMA PopCuts ==
  ASSUME tStack \in Seq(Ids), NEW id
  PROVE  /\ \A k \in DOMAIN tStack : RoughlyMatch(tStack[k], id) =>
              \E m \in DOMAIN tStack : /\ k <= m /\ RoughlyMatch(tStack[m], id)
                                       /\ Pop(id) = SubSeq(tStack, 1, m - 1)
         /\ (\A k \in DOMAIN tStack : ~RoughlyMatch(tStack[k], id)) =>
              IF id \in {Omitted, TaskLike} /\ tStack # <<>> /\ tStack[Len(tStack)][1] = "marker"
              THEN Pop(id) = SubSeq(tStack, 1, Len(tStack) - 1) ELSE Pop(id) = tStack
<1>1. PICK M : M = {k \in DOMAIN tStack : RoughlyMatch(tStack[k], id)}
  OBVIOUS
<1>2. CASE M # {}
  <2>1. M \subseteq 0..Len(tStack) /\ Len(tStack) \in Nat
    BY <1>1
  <2>2. PICK m \in M : m = CHOOSE k \in M : \A j \in M : j <= k
    BY <1>2, <2>1, GreatestNatural
  <2>3. \A j \in M : j <= m
    BY <1>2, <2>1, <2>2, GreatestNatural
  <2>4. Pop(id) = SubSeq(tStack, 1, m - 1)
    BY <1>1, <1>2, <2>2 DEF Pop
  <2> QED BY <1>1, <1>2, <2>3, <2>4
<1>3. CASE M = {}
  <2>1. Pop(id) = IF id \in {Omitted, TaskLike} /\ tStack # <<>> /\ Last(tStack)[1] = "marker" THEN Front(tStack) ELSE tStack
    BY <1>1, <1>3 DEF Pop
  <2>2. Last(tStack) = tStack[Len(tStack)] /\ Front(tStack) = SubSeq(tStack, 1, Len(tStack) - 1)
    BY DEF Last, Front
  <2> QED BY <1>1, <1>3, <2>1, <2>2
<1> QED BY <1>2, <1>3

\* The k-th task is answered.
LEMMA RemovedTask ==
  ASSUME NEW s \in Seq(Ids), NEW k \in DOMAIN s
  PROVE  /\ RemoveAt(s, k) \in Seq(Ids) /\ Len(RemoveAt(s, k)) = Len(s) - 1
         /\ \A j \in 1..(Len(s) - 1) : RemoveAt(s, k)[j] = IF j < k THEN s[j] ELSE s[j + 1]
         /\ \A x \in ToSet(s) : x # s[k] => x \in ToSet(RemoveAt(s, k))
         /\ ToSet(RemoveAt(s, k)) \subseteq ToSet(s)
<1>1. SubSeq(s, 1, k - 1) \in Seq(Ids) /\ Len(SubSeq(s, 1, k - 1)) = k - 1
      /\ \A j \in 1..(k - 1) : SubSeq(s, 1, k - 1)[j] = s[j]
  OBVIOUS
<1>2. SubSeq(s, k + 1, Len(s)) \in Seq(Ids) /\ Len(SubSeq(s, k + 1, Len(s))) = Len(s) - k
      /\ \A j \in 1..(Len(s) - k) : SubSeq(s, k + 1, Len(s))[j] = s[k + j]
  OBVIOUS
<1>3. PICK r : r = RemoveAt(s, k)
  OBVIOUS
<1>4. r \in Seq(Ids) /\ Len(r) = Len(s) - 1
      /\ \A j \in 1..(Len(s) - 1) : r[j] = IF j < k THEN s[j] ELSE s[j + 1]
  <2>1. PICK a : a = SubSeq(s, 1, k - 1)
    OBVIOUS
  <2>2. PICK b : b = SubSeq(s, k + 1, Len(s))
    OBVIOUS
  <2>3. r = a \o b
    BY <1>3, <2>1, <2>2 DEF RemoveAt
  <2>4. a \in Seq(Ids) /\ Len(a) = k - 1 /\ \A j \in 1..(k - 1) : a[j] = s[j]
    BY <1>1, <2>1
  <2>5. b \in Seq(Ids) /\ Len(b) = Len(s) - k /\ \A j \in 1..(Len(s) - k) : b[j] = s[k + j]
    BY <1>2, <2>2
  <2>6. r \in Seq(Ids) /\ Len(r) = Len(a) + Len(b)
        /\ \A j \in 1..(Len(a) + Len(b)) : r[j] = IF j <= Len(a) THEN a[j] ELSE b[j - Len(a)]
    BY <2>3, <2>4, <2>5, ConcatProperties
  <2>7. Len(r) = Len(s) - 1
    BY <2>4, <2>5, <2>6
  <2>8. ASSUME NEW j \in 1..(Len(s) - 1) PROVE r[j] = IF j < k THEN s[j] ELSE s[j + 1]
    <3>1. CASE j < k
      <4>1. j \in 1..(Len(a) + Len(b)) /\ j <= Len(a) /\ j \in 1..(k - 1)
        BY <2>4, <2>5, <3>1
      <4> QED BY <2>4, <2>6, <3>1, <4>1
    <3>2. CASE j >= k
      <4>1. /\ j \in 1..(Len(a) + Len(b)) /\ ~(j <= Len(a)) /\ j - Len(a) \in 1..(Len(s) - k)
            /\ k + (j - Len(a)) = j + 1 /\ ~(j < k)
        BY <2>4, <2>5, <3>2
      <4>2. r[j] = b[j - Len(a)]
        BY <2>6, <4>1
      <4>3. b[j - Len(a)] = s[j + 1]
        BY <2>5, <4>1
      <4> QED BY <4>1, <4>2, <4>3
    <3> QED BY <3>1, <3>2
  <2> QED BY <2>6, <2>7, <2>8
<1>5. ASSUME NEW i \in DOMAIN s, i # k PROVE s[i] \in ToSet(r)
  <2>1. CASE i < k
    <3>1. i \in DOMAIN r /\ r[i] = s[i]
      BY <1>4, <2>1
    <3> QED BY <3>1 DEF ToSet
  <2>2. CASE i > k
    <3>1. i - 1 \in DOMAIN r /\ r[i - 1] = s[i]
      BY <1>4, <2>2
    <3> QED BY <3>1 DEF ToSet
  <2> QED BY <1>5, <2>1, <2>2
<1>6. ToSet(r) \subseteq ToSet(s)
  <2> SUFFICES ASSUME NEW j \in DOMAIN r PROVE r[j] \in ToSet(s)
    BY DEF ToSet
  <2>1. j \in DOMAIN s /\ j + 1 \in DOMAIN s /\ (r[j] = s[j] \/ r[j] = s[j + 1])
    BY <1>4
  <2> QED BY <2>1 DEF ToSet
<1>7. \A x \in ToSet(s) : x # s[k] => x \in ToSet(r)
  BY <1>5 DEF ToSet
<1> QED BY <1>3, <1>4, <1>6, <1>7

\* What the result of a call carries, and what is on the stack.
LEMMA CallsMatch ==
  ASSUME NEW n \in Nat, NEW id \in ResultIds(CallId(n))
  PROVE  /\ id \notin {Omitted, TaskLike}
         /\ \A m \in Nat : ~RoughlyMatch(Marker(m), id) /\ (RoughlyMatch(CallId(m), id) <=> m = n)
<1>1. id = <<"call", n>> \/ id = <<"variant", n>>
  BY DEF ResultIds, CallId, Omitted, Variant
<1>2. CASE id = <<"call", n>>
  BY <1>2 DEF RoughlyMatch, CallId, Marker, Omitted, TaskLike
<1>3. CASE id = <<"variant", n>>
  BY <1>3 DEF RoughlyMatch, CallId, Marker, Omitted, TaskLike
<1> QED BY <1>1, <1>2, <1>3

LEMMA OmittedMatchNothing ==
  ASSUME NEW id \in {Omitted, TaskLike}, NEW a
  PROVE  ~RoughlyMatch(a, id)
BY DEF RoughlyMatch, Omitted, TaskLike

\* With the Tasks ending in reverse order, or every id given.
LEMMA StackIds ==
  ASSUME TShape, IdsGiven, StackFollows, tFed.regular \/ ~tFed.omitted, NEW j \in DOMAIN tStack
  PROVE  /\ (\E m \in Nat : tStack[j] = Marker(m)) \/ tStack[j] \in ToSet(tFed.tasks)
         /\ ~tFed.omitted => tStack[j] \in ToSet(tFed.tasks)
         /\ tStack[j] # Omitted
<1>1. j \in Nat
  BY DEF TShape, ScreenShape, FedShape
<1>2. ~tFed.omitted => tStack[j] \in ToSet(tFed.tasks)
  BY DEF StackFollows, ToSet
<1>3. ASSUME tFed.regular, tStack[j] # Marker(j)
      PROVE  tStack[j] \in ToSet(tFed.tasks) /\ tStack[j] # Omitted
  <2>1. j \in DOMAIN tFed.tasks /\ tStack[j] = tFed.tasks[j] /\ tFed.tasks[j] # Omitted
    BY <1>3 DEF StackFollows, TShape, ScreenShape, FedShape
  <2> QED BY <2>1 DEF ToSet
<1>4. Marker(j) # Omitted
  BY DEF Marker, Omitted
<1>5. ~tFed.omitted => tStack[j] # Omitted
  BY <1>2 DEF IdsGiven
<1> QED BY <1>1, <1>2, <1>3, <1>4, <1>5

LEMMA TaskPopped ==
  ASSUME TShape, IdsGiven, StackFollows, NEW k \in DOMAIN tFed.tasks, NEW id \in ResultIds(tFed.tasks[k])
  PROVE  /\ tFed.regular /\ k = Len(tFed.tasks) => Pop(id) = SubSeq(tStack, 1, k - 1)
         /\ ~tFed.omitted => \E m \in 0..Len(tStack) : /\ Pop(id) = SubSeq(tStack, 1, m)
                                                       /\ \A j \in 1..m : tStack[j] # tFed.tasks[k]
<1> DEFINE task == tFed.tasks[k]
<1>1. tStack \in Seq(Ids) /\ tFed.tasks \in Seq(Ids) /\ task \in ToSet(tFed.tasks)
  BY DEF TShape, ScreenShape, FedShape, ToSet
<1>2. IF task = Omitted THEN tFed.omitted ELSE \E n \in 1..tFed.calls : task = CallId(n)
  BY <1>1 DEF IdsGiven
<1>3. ASSUME tFed.regular, k = Len(tFed.tasks) PROVE Pop(id) = SubSeq(tStack, 1, k - 1)
  <2>1. Len(tStack) = k /\ k \in DOMAIN tStack /\ k \in Nat
        /\ tStack[k] = IF task = Omitted THEN Marker(k) ELSE task
    BY <1>1, <1>3 DEF StackFollows
  <2>2. CASE task = Omitted
    <3>1. id \in {Omitted, TaskLike}
      BY <2>2 DEF ResultIds
    <3>2. \A j \in DOMAIN tStack : ~RoughlyMatch(tStack[j], id)
      BY <3>1, OmittedMatchNothing
    <3>3. tStack # <<>> /\ tStack[Len(tStack)][1] = "marker"
      BY <1>1, <2>1, <2>2 DEF Marker
    <3> QED BY <1>1, <2>1, <3>1, <3>2, <3>3, PopCuts
  <2>3. CASE task # Omitted
    <3>1. PICK n \in 1..tFed.calls : task = CallId(n)
      BY <1>2, <2>3
    <3>2. n \in Nat /\ id \in ResultIds(CallId(n))
      BY <3>1 DEF TShape, ScreenShape, FedShape
    <3>3. RoughlyMatch(tStack[k], id)
      BY <2>1, <2>3, <3>1, <3>2, CallsMatch
    <3>4. PICK m \in DOMAIN tStack : k <= m /\ Pop(id) = SubSeq(tStack, 1, m - 1)
      BY <1>1, <2>1, <3>3, PopCuts
    <3>5. m = k
      BY <1>1, <2>1, <3>4
    <3> QED BY <3>4, <3>5
  <2> QED BY <2>2, <2>3
<1>4. ASSUME ~tFed.omitted
      PROVE  \E m \in 0..Len(tStack) : Pop(id) = SubSeq(tStack, 1, m) /\ \A j \in 1..m : tStack[j] # task
  <2>1. PICK n \in 1..tFed.calls : task = CallId(n)
    BY <1>2, <1>4
  <2>2. n \in Nat /\ id \in ResultIds(CallId(n)) /\ id \notin {Omitted, TaskLike}
    BY <2>1, CallsMatch DEF TShape, ScreenShape, FedShape
  <2>3. \A j \in DOMAIN tStack : RoughlyMatch(tStack[j], id) <=> tStack[j] = task
    <3> SUFFICES ASSUME NEW j \in DOMAIN tStack PROVE RoughlyMatch(tStack[j], id) <=> tStack[j] = task
      OBVIOUS
    <3>1. tStack[j] \in ToSet(tFed.tasks)
      BY <1>4, StackIds
    <3>2. PICK i \in 1..tFed.calls : tStack[j] = CallId(i)
      BY <1>4, <3>1 DEF IdsGiven
    <3>3. i \in Nat /\ (CallId(i) = CallId(n) <=> i = n)
      BY <3>2 DEF TShape, ScreenShape, FedShape, CallId
    <3> QED BY <2>1, <2>2, <3>2, <3>3, CallsMatch
  <2>4. CASE \E j \in DOMAIN tStack : RoughlyMatch(tStack[j], id)
    <3>1. PICK m \in DOMAIN tStack : RoughlyMatch(tStack[m], id) /\ Pop(id) = SubSeq(tStack, 1, m - 1)
      BY <1>1, <2>4, PopCuts
    <3>2. tStack[m] = task
      BY <2>3, <3>1
    <3>3. \A i, j \in DOMAIN tStack : i # j => tStack[i] # tStack[j]
      BY <1>4 DEF StackFollows
    <3>4. m - 1 \in 0..Len(tStack) /\ \A j \in 1..(m - 1) : j \in DOMAIN tStack /\ j # m
      BY <1>1, <3>1
    <3> QED BY <3>1, <3>2, <3>3, <3>4
  <2>5. CASE \A j \in DOMAIN tStack : ~RoughlyMatch(tStack[j], id)
    <3>1. Pop(id) = tStack
      BY <1>1, <2>2, <2>5, PopCuts
    <3>2. tStack = SubSeq(tStack, 1, Len(tStack)) /\ Len(tStack) \in 0..Len(tStack)
          /\ \A j \in 1..Len(tStack) : j \in DOMAIN tStack
      BY <1>1
    <3>3. \A j \in 1..Len(tStack) : tStack[j] # task
      BY <2>3, <2>5, <3>2
    <3> QED BY <3>1, <3>2, <3>3
  <2> QED BY <2>4, <2>5
<1> QED BY <1>3, <1>4

LEMMA PlainLeaves ==
  ASSUME TShape, IdsGiven, StackFollows, NEW id \in tFed.tools
  PROVE  /\ tFed.regular /\ (id = Omitted /\ InSubagent => Last(tStack)[1] # "marker") => Pop(id) = tStack
         /\ ~tFed.omitted => Pop(id) = tStack
<1>1. tStack \in Seq(Ids) /\ IF id = Omitted THEN tFed.omitted ELSE \E n \in 1..tFed.calls : id = CallId(n)
  BY DEF IdsGiven, TShape, ScreenShape, FedShape
<1>2. ASSUME tFed.regular \/ ~tFed.omitted PROVE \A j \in DOMAIN tStack : ~RoughlyMatch(tStack[j], id)
  <2>1. CASE id = Omitted
    BY <2>1, OmittedMatchNothing
  <2>2. CASE id # Omitted
    <3> SUFFICES ASSUME NEW j \in DOMAIN tStack PROVE ~RoughlyMatch(tStack[j], id)
      OBVIOUS
    <3>1. PICK n \in 1..tFed.calls : id = CallId(n)
      BY <1>1, <2>2
    <3>2. n \in Nat /\ id \in ResultIds(CallId(n))
      BY <2>2, <3>1 DEF TShape, ScreenShape, FedShape, ResultIds
    <3>3. CASE \E m \in Nat : tStack[j] = Marker(m)
      BY <3>2, <3>3, CallsMatch
    <3>4. CASE tStack[j] \in ToSet(tFed.tasks)
      <4>1. tStack[j] # Omitted
        BY <1>2, StackIds
      <4>2. PICK m \in 1..tFed.calls : tStack[j] = CallId(m)
        BY <3>4, <4>1 DEF IdsGiven
      <4>3. tStack[j] # id
        BY <2>2, <3>4 DEF IdsGiven
      <4>4. m \in Nat /\ m # n
        BY <3>1, <4>2, <4>3 DEF TShape, ScreenShape, FedShape
      <4> QED BY <3>2, <4>2, <4>4, CallsMatch
    <3> QED BY <1>2, <3>3, <3>4, StackIds
  <2> QED BY <2>1, <2>2
<1>3. id # TaskLike
  BY <1>1 DEF CallId, Omitted, TaskLike
<1>4. ASSUME ~tFed.omitted PROVE Pop(id) = tStack
  <2>1. id # Omitted
    BY <1>1, <1>4
  <2> QED BY <1>1, <1>2, <1>3, <1>4, <2>1, PopCuts
<1>5. ASSUME tFed.regular, id = Omitted /\ InSubagent => Last(tStack)[1] # "marker" PROVE Pop(id) = tStack
  <2>1. ~(id \in {Omitted, TaskLike} /\ tStack # <<>> /\ tStack[Len(tStack)][1] = "marker")
    BY <1>3, <1>5 DEF InSubagent, Last
  <2> QED BY <1>1, <1>2, <1>5, <2>1, PopCuts
<1> QED BY <1>4, <1>5

-----------------------------------------------------------------------------
\* A step that says nothing new: what is left to show of it.
LEMMA QuietStep ==
  ASSUME TranscriptInv, PiecesKept, ScreenShape', OpenTyped(tOpen'), tStack' \in Seq(Ids), FedShape', IdsGiven', StackFollows',
         tScreen'.ended \/ tFed'.n # 0,
         \A kind \in Kinds : tOpen'[kind][0] = tOpen[kind][0],
         tStack' = <<>> =>
           \A i \in Indices \ {0} : tFed'.live[i].kind \in Kinds =>
             tStack = <<>> /\ tFed'.live[i] = tFed.live[i] /\ tOpen'[tFed.live[i].kind][i] = tOpen[tFed.live[i].kind][i]
  PROVE  TranscriptInv'
<1>1. TShape /\ TranscriptFaithful /\ OpensFollow /\ \A k \in DOMAIN tSegs : ToSet(tSegs[k].parts) \subseteq DOMAIN tFed.pieces
  BY DEF TranscriptInv, PartsSaid
<1>2. TranscriptFaithful' /\ tSegs' \in Seq(SegmentRow)
      /\ \A k \in DOMAIN tSegs' : ToSet(tSegs'[k].parts) \subseteq DOMAIN tFed'.pieces
  BY <1>1, PiecesKeep
<1>3. OpensFollow'
  BY <1>1, OpensKeep
<1>4. TShape'
  BY <1>2 DEF TShape
<1>5. PartsSaid'
  BY <1>2 DEF PartsSaid
<1> QED BY <1>2, <1>3, <1>4, <1>5 DEF TranscriptInv

\* The calls and their answers do not change.
CallsKept ==
  /\ tStack' = tStack /\ tFed'.tasks = tFed.tasks /\ tFed'.tools = tFed.tools /\ tFed'.calls = tFed.calls
  /\ tFed'.omitted = tFed.omitted /\ tFed'.regular = tFed.regular

LEMMA CallsKeep ==
  ASSUME IdsGiven, StackFollows, CallsKept
  PROVE  IdsGiven' /\ StackFollows'
<1>1. IdsGiven'
  BY DEF IdsGiven, CallsKept
<1>2. StackFollows'
  BY DEF StackFollows, CallsKept
<1> QED BY <1>1, <1>2

LEMMA ScreenTurns ==
  ASSUME TShape, NEW status \in BOOLEAN, NEW force \in BOOLEAN, tScreen' \in Update(tSegs', status, force)
  PROVE  ScreenShape' /\ tScreen'.ended = tScreen.ended /\ tScreen'.layout = tScreen.layout
<1>1. PICK segs, screen : segs = tSegs' /\ screen = tScreen'
  OBVIOUS
<1>2. screen \in Update(segs, status, force)
  BY <1>1
<1>3. /\ DOMAIN screen = DOMAIN tScreen /\ screen.layout = tScreen.layout /\ screen.ended = tScreen.ended
      /\ screen.status \in BOOLEAN /\ screen.bare = tScreen.bare
  BY <1>2, ScreenSteps
<1> QED BY <1>1, <1>3 DEF ScreenShape, TShape

LEMMA ScreenEnds ==
  ASSUME TShape, NEW bare, tScreen' \in Ended(Update(tSegs', TRUE, TRUE), bare)
  PROVE  ScreenShape' /\ tScreen'.ended
<1>1. PICK segs : segs = tSegs'
  OBVIOUS
<1>2. PICK screen \in Update(segs, TRUE, TRUE) : tScreen' = [screen EXCEPT !.ended = TRUE, !.bare = bare]
  BY <1>1 DEF Ended
<1>3. DOMAIN screen = DOMAIN tScreen /\ screen.layout = tScreen.layout /\ screen.status \in BOOLEAN
  BY <1>2, ScreenSteps
<1> QED BY <1>2, <1>3 DEF ScreenShape, TShape

SegmentKinds == Kinds \cup {"tool_call", "tool_result", "subagent", "error"}

LEMMA EmptyRow ==
  ASSUME tFed'.pieces = tFed.pieces,
         tSegs' = tSegs \/ \E kind \in SegmentKinds : tSegs' = Append(tSegs, Segment(kind, <<>>))
  PROVE  PiecesKept
<1>1. CASE tSegs' = tSegs
  BY <1>1 DEF PiecesKept
<1>2. ASSUME NEW kind \in SegmentKinds, tSegs' = Append(tSegs, Segment(kind, <<>>)) PROVE PiecesKept
  <2>1. Segment(kind, <<>>) \in SegmentRow /\ Segment(kind, <<>>).parts = <<>>
    BY DEF Segment, SegmentRow, SegmentKinds
  <2> QED BY <1>2, <2>1 DEF PiecesKept
<1> QED BY <1>1, <1>2

LEMMA ErrorShownKeeps == ASSUME TranscriptInv, ErrorShown PROVE TranscriptInv'
<1>1. TShape /\ IdsGiven /\ StackFollows
  BY DEF TranscriptInv
<1>2. ScreenShape'
  BY <1>1, ScreenTurns DEF ErrorShown
<1>3. /\ DOMAIN tFed' = DOMAIN tFed /\ tFed'.n = tFed.n + 1 /\ tFed'.live = tFed.live /\ tFed'.blocks = tFed.blocks
      /\ tFed'.tasks = tFed.tasks /\ tFed'.tools = tFed.tools /\ tFed'.calls = tFed.calls /\ tFed'.regular = tFed.regular
      /\ tFed'.omitted = tFed.omitted /\ tFed'.pieces = tFed.pieces
  BY <1>1 DEF ErrorShown, TShape, FedShape
<1>4. FedShape' /\ tFed'.n # 0
  BY <1>1, <1>3 DEF TShape, FedShape
<1>5. PiecesKept
  BY <1>3, EmptyRow DEF ErrorShown, SegmentKinds
<1>6. CallsKept /\ UNCHANGED <<tStack, tOpen>>
  BY <1>3 DEF CallsKept, ErrorShown
<1>7. OpenTyped(tOpen') /\ tStack' \in Seq(Ids)
  BY <1>1, <1>6 DEF TShape
<1> QED BY <1>1, <1>2, <1>3, <1>4, <1>5, <1>6, <1>7, CallsKeep, QuietStep

LEMMA CancelledTaskKeeps == ASSUME TranscriptInv, NEW stopped \in BOOLEAN, CancelledTask(stopped) PROVE TranscriptInv'
<1>1. TShape /\ IdsGiven /\ StackFollows
  BY DEF TranscriptInv
<1>2. ScreenShape' /\ tScreen'.ended
  BY <1>1, ScreenEnds DEF CancelledTask
<1>3. UNCHANGED <<tStack, tOpen, tFed>>
  BY DEF CancelledTask
<1>4. PiecesKept
  BY <1>3, EmptyRow DEF CancelledTask, SegmentKinds
<1>5. CallsKept /\ FedShape' /\ OpenTyped(tOpen') /\ tStack' \in Seq(Ids)
  BY <1>1, <1>3 DEF CallsKept, TShape, FedShape
<1> QED BY <1>1, <1>2, <1>3, <1>4, <1>5, CallsKeep, QuietStep

\* Whoever cancelled the task writes over its screen.
LEMMA StoppedShownKeeps == ASSUME TranscriptInv, StoppedShown PROVE TranscriptInv'
<1>1. TShape /\ IdsGiven /\ StackFollows /\ tScreen.ended
  BY DEF TranscriptInv, TShape, ScreenShape, StoppedShown
<1>2. PICK text : text = [from |-> 0, tail |-> 0, length |-> tScreen.layout.status]
  OBVIOUS
<1>3. tScreen' = [tScreen EXCEPT !.shown = text, !.bare = "shown"]
  BY <1>2 DEF StoppedShown
<1>4. ScreenShape' /\ tScreen'.ended
  BY <1>1, <1>3 DEF TShape, ScreenShape
<1>5. UNCHANGED <<tSegs, tStack, tOpen, tFed>>
  BY DEF StoppedShown
<1>6. PiecesKept
  BY <1>5 DEF PiecesKept
<1>7. CallsKept /\ FedShape' /\ OpenTyped(tOpen') /\ tStack' \in Seq(Ids)
  BY <1>1, <1>5 DEF CallsKept, TShape, FedShape
<1> QED BY <1>1, <1>4, <1>5, <1>6, <1>7, CallsKeep, QuietStep

LEMMA ToolUseDeltaKeeps == ASSUME TranscriptInv, NEW i \in Indices, ToolUseDelta(i) PROVE TranscriptInv'
<1>1. TShape /\ IdsGiven /\ StackFollows
  BY DEF TranscriptInv
<1>2. UNCHANGED <<tSegs, tOpen, tStack>>
  BY DEF ToolUseDelta
<1>3. ScreenShape'
  BY <1>1, <1>2, ScreenTurns DEF ToolUseDelta
<1>4. /\ DOMAIN tFed' = DOMAIN tFed /\ tFed'.n = tFed.n + 1 /\ tFed'.live = tFed.live /\ tFed'.blocks = tFed.blocks
      /\ tFed'.tasks = tFed.tasks /\ tFed'.tools = tFed.tools /\ tFed'.calls = tFed.calls /\ tFed'.regular = tFed.regular
      /\ tFed'.omitted = tFed.omitted /\ tFed'.pieces = tFed.pieces
  BY <1>1 DEF ToolUseDelta, TShape, FedShape
<1>5. FedShape' /\ tFed'.n # 0
  BY <1>1, <1>4 DEF TShape, FedShape
<1>6. PiecesKept
  BY <1>2, <1>4 DEF PiecesKept
<1>7. CallsKept /\ OpenTyped(tOpen') /\ tStack' \in Seq(Ids)
  BY <1>1, <1>2, <1>4 DEF CallsKept, TShape
<1> QED BY <1>1, <1>2, <1>3, <1>4, <1>5, <1>6, <1>7, CallsKeep, QuietStep

LEMMA SegmentStopKeeps == ASSUME TranscriptInv, NEW i \in Indices, SegmentStop(i) PROVE TranscriptInv'
<1>1. TShape /\ IdsGiven /\ StackFollows /\ OpensFollow /\ OpenTyped(tOpen)
  BY DEF TranscriptInv, TShape
<1>2. UNCHANGED <<tSegs, tStack>>
  BY DEF SegmentStop
<1>3. ScreenShape'
  <2>1. tScreen.status \in BOOLEAN /\ tScreen' \in Update(tSegs', tScreen.status, TRUE)
    BY <1>1, <1>2 DEF SegmentStop, TShape, ScreenShape
  <2> QED BY <1>1, <2>1, ScreenTurns
<1>4. /\ DOMAIN tFed' = DOMAIN tFed /\ tFed'.n = tFed.n + 1 /\ tFed'.live = [tFed.live EXCEPT ![i] = NoBlock]
      /\ tFed'.blocks = tFed.blocks
      /\ tFed'.tasks = tFed.tasks /\ tFed'.tools = tFed.tools /\ tFed'.calls = tFed.calls /\ tFed'.regular = tFed.regular
      /\ tFed'.omitted = tFed.omitted /\ tFed'.pieces = tFed.pieces
  BY <1>1 DEF SegmentStop, TShape, FedShape
<1>5. /\ tFed'.live \in [Indices -> [kind : Kinds \cup {"none", "tool"}, block : Nat]]
      /\ tFed'.live[i].kind = "none" /\ \A j \in Indices : j # i => tFed'.live[j] = tFed.live[j]
  <2>1. NoBlock \in [kind : Kinds \cup {"none", "tool"}, block : Nat] /\ NoBlock.kind = "none"
    BY DEF NoBlock
  <2> QED BY <1>1, <1>4, <2>1 DEF TShape, FedShape
<1>6. FedShape' /\ tFed'.n # 0
  BY <1>1, <1>4, <1>5 DEF TShape, FedShape
<1>7. PiecesKept
  BY <1>2, <1>4 DEF PiecesKept
<1>8. CallsKept /\ tStack' \in Seq(Ids)
  BY <1>1, <1>2, <1>4 DEF CallsKept, TShape
<1>9. PICK open : open = Stop(tOpen, i) /\ tOpen' = open
  BY DEF SegmentStop
<1>10. /\ OpenTyped(open)
       /\ \A kind \in DOMAIN tOpen : \A j \in Indices : j # i => open[kind][j] = tOpen[kind][j]
       /\ \A kind \in DOMAIN tOpen : \A j \in Indices : open[kind][j] \in {0, tOpen[kind][j]}
  BY <1>1, <1>9, StopKeeps
<1>11. \A kind \in Kinds : tOpen'[kind][0] = tOpen[kind][0]
  <2> SUFFICES ASSUME NEW kind \in Kinds PROVE tOpen'[kind][0] = tOpen[kind][0]
    OBVIOUS
  <2>1. kind \in DOMAIN tOpen /\ 0 \in Indices /\ tOpen[kind][0] = 0
    BY <1>1, TranscriptAssumption DEF OpenTyped, OpensFollow, Kinds
  <2> QED BY <1>9, <1>10, <2>1
<1>12. \A j \in Indices \ {0} : tFed'.live[j].kind \in Kinds =>
          tFed'.live[j] = tFed.live[j] /\ tOpen'[tFed.live[j].kind][j] = tOpen[tFed.live[j].kind][j]
  <2> SUFFICES ASSUME NEW j \in Indices \ {0}, tFed'.live[j].kind \in Kinds
               PROVE  tFed'.live[j] = tFed.live[j] /\ tOpen'[tFed.live[j].kind][j] = tOpen[tFed.live[j].kind][j]
    OBVIOUS
  <2>1. j # i
    BY <1>5 DEF Kinds
  <2>2. tFed'.live[j] = tFed.live[j] /\ tFed.live[j].kind \in DOMAIN tOpen
    BY <1>1, <1>5, <2>1 DEF OpenTyped, Kinds
  <2> QED BY <1>9, <1>10, <2>1, <2>2
<1>13. OpenTyped(tOpen')
  BY <1>9, <1>10
<1>14. IdsGiven' /\ StackFollows'
  BY <1>1, <1>8, CallsKeep
<1> QED BY <1>2, <1>3, <1>6, <1>7, <1>8, <1>11, <1>12, <1>13, <1>14, QuietStep

-----------------------------------------------------------------------------
\* A new call.
LEMMA CallsToolMakes ==
  ASSUME TShape, NEW id, NEW i \in Indices, NEW fed, fed = CallsTool(id, i)
  PROVE  /\ DOMAIN fed = DOMAIN tFed /\ fed.n = tFed.n + 1 /\ fed.calls = tFed.calls + 1
         /\ fed.omitted = (tFed.omitted \/ id = Omitted) /\ fed.regular = tFed.regular
         /\ fed.tools = tFed.tools /\ fed.tasks = tFed.tasks /\ fed.pieces = tFed.pieces /\ fed.blocks = tFed.blocks
         /\ fed.live \in [Indices -> [kind : Kinds \cup {"none", "tool"}, block : Nat]]
         /\ \A j \in Indices : j # 0 /\ fed.live[j].kind \in Kinds => j # i /\ fed.live[j] = tFed.live[j]
<1>1. PICK row : row = [kind |-> "tool", block |-> 0]
  OBVIOUS
<1>2. PICK live : live = [tFed.live EXCEPT ![i] = IF i = 0 THEN @ ELSE row]
  OBVIOUS
<1>3. /\ DOMAIN fed = DOMAIN tFed /\ fed.n = tFed.n + 1 /\ fed.calls = tFed.calls + 1
      /\ fed.omitted = (tFed.omitted \/ id = Omitted) /\ fed.regular = tFed.regular
      /\ fed.tools = tFed.tools /\ fed.tasks = tFed.tasks /\ fed.pieces = tFed.pieces /\ fed.blocks = tFed.blocks
      /\ fed.live = live
  BY <1>1, <1>2 DEF CallsTool, TShape, FedShape
<1>4. row \in [kind : Kinds \cup {"none", "tool"}, block : Nat] /\ row.kind \notin Kinds
  BY <1>1 DEF Kinds
<1>5. live \in [Indices -> [kind : Kinds \cup {"none", "tool"}, block : Nat]]
      /\ \A j \in Indices : j # i => live[j] = tFed.live[j]
  BY <1>2, <1>4 DEF TShape, FedShape
<1>6. i # 0 => live[i] = row
  BY <1>2 DEF TShape, FedShape
<1> QED BY <1>3, <1>4, <1>5, <1>6

LEMMA NewCall ==
  ASSUME TShape, IdsGiven, NEW id \in {Omitted, CallId(tFed.calls + 1)}
  PROVE  /\ id \in Ids
         /\ id # Omitted => id \notin tFed.tools \cup ToSet(tFed.tasks) /\ id = CallId(tFed.calls + 1)
         /\ \A x \in tFed.tools \cup ToSet(tFed.tasks) \cup {id} :
               IF x = Omitted THEN tFed.omitted \/ id = Omitted ELSE \E n \in 1..(tFed.calls + 1) : x = CallId(n)
<1>1. tFed.calls \in Nat
  BY DEF TShape, FedShape
<1>2. id \in Ids
  BY <1>1 DEF Ids, Omitted, CallId
<1>3. ASSUME NEW x \in tFed.tools \cup ToSet(tFed.tasks), x # Omitted
      PROVE  x # CallId(tFed.calls + 1) /\ \E n \in 1..(tFed.calls + 1) : x = CallId(n)
  <2>1. PICK n \in 1..tFed.calls : x = CallId(n)
    BY <1>3 DEF IdsGiven
  <2>2. n \in 1..(tFed.calls + 1) /\ n # tFed.calls + 1
    BY <1>1, <2>1
  <2> QED BY <2>1, <2>2 DEF CallId
<1>4. tFed.calls + 1 \in 1..(tFed.calls + 1)
  BY <1>1
<1>5. \A x \in tFed.tools \cup ToSet(tFed.tasks) : x = Omitted => tFed.omitted
  BY DEF IdsGiven
<1> QED BY <1>2, <1>3, <1>4, <1>5

LEMMA AppendedTask ==
  ASSUME NEW s \in Seq(Ids), NEW id \in Ids
  PROVE  /\ Append(s, id) \in Seq(Ids) /\ Len(Append(s, id)) = Len(s) + 1 /\ Append(s, id)[Len(s) + 1] = id
         /\ \A j \in 1..Len(s) : Append(s, id)[j] = s[j]
         /\ ToSet(Append(s, id)) = ToSet(s) \cup {id}
<1>1. PICK r : r = Append(s, id)
  OBVIOUS
<1>2. r \in Seq(Ids) /\ Len(r) = Len(s) + 1 /\ r[Len(s) + 1] = id /\ \A j \in 1..Len(s) : r[j] = s[j]
  BY <1>1
<1>3. DOMAIN r = 1..(Len(s) + 1) /\ DOMAIN s = 1..Len(s) /\ Len(s) \in Nat
  BY <1>2
<1>4. \A j \in DOMAIN r : r[j] \in ToSet(s) \cup {id}
  BY <1>2, <1>3 DEF ToSet
<1>5. \A j \in DOMAIN s : s[j] \in ToSet(r)
  BY <1>2, <1>3 DEF ToSet
<1>6. id \in ToSet(r)
  BY <1>2, <1>3 DEF ToSet
<1>7. ToSet(r) \subseteq ToSet(s) \cup {id}
  BY <1>4 DEF ToSet
<1>8. ToSet(s) \subseteq ToSet(r)
  BY <1>5 DEF ToSet
<1> QED BY <1>1, <1>2, <1>6, <1>7, <1>8

LEMMA ToolUseKeeps ==
  ASSUME TranscriptInv, NEW i \in Indices, NEW id \in {Omitted, CallId(tFed.calls + 1)}, ToolUse(id, i)
  PROVE  TranscriptInv'
<1>1. TShape /\ IdsGiven /\ StackFollows /\ OpensFollow /\ OpenTyped(tOpen)
  BY DEF TranscriptInv, TShape
<1>2. UNCHANGED tStack
  BY DEF ToolUse
<1>3. ScreenShape'
  BY <1>1, ScreenTurns DEF ToolUse
<1>4. PICK fed : fed = CallsTool(id, i)
  OBVIOUS
<1>5. /\ DOMAIN fed = DOMAIN tFed /\ fed.n = tFed.n + 1 /\ fed.calls = tFed.calls + 1
      /\ fed.omitted = (tFed.omitted \/ id = Omitted) /\ fed.regular = tFed.regular
      /\ fed.tools = tFed.tools /\ fed.tasks = tFed.tasks /\ fed.pieces = tFed.pieces /\ fed.blocks = tFed.blocks
      /\ fed.live \in [Indices -> [kind : Kinds \cup {"none", "tool"}, block : Nat]]
      /\ \A j \in Indices : j # 0 /\ fed.live[j].kind \in Kinds => j # i /\ fed.live[j] = tFed.live[j]
  BY <1>1, <1>4, CallsToolMakes
<1>6. tFed' = [fed EXCEPT !.tools = @ \cup {id}]
  BY <1>4 DEF ToolUse
<1>7. /\ DOMAIN tFed' = DOMAIN tFed /\ tFed'.n = tFed.n + 1 /\ tFed'.calls = tFed.calls + 1
      /\ tFed'.omitted = (tFed.omitted \/ id = Omitted) /\ tFed'.regular = tFed.regular
      /\ tFed'.tools = tFed.tools \cup {id} /\ tFed'.tasks = tFed.tasks /\ tFed'.pieces = tFed.pieces
      /\ tFed'.blocks = tFed.blocks /\ tFed'.live = fed.live
  BY <1>1, <1>5, <1>6 DEF TShape, FedShape
<1>8. id \in Ids /\ (id # Omitted => id \notin ToSet(tFed.tasks))
      /\ \A x \in tFed.tools \cup ToSet(tFed.tasks) \cup {id} :
            IF x = Omitted THEN tFed.omitted \/ id = Omitted ELSE \E n \in 1..(tFed.calls + 1) : x = CallId(n)
  BY <1>1, NewCall
<1>9. FedShape' /\ tFed'.n # 0
  BY <1>1, <1>5, <1>7, <1>8 DEF TShape, FedShape
<1>10. IdsGiven'
  BY <1>1, <1>7, <1>8 DEF IdsGiven
<1>11. StackFollows'
  BY <1>1, <1>2, <1>7 DEF StackFollows
<1>12. PiecesKept
  BY <1>7, EmptyRow DEF ToolUse, SegmentKinds
<1>13. PICK open : open = Stop(tOpen, i)
  OBVIOUS
<1>14. /\ OpenTyped(open)
       /\ \A kind \in DOMAIN tOpen : \A j \in Indices : j # i => open[kind][j] = tOpen[kind][j]
       /\ \A kind \in DOMAIN tOpen : \A j \in Indices : open[kind][j] \in {0, tOpen[kind][j]}
  BY <1>1, <1>13, StopKeeps
<1>15. tOpen' = IF i = 0 THEN tOpen ELSE [open EXCEPT !.tool[i] = 1]
  BY <1>13 DEF ToolUse
<1>16. OpenTyped(tOpen') /\ \A kind \in Kinds : \A j \in Indices : j # i \/ i = 0 => tOpen'[kind][j] = tOpen[kind][j]
  <2>1. CASE i = 0
    BY <1>1, <1>15, <2>1
  <2>2. CASE i # 0
    <3>1. PICK row : row = [open.tool EXCEPT ![i] = 1]
      OBVIOUS
    <3>2. tOpen' = [open EXCEPT !.tool = row] /\ row \in [Indices -> Nat]
      BY <1>14, <1>15, <2>2, <3>1 DEF OpenTyped
    <3>3. OpenTyped(tOpen') /\ \A kind \in Kinds : tOpen'[kind] = open[kind]
      BY <1>14, <3>2 DEF OpenTyped, Kinds
    <3>4. Kinds \subseteq DOMAIN tOpen
      BY <1>1 DEF OpenTyped, Kinds
    <3> QED BY <1>14, <2>2, <3>3, <3>4
  <2> QED BY <2>1, <2>2
<1>17. tStack' \in Seq(Ids) /\ 0 \in Indices
  BY <1>1, <1>2, TranscriptAssumption DEF TShape
<1>18. \A kind \in Kinds : tOpen'[kind][0] = tOpen[kind][0]
  BY <1>16, <1>17
<1>19. \A j \in Indices \ {0} : tFed'.live[j].kind \in Kinds =>
          tFed'.live[j] = tFed.live[j] /\ tOpen'[tFed.live[j].kind][j] = tOpen[tFed.live[j].kind][j]
  BY <1>5, <1>7, <1>16
<1> QED BY <1>2, <1>3, <1>9, <1>10, <1>11, <1>12, <1>16, <1>17, <1>18, <1>19, QuietStep

LEMMA TaskUseKeeps ==
  ASSUME TranscriptInv, NEW i \in Indices, NEW id \in {Omitted, CallId(tFed.calls + 1)}, TaskUse(id, i)
  PROVE  TranscriptInv'
<1>1. TShape /\ IdsGiven /\ StackFollows /\ OpensFollow /\ OpenTyped(tOpen)
  BY DEF TranscriptInv, TShape
<1>2. ScreenShape'
  BY <1>1, ScreenTurns DEF TaskUse
<1>3. PICK fed : fed = CallsTool(id, i)
  OBVIOUS
<1>4. /\ DOMAIN fed = DOMAIN tFed /\ fed.n = tFed.n + 1 /\ fed.calls = tFed.calls + 1
      /\ fed.omitted = (tFed.omitted \/ id = Omitted) /\ fed.regular = tFed.regular
      /\ fed.tools = tFed.tools /\ fed.tasks = tFed.tasks /\ fed.pieces = tFed.pieces /\ fed.blocks = tFed.blocks
      /\ fed.live \in [Indices -> [kind : Kinds \cup {"none", "tool"}, block : Nat]]
      /\ \A j \in Indices : j # 0 /\ fed.live[j].kind \in Kinds => j # i /\ fed.live[j] = tFed.live[j]
  BY <1>1, <1>3, CallsToolMakes
<1>5. tFed' = [fed EXCEPT !.tasks = Append(@, id)]
  BY <1>3 DEF TaskUse
<1>6. PICK tasks : tasks = Append(tFed.tasks, id)
  OBVIOUS
<1>7. /\ DOMAIN tFed' = DOMAIN tFed /\ tFed'.n = tFed.n + 1 /\ tFed'.calls = tFed.calls + 1
      /\ tFed'.omitted = (tFed.omitted \/ id = Omitted) /\ tFed'.regular = tFed.regular
      /\ tFed'.tools = tFed.tools /\ tFed'.tasks = tasks /\ tFed'.pieces = tFed.pieces
      /\ tFed'.blocks = tFed.blocks /\ tFed'.live = fed.live
  BY <1>1, <1>4, <1>5, <1>6 DEF TShape, FedShape
<1>8. id \in Ids /\ (id # Omitted => id \notin tFed.tools \cup ToSet(tFed.tasks) /\ id = CallId(tFed.calls + 1))
      /\ \A x \in tFed.tools \cup ToSet(tFed.tasks) \cup {id} :
            IF x = Omitted THEN tFed.omitted \/ id = Omitted ELSE \E n \in 1..(tFed.calls + 1) : x = CallId(n)
  BY <1>1, NewCall
<1>9. /\ tasks \in Seq(Ids) /\ Len(tasks) = Len(tFed.tasks) + 1 /\ tasks[Len(tFed.tasks) + 1] = id
      /\ \A j \in 1..Len(tFed.tasks) : tasks[j] = tFed.tasks[j]
      /\ ToSet(tasks) = ToSet(tFed.tasks) \cup {id}
  BY <1>1, <1>6, <1>8, AppendedTask DEF TShape, FedShape
<1>10. FedShape' /\ tFed'.n # 0
  BY <1>1, <1>4, <1>7, <1>9 DEF TShape, FedShape
<1>11. Len(tFed.tasks) \in Nat /\ Len(tStack) \in Nat /\ DOMAIN tFed.tasks = 1..Len(tFed.tasks)
       /\ DOMAIN tStack = 1..Len(tStack) /\ DOMAIN tasks = 1..(Len(tFed.tasks) + 1)
  BY <1>1, <1>9 DEF TShape, FedShape
<1>12. IdsGiven'
  <2>1. \A x \in tFed'.tools \cup ToSet(tFed'.tasks) :
           IF x = Omitted THEN tFed'.omitted ELSE \E n \in 1..tFed'.calls : x = CallId(n)
    BY <1>7, <1>8, <1>9
  <2>2. \A x \in tFed'.tools \cap ToSet(tFed'.tasks) : x = Omitted
    BY <1>1, <1>7, <1>8, <1>9 DEF IdsGiven
  <2>3. ASSUME NEW j \in DOMAIN tasks, NEW k \in DOMAIN tasks, j # k, tasks[j] = tasks[k] PROVE tasks[j] = Omitted
    <3>1. CASE j \in DOMAIN tFed.tasks /\ k \in DOMAIN tFed.tasks
      BY <1>1, <1>9, <1>11, <2>3, <3>1 DEF IdsGiven
    <3>2. CASE j \notin DOMAIN tFed.tasks
      <4>1. tasks[j] = id /\ tasks[k] \in ToSet(tFed.tasks)
        BY <1>9, <1>11, <2>3, <3>2 DEF ToSet
      <4> QED BY <1>8, <2>3, <4>1
    <3>3. CASE k \notin DOMAIN tFed.tasks
      <4>1. tasks[k] = id /\ tasks[j] \in ToSet(tFed.tasks)
        BY <1>9, <1>11, <2>3, <3>3 DEF ToSet
      <4> QED BY <1>8, <2>3, <4>1
    <3> QED BY <3>1, <3>2, <3>3
  <2> QED BY <1>7, <2>1, <2>2, <2>3 DEF IdsGiven
<1>13. PICK top : top = IF id = Omitted THEN Marker(Len(tStack) + 1) ELSE id
  OBVIOUS
<1>14. tStack' = Append(tStack, top) /\ top \in Ids
  BY <1>8, <1>11, <1>13 DEF TaskUse, Push, Marker, Ids
<1>15. /\ tStack' \in Seq(Ids) /\ Len(tStack') = Len(tStack) + 1 /\ tStack'[Len(tStack) + 1] = top
       /\ \A j \in 1..Len(tStack) : tStack'[j] = tStack[j]
       /\ ToSet(tStack') = ToSet(tStack) \cup {top} /\ tStack' # <<>>
  BY <1>1, <1>14, AppendedTask DEF TShape
<1>16. StackFollows'
  <2>1. ASSUME tFed.regular
        PROVE  /\ Len(tStack') = Len(tasks)
               /\ \A k \in DOMAIN tStack' : tStack'[k] = IF tasks[k] = Omitted THEN Marker(k) ELSE tasks[k]
    <3>1. Len(tStack) = Len(tFed.tasks)
          /\ \A k \in DOMAIN tStack : tStack[k] = IF tFed.tasks[k] = Omitted THEN Marker(k) ELSE tFed.tasks[k]
      BY <1>1, <2>1 DEF StackFollows
    <3>2. DOMAIN tStack' = 1..(Len(tStack) + 1)
      BY <1>15
    <3>3. ASSUME NEW k \in DOMAIN tStack' PROVE tStack'[k] = IF tasks[k] = Omitted THEN Marker(k) ELSE tasks[k]
      <4>1. CASE k \in 1..Len(tStack)
        BY <1>9, <1>11, <1>15, <3>1, <4>1
      <4>2. CASE k = Len(tStack) + 1
        BY <1>9, <1>13, <1>15, <3>1, <4>2
      <4> QED BY <1>11, <3>2, <4>1, <4>2
    <3> QED BY <1>9, <1>15, <3>1, <3>3
  <2>2. ASSUME ~tFed'.omitted
        PROVE  ToSet(tStack') \subseteq ToSet(tasks) /\ \A j, k \in DOMAIN tStack' : j # k => tStack'[j] # tStack'[k]
    <3>1. ~tFed.omitted /\ id # Omitted /\ top = id
      BY <1>7, <1>13, <2>2
    <3>2. ToSet(tStack) \subseteq ToSet(tFed.tasks) /\ \A j, k \in DOMAIN tStack : j # k => tStack[j] # tStack[k]
      BY <1>1, <3>1 DEF StackFollows
    <3>3. DOMAIN tStack' = 1..(Len(tStack) + 1)
      BY <1>15
    <3>4. \A j \in 1..Len(tStack) : tStack'[j] # id
      <4>1. \A j \in DOMAIN tStack : tStack[j] \in ToSet(tStack)
        BY DEF ToSet
      <4> QED BY <1>8, <1>11, <1>15, <3>1, <3>2, <4>1
    <3>5. ASSUME NEW j \in DOMAIN tStack', NEW k \in DOMAIN tStack', j # k PROVE tStack'[j] # tStack'[k]
      <4>1. CASE j \in 1..Len(tStack) /\ k \in 1..Len(tStack)
        BY <1>11, <1>15, <3>2, <3>5, <4>1
      <4>2. CASE j = Len(tStack) + 1
        <5>1. k \in 1..Len(tStack) /\ tStack'[j] = id
          BY <1>11, <1>15, <3>1, <3>3, <3>5, <4>2
        <5> QED BY <3>4, <5>1
      <4>3. CASE k = Len(tStack) + 1
        <5>1. j \in 1..Len(tStack) /\ tStack'[k] = id
          BY <1>11, <1>15, <3>1, <3>3, <3>5, <4>3
        <5> QED BY <3>4, <5>1
      <4> QED BY <1>11, <3>3, <4>1, <4>2, <4>3
    <3> QED BY <1>9, <1>15, <3>1, <3>2, <3>5
  <2> QED BY <1>7, <2>1, <2>2 DEF StackFollows
<1>17. PiecesKept
  BY <1>7, EmptyRow DEF TaskUse, SegmentKinds
<1>18. OpenTyped(tOpen') /\ \A kind \in Kinds : tOpen'[kind][0] = tOpen[kind][0]
  <2>1. PICK open : open = Stop(tOpen, i)
    OBVIOUS
  <2>2. /\ OpenTyped(open) /\ \A kind \in DOMAIN tOpen : \A j \in Indices : open[kind][j] \in {0, tOpen[kind][j]}
    BY <1>1, <2>1, StopKeeps
  <2>3. tOpen' = tOpen \/ tOpen' = open
    BY <2>1 DEF TaskUse
  <2>4. \A kind \in Kinds : kind \in DOMAIN tOpen /\ tOpen[kind][0] = 0 /\ 0 \in Indices
    BY <1>1, TranscriptAssumption DEF OpensFollow, OpenTyped, Kinds
  <2> QED BY <1>1, <2>2, <2>3, <2>4
<1> QED BY <1>2, <1>10, <1>12, <1>15, <1>16, <1>17, <1>18, QuietStep

-----------------------------------------------------------------------------
\* An answer.
LEMMA ResultQuiet ==
  ASSUME TranscriptInv, NEW id, NEW fed, ToolResult(id, fed), FedShape', IdsGiven', StackFollows', tStack' \in Seq(Ids),
         tFed'.pieces = tFed.pieces, tFed'.n # 0, \A i \in Indices : tFed'.live[i].kind = "none"
  PROVE  TranscriptInv'
<1>1. TShape /\ OpenTyped(tOpen)
  BY DEF TranscriptInv, TShape
<1>2. ScreenShape'
  BY <1>1, ScreenTurns DEF ToolResult
<1>3. tOpen' = tOpen
  BY DEF ToolResult
<1>4. PiecesKept
  BY EmptyRow DEF ToolResult, SegmentKinds
<1>5. \A i \in Indices \ {0} : tFed'.live[i].kind \notin Kinds
  BY DEF Kinds
<1> QED BY <1>1, <1>2, <1>3, <1>4, <1>5, QuietStep

LEMMA PopTyped == ASSUME tStack \in Seq(Ids), NEW id PROVE Pop(id) \in Seq(Ids)
<1>1. CASE \E j \in DOMAIN tStack : RoughlyMatch(tStack[j], id)
  <2>1. PICK m \in DOMAIN tStack : Pop(id) = SubSeq(tStack, 1, m - 1)
    BY <1>1, PopCuts
  <2>2. m - 1 <= Len(tStack) /\ \A j \in 1..(m - 1) : tStack[j] \in Ids
    OBVIOUS
  <2> QED BY <2>1, <2>2
<1>2. CASE \A j \in DOMAIN tStack : ~RoughlyMatch(tStack[j], id)
  <2>1. Pop(id) = SubSeq(tStack, 1, Len(tStack) - 1) \/ Pop(id) = tStack
    BY <1>2, PopCuts
  <2>2. \A j \in 1..Len(tStack) : tStack[j] \in Ids
    OBVIOUS
  <2> QED BY <2>1, <2>2
<1> QED BY <1>1, <1>2

\* The history after an answer.
AfterResult(fed) == [fed EXCEPT !.n = @ + 1, !.live = [i \in Indices |-> NoBlock]]

LEMMA ResultFed ==
  ASSUME TShape, NEW fed, DOMAIN fed = DOMAIN tFed, fed.n = tFed.n,
         NEW row, row = AfterResult(fed)
  PROVE  /\ DOMAIN row = DOMAIN tFed /\ row.n = tFed.n + 1 /\ row.calls = fed.calls /\ row.omitted = fed.omitted
         /\ row.regular = fed.regular /\ row.tools = fed.tools /\ row.tasks = fed.tasks /\ row.pieces = fed.pieces
         /\ row.blocks = fed.blocks
         /\ row.live \in [Indices -> [kind : Kinds \cup {"none", "tool"}, block : Nat]]
         /\ \A i \in Indices : row.live[i].kind = "none"
<1>1. PICK live : live = [i \in Indices |-> NoBlock]
  OBVIOUS
<1>2. live \in [Indices -> [kind : Kinds \cup {"none", "tool"}, block : Nat]] /\ \A i \in Indices : live[i].kind = "none"
  BY <1>1 DEF NoBlock
<1>3. row = [fed EXCEPT !.n = @ + 1, !.live = live]
  BY <1>1 DEF AfterResult
<1>4. /\ DOMAIN row = DOMAIN tFed /\ row.n = tFed.n + 1 /\ row.calls = fed.calls /\ row.omitted = fed.omitted
      /\ row.regular = fed.regular /\ row.tools = fed.tools /\ row.tasks = fed.tasks /\ row.pieces = fed.pieces
      /\ row.blocks = fed.blocks /\ row.live = live
  BY <1>3 DEF TShape, FedShape
<1> QED BY <1>2, <1>4

LEMMA TaskResultKeeps ==
  ASSUME TranscriptInv, NEW k \in DOMAIN tFed.tasks, TaskResult(k)
  PROVE  TranscriptInv'
<1>1. TShape /\ IdsGiven /\ StackFollows
  BY DEF TranscriptInv
<1>2. PICK tasks : tasks = RemoveAt(tFed.tasks, k)
  OBVIOUS
<1>3. PICK regular : regular = ((tFed.regular /\ k = Len(tFed.tasks)) \/ (Len(tFed.tasks) = 1 /\ ~tFed.omitted))
  OBVIOUS
<1>4. PICK fed : fed = [tFed EXCEPT !.tasks = tasks, !.regular = regular]
  OBVIOUS
<1>5. PICK id \in ResultIds(tFed.tasks[k]) : ToolResult(id, fed)
  BY <1>1, <1>2, <1>3, <1>4 DEF TaskResult, TShape, FedShape
<1>6. /\ DOMAIN fed = DOMAIN tFed /\ fed.n = tFed.n /\ fed.calls = tFed.calls /\ fed.omitted = tFed.omitted
      /\ fed.regular = regular /\ fed.tools = tFed.tools /\ fed.tasks = tasks /\ fed.pieces = tFed.pieces
      /\ fed.blocks = tFed.blocks
  BY <1>1, <1>4 DEF TShape, FedShape
<1>7. PICK row : row = tFed'
  OBVIOUS
<1>8. row = AfterResult(fed)
  BY <1>5, <1>7 DEF ToolResult, AfterResult
<1>9. /\ DOMAIN row = DOMAIN tFed /\ row.n = tFed.n + 1 /\ row.calls = fed.calls /\ row.omitted = fed.omitted
      /\ row.regular = fed.regular /\ row.tools = fed.tools /\ row.tasks = fed.tasks /\ row.pieces = fed.pieces
      /\ row.blocks = fed.blocks
      /\ row.live \in [Indices -> [kind : Kinds \cup {"none", "tool"}, block : Nat]]
      /\ \A i \in Indices : row.live[i].kind = "none"
  BY <1>1, <1>6, <1>8, ResultFed
<1>10. /\ DOMAIN tFed' = DOMAIN tFed /\ tFed'.n = tFed.n + 1 /\ tFed'.calls = tFed.calls /\ tFed'.omitted = tFed.omitted
       /\ tFed'.regular = regular /\ tFed'.tools = tFed.tools /\ tFed'.tasks = tasks /\ tFed'.pieces = tFed.pieces
       /\ tFed'.blocks = tFed.blocks
       /\ tFed'.live \in [Indices -> [kind : Kinds \cup {"none", "tool"}, block : Nat]]
       /\ \A i \in Indices : tFed'.live[i].kind = "none"
  BY <1>6, <1>7, <1>9
<1>11. /\ tasks \in Seq(Ids) /\ Len(tasks) = Len(tFed.tasks) - 1
       /\ \A j \in 1..(Len(tFed.tasks) - 1) : tasks[j] = IF j < k THEN tFed.tasks[j] ELSE tFed.tasks[j + 1]
       /\ \A x \in ToSet(tFed.tasks) : x # tFed.tasks[k] => x \in ToSet(tasks)
       /\ ToSet(tasks) \subseteq ToSet(tFed.tasks)
  BY <1>1, <1>2, RemovedTask DEF TShape, FedShape
<1>12. regular \in BOOLEAN
  BY <1>3
<1>13. FedShape' /\ tFed'.n # 0
  BY <1>1, <1>10, <1>11, <1>12 DEF TShape, FedShape
<1>14. DOMAIN tFed.tasks = 1..Len(tFed.tasks) /\ Len(tFed.tasks) \in Nat /\ DOMAIN tasks = 1..(Len(tFed.tasks) - 1)
       /\ k \in 1..Len(tFed.tasks) /\ DOMAIN tStack = 1..Len(tStack) /\ Len(tStack) \in Nat /\ tStack \in Seq(Ids)
  BY <1>1, <1>11 DEF TShape, FedShape
<1>15. IdsGiven'
  <2>1. ASSUME NEW i \in DOMAIN tasks, NEW j \in DOMAIN tasks, i # j, tasks[i] = tasks[j] PROVE tasks[i] = Omitted
    <3>1. PICK a \in DOMAIN tFed.tasks : tasks[i] = tFed.tasks[a] /\ a = IF i < k THEN i ELSE i + 1
      BY <1>11, <1>14
    <3>2. PICK b \in DOMAIN tFed.tasks : tasks[j] = tFed.tasks[b] /\ b = IF j < k THEN j ELSE j + 1
      BY <1>11, <1>14
    <3>3. a # b
      BY <1>14, <2>1, <3>1, <3>2
    <3> QED BY <1>1, <2>1, <3>1, <3>2, <3>3 DEF IdsGiven
  <2>2. \A x \in tFed.tools \cup ToSet(tasks) :
          IF x = Omitted THEN tFed.omitted ELSE \E n \in 1..tFed.calls : x = CallId(n)
    BY <1>1, <1>11 DEF IdsGiven
  <2>3. \A x \in tFed.tools \cap ToSet(tasks) : x = Omitted
    BY <1>1, <1>11 DEF IdsGiven
  <2> QED BY <1>10, <2>1, <2>2, <2>3 DEF IdsGiven
<1>16. tStack' = Pop(id)
  BY <1>5 DEF ToolResult
<1>17. /\ tFed.regular /\ k = Len(tFed.tasks) => Pop(id) = SubSeq(tStack, 1, k - 1)
       /\ ~tFed.omitted => \E m \in 0..Len(tStack) : /\ Pop(id) = SubSeq(tStack, 1, m)
                                                     /\ \A j \in 1..m : tStack[j] # tFed.tasks[k]
  BY <1>1, TaskPopped
<1>18. ASSUME tFed.regular, k = Len(tFed.tasks)
       PROVE  /\ tStack' \in Seq(Ids) /\ Len(tStack') = Len(tasks)
              /\ \A j \in DOMAIN tStack' : tStack'[j] = IF tasks[j] = Omitted THEN Marker(j) ELSE tasks[j]
  <2>1. Len(tStack) = k
        /\ \A j \in DOMAIN tStack : tStack[j] = IF tFed.tasks[j] = Omitted THEN Marker(j) ELSE tFed.tasks[j]
    BY <1>1, <1>18 DEF StackFollows
  <2>2. tStack' = SubSeq(tStack, 1, k - 1)
    BY <1>16, <1>17, <1>18
  <2>3. tStack' \in Seq(Ids) /\ Len(tStack') = k - 1 /\ \A j \in 1..(k - 1) : tStack'[j] = tStack[j]
    BY <1>14, <2>1, <2>2
  <2>4. DOMAIN tStack' = 1..(k - 1)
    BY <2>3
  <2> QED BY <1>11, <1>14, <1>18, <2>1, <2>3, <2>4
<1>19. ASSUME ~tFed.omitted
       PROVE  /\ tStack' \in Seq(Ids) /\ ToSet(tStack') \subseteq ToSet(tasks)
              /\ \A i, j \in DOMAIN tStack' : i # j => tStack'[i] # tStack'[j]
  <2>1. PICK m \in 0..Len(tStack) : /\ tStack' = SubSeq(tStack, 1, m)
                                    /\ \A j \in 1..m : tStack[j] # tFed.tasks[k]
    BY <1>16, <1>17, <1>19
  <2>2. tStack' \in Seq(Ids) /\ Len(tStack') = m /\ \A j \in 1..m : tStack'[j] = tStack[j] /\ j \in DOMAIN tStack
    BY <1>14, <2>1
  <2>3. DOMAIN tStack' = 1..m
    BY <2>2
  <2>4. ToSet(tStack) \subseteq ToSet(tFed.tasks) /\ \A i, j \in DOMAIN tStack : i # j => tStack[i] # tStack[j]
    BY <1>1, <1>19 DEF StackFollows
  <2>5. \A j \in DOMAIN tStack : tStack[j] \in ToSet(tStack)
    BY DEF ToSet
  <2>6. \A j \in DOMAIN tStack' : tStack'[j] \in ToSet(tasks)
    BY <1>11, <2>1, <2>2, <2>3, <2>4, <2>5
  <2>7. ToSet(tStack') \subseteq ToSet(tasks)
    BY <2>6 DEF ToSet
  <2> QED BY <2>2, <2>3, <2>4, <2>7
<1>20. ASSUME regular
       PROVE  /\ tStack' \in Seq(Ids) /\ Len(tStack') = Len(tasks)
              /\ \A j \in DOMAIN tStack' : tStack'[j] = IF tasks[j] = Omitted THEN Marker(j) ELSE tasks[j]
  <2>1. CASE tFed.regular /\ k = Len(tFed.tasks)
    BY <1>18, <2>1
  <2>2. CASE Len(tFed.tasks) = 1 /\ ~tFed.omitted
    <3>1. ToSet(tasks) = {}
      BY <1>14, <2>2 DEF ToSet
    <3>2. tStack' \in Seq(Ids) /\ ToSet(tStack') = {}
      BY <1>19, <2>2, <3>1
    <3>3. \A j \in DOMAIN tStack' : FALSE
      BY <3>2 DEF ToSet
    <3>4. Len(tStack') = 0
      <4>1. 1 \notin DOMAIN tStack' /\ DOMAIN tStack' = 1..Len(tStack') /\ Len(tStack') \in Nat
        BY <3>2, <3>3
      <4> QED BY <4>1
    <3> QED BY <1>11, <2>2, <3>2, <3>3, <3>4
  <2> QED BY <1>3, <1>20, <2>1, <2>2
<1>21. StackFollows'
  BY <1>10, <1>19, <1>20 DEF StackFollows
<1>22. tStack' \in Seq(Ids)
  BY <1>14, <1>16, PopTyped
<1> QED BY <1>5, <1>10, <1>13, <1>15, <1>21, <1>22, ResultQuiet

LEMMA PlainResultKeeps ==
  ASSUME TranscriptInv, NEW id \in tFed.tools, PlainResult(id)
  PROVE  TranscriptInv'
<1>1. TShape /\ IdsGiven /\ StackFollows /\ tStack \in Seq(Ids)
  BY DEF TranscriptInv, TShape
<1>2. PICK tools : tools = tFed.tools \ {id}
  OBVIOUS
<1>3. PICK regular : regular = (tFed.regular /\ (id = Omitted /\ InSubagent => Last(tStack)[1] # "marker"))
  OBVIOUS
<1>4. PICK fed : fed = [tFed EXCEPT !.tools = tools, !.regular = regular]
  OBVIOUS
<1>5. ToolResult(id, fed)
  BY <1>1, <1>2, <1>3, <1>4 DEF PlainResult, TShape, FedShape
<1>6. /\ DOMAIN fed = DOMAIN tFed /\ fed.n = tFed.n /\ fed.calls = tFed.calls /\ fed.omitted = tFed.omitted
      /\ fed.regular = regular /\ fed.tools = tools /\ fed.tasks = tFed.tasks /\ fed.pieces = tFed.pieces
      /\ fed.blocks = tFed.blocks
  BY <1>1, <1>4 DEF TShape, FedShape
<1>7. PICK row : row = tFed'
  OBVIOUS
<1>8. row = AfterResult(fed)
  BY <1>5, <1>7 DEF ToolResult, AfterResult
<1>9. /\ DOMAIN row = DOMAIN tFed /\ row.n = tFed.n + 1 /\ row.calls = fed.calls /\ row.omitted = fed.omitted
      /\ row.regular = fed.regular /\ row.tools = fed.tools /\ row.tasks = fed.tasks /\ row.pieces = fed.pieces
      /\ row.blocks = fed.blocks
      /\ row.live \in [Indices -> [kind : Kinds \cup {"none", "tool"}, block : Nat]]
      /\ \A i \in Indices : row.live[i].kind = "none"
  BY <1>1, <1>6, <1>8, ResultFed
<1>10. /\ DOMAIN tFed' = DOMAIN tFed /\ tFed'.n = tFed.n + 1 /\ tFed'.calls = tFed.calls /\ tFed'.omitted = tFed.omitted
       /\ tFed'.regular = regular /\ tFed'.tools = tools /\ tFed'.tasks = tFed.tasks /\ tFed'.pieces = tFed.pieces
       /\ tFed'.blocks = tFed.blocks
       /\ tFed'.live \in [Indices -> [kind : Kinds \cup {"none", "tool"}, block : Nat]]
       /\ \A i \in Indices : tFed'.live[i].kind = "none"
  BY <1>6, <1>7, <1>9
<1>11. FedShape' /\ tFed'.n # 0
  BY <1>1, <1>2, <1>3, <1>10 DEF TShape, FedShape
<1>12. IdsGiven'
  <2>1. tools \subseteq tFed.tools
    BY <1>2
  <2> QED BY <1>1, <1>10, <2>1 DEF IdsGiven
<1>13. tStack' = Pop(id)
  BY <1>5 DEF ToolResult
<1>14. (regular => tFed.regular /\ tStack' = tStack) /\ (~tFed.omitted => tStack' = tStack)
  BY <1>1, <1>3, <1>13, PlainLeaves
<1>15. StackFollows'
  BY <1>1, <1>10, <1>14 DEF StackFollows
<1>16. tStack' \in Seq(Ids)
  BY <1>1, <1>13, PopTyped
<1> QED BY <1>5, <1>10, <1>11, <1>12, <1>15, <1>16, ResultQuiet

-----------------------------------------------------------------------------
\* A block begins, outside the Tasks or inside one.
LEMMA SegmentStartKeeps ==
  ASSUME TranscriptInv, NEW kind \in Kinds, NEW i \in Indices, SegmentStart(kind, i)
  PROVE  TranscriptInv'
<1>1. TShape /\ IdsGiven /\ StackFollows /\ OpensFollow /\ OpenTyped(tOpen) /\ TranscriptFaithful
      /\ \A k \in DOMAIN tSegs : ToSet(tSegs[k].parts) \subseteq DOMAIN tFed.pieces
  BY DEF TranscriptInv, TShape, PartsSaid
<1>2. ScreenShape'
  BY <1>1, ScreenTurns DEF SegmentStart
<1>3. PICK row : row = [kind |-> kind, block |-> tFed.blocks + 1]
  OBVIOUS
<1>4. PICK live : live = [tFed.live EXCEPT ![i] = row]
  OBVIOUS
<1>5. /\ DOMAIN tFed' = DOMAIN tFed /\ tFed'.n = tFed.n + 1 /\ tFed'.live = live /\ tFed'.blocks = tFed.blocks + 1
      /\ tFed'.tasks = tFed.tasks /\ tFed'.tools = tFed.tools /\ tFed'.calls = tFed.calls /\ tFed'.regular = tFed.regular
      /\ tFed'.omitted = tFed.omitted /\ tFed'.pieces = tFed.pieces
  BY <1>1, <1>3, <1>4 DEF SegmentStart, TShape, FedShape
<1>6. row \in [kind : Kinds \cup {"none", "tool"}, block : Nat] /\ row.kind = kind
  BY <1>1, <1>3 DEF TShape, FedShape
<1>7. /\ live \in [Indices -> [kind : Kinds \cup {"none", "tool"}, block : Nat]]
      /\ live[i] = row /\ \A j \in Indices : j # i => live[j] = tFed.live[j]
  BY <1>1, <1>4, <1>6 DEF TShape, FedShape
<1>8. FedShape' /\ tFed'.n # 0
  BY <1>1, <1>5, <1>7 DEF TShape, FedShape
<1>9. UNCHANGED tStack /\ i # 0
  BY DEF SegmentStart
<1>10. CallsKept /\ tStack' \in Seq(Ids)
  BY <1>1, <1>5, <1>9 DEF CallsKept, TShape
<1>11. IdsGiven' /\ StackFollows'
  BY <1>1, <1>10, CallsKeep
<1>12. CASE InSubagent
  <2>1. UNCHANGED <<tSegs, tOpen>> /\ tStack' # <<>>
    BY <1>9, <1>12 DEF SegmentStart, InSubagent
  <2>2. PiecesKept
    BY <1>5, <2>1, EmptyRow
  <2>3. OpenTyped(tOpen') /\ \A other \in Kinds : tOpen'[other][0] = tOpen[other][0]
    BY <1>1, <2>1
  <2> QED BY <1>2, <1>8, <1>10, <1>11, <2>1, <2>2, <2>3, QuietStep
<1>13. CASE ~InSubagent
  <2>1. tStack = <<>>
    BY <1>13 DEF InSubagent
  <2>2. tSegs' = Append(tSegs, Segment(kind, <<>>))
    BY <1>13 DEF SegmentStart
  <2>3. PICK open : open = Stop(tOpen, i)
    OBVIOUS
  <2>4. tOpen' = [open EXCEPT ![kind][i] = Len(tSegs) + 1]
    BY <1>9, <1>13, <2>3 DEF SegmentStart, OpenAt
  <2>5. /\ OpenTyped(open)
        /\ \A other \in DOMAIN tOpen : \A j \in Indices : j # i => open[other][j] = tOpen[other][j]
    BY <1>1, <2>3, StopKeeps
  <2>6. PICK at : at = [open[kind] EXCEPT ![i] = Len(tSegs) + 1]
    OBVIOUS
  <2>7. tOpen' = [open EXCEPT ![kind] = at]
    BY <2>4, <2>6
  <2>8. Len(tSegs) \in Nat /\ DOMAIN tSegs = 1..Len(tSegs) /\ kind \in DOMAIN open /\ Kinds \subseteq DOMAIN tOpen
    BY <1>1, <2>5 DEF TShape, OpenTyped, Kinds
  <2>9. at \in [Indices -> Nat] /\ at[i] = Len(tSegs) + 1 /\ \A j \in Indices : j # i => at[j] = open[kind][j]
    BY <2>5, <2>6, <2>8 DEF OpenTyped
  <2>10. OpenTyped(tOpen') /\ tOpen'[kind] = at /\ \A other \in DOMAIN open : other # kind => tOpen'[other] = open[other]
    BY <2>5, <2>7, <2>8, <2>9 DEF OpenTyped
  <2>11. DOMAIN open = DOMAIN tOpen
    BY <1>1, <2>5 DEF OpenTyped
  <2>12. \A other \in Kinds : \A j \in Indices : j # i => tOpen'[other][j] = tOpen[other][j]
    BY <2>5, <2>8, <2>9, <2>10, <2>11
  <2>13. PiecesKept
    BY <1>5, <2>2, EmptyRow DEF SegmentKinds
  <2>14. TranscriptFaithful' /\ tSegs' \in Seq(SegmentRow)
         /\ (\A k \in DOMAIN tSegs' : ToSet(tSegs'[k].parts) \subseteq DOMAIN tFed'.pieces)
         /\ \A k \in DOMAIN tSegs : k \in DOMAIN tSegs' /\ tSegs'[k].parts = tSegs[k].parts
    BY <1>1, <2>13, PiecesKeep
  <2>15. Len(tSegs) + 1 \in DOMAIN tSegs' /\ tSegs'[Len(tSegs) + 1].parts = <<>>
    <3>1. Segment(kind, <<>>) \in SegmentRow /\ Segment(kind, <<>>).parts = <<>>
      BY DEF Segment, SegmentRow
    <3> QED BY <1>1, <2>2, <3>1 DEF TShape
  <2>16. 0 \in Indices
    BY TranscriptAssumption
  <2>17. \A j \in Indices \ {0} : j # i /\ tFed'.live[j].kind \in Kinds =>
           /\ tFed'.live[j] = tFed.live[j] /\ tOpen'[tFed.live[j].kind][j] = tOpen[tFed.live[j].kind][j]
           /\ tFed.live[j].kind \in Kinds
    BY <1>5, <1>7, <2>12
  <2>18. tFed'.live[i].kind = kind /\ tOpen'[kind][i] = Len(tSegs) + 1
    BY <1>5, <1>6, <1>7, <2>9, <2>10
  <2>19. \A other \in Kinds : tOpen'[other][0] = 0
    BY <1>1, <1>9, <2>12, <2>16 DEF OpensFollow
  <2>20. ASSUME NEW j \in Indices \ {0}, tFed'.live[j].kind \in Kinds
         PROVE  LET k == tOpen'[tFed'.live[j].kind][j]
                IN  /\ k \in DOMAIN tSegs' /\ (j # i => k \in DOMAIN tSegs)
                    /\ \A m \in DOMAIN tSegs'[k].parts : tFed'.pieces[tSegs'[k].parts[m]].block = tFed'.live[j].block
    <3>1. CASE j = i
      <4>1. tOpen'[tFed'.live[j].kind][j] = Len(tSegs) + 1
        BY <2>18, <3>1
      <4>2. \A m \in DOMAIN tSegs'[Len(tSegs) + 1].parts : FALSE
        BY <2>15
      <4> QED BY <2>15, <3>1, <4>1, <4>2
    <3>2. CASE j # i
      <4>1. PICK k : k = tOpen[tFed.live[j].kind][j]
        OBVIOUS
      <4>2. tFed'.live[j] = tFed.live[j] /\ tOpen'[tFed'.live[j].kind][j] = k
        BY <2>17, <2>20, <3>2, <4>1
      <4>3. /\ k \in DOMAIN tSegs
            /\ \A m \in DOMAIN tSegs[k].parts : tFed.pieces[tSegs[k].parts[m]].block = tFed.live[j].block
        BY <1>1, <2>1, <2>17, <2>20, <3>2, <4>1 DEF OpensFollow
      <4>4. /\ k \in DOMAIN tSegs'
            /\ \A m \in DOMAIN tSegs'[k].parts : tFed'.pieces[tSegs'[k].parts[m]].block = tFed'.live[j].block
        BY <1>5, <2>14, <4>2, <4>3
      <4> QED BY <4>2, <4>3, <4>4
    <3> QED BY <3>1, <3>2
  <2> DEFINE opened(j) == tOpen'[tFed'.live[j].kind][j]
  <2>25. \A j \in Indices \ {0} : j # i /\ tFed'.live[j].kind \in Kinds => opened(j) \in DOMAIN tSegs
    BY <2>20
  <2>26. opened(i) \notin DOMAIN tSegs
    <3>1. opened(i) = Len(tSegs) + 1
      BY <2>18
    <3> QED BY <2>8, <3>1
  <2>21. ASSUME NEW j \in Indices \ {0}, NEW m \in Indices \ {0}, tFed'.live[j].kind \in Kinds, tFed'.live[m].kind \in Kinds,
                tOpen'[tFed'.live[j].kind][j] = tOpen'[tFed'.live[m].kind][m]
         PROVE  j = m
    <3>1. CASE j # i /\ m # i
      <4>1. tOpen[tFed.live[j].kind][j] = tOpen[tFed.live[m].kind][m]
        BY <2>17, <2>21, <3>1
      <4> QED BY <1>1, <2>1, <2>17, <2>21, <3>1, <4>1 DEF OpensFollow
    <3>2. CASE j = i /\ m # i
      BY <2>21, <2>25, <2>26, <3>2
    <3>3. CASE j # i /\ m = i
      BY <2>21, <2>25, <2>26, <3>3
    <3> QED BY <3>1, <3>2, <3>3
  <2>22. OpensFollow'
    BY <2>19, <2>20, <2>21 DEF OpensFollow
  <2>23. TShape'
    BY <1>2, <1>8, <1>10, <2>10, <2>14 DEF TShape
  <2>24. PartsSaid'
    BY <1>8, <2>14 DEF PartsSaid
  <2> QED BY <1>11, <2>14, <2>22, <2>23, <2>24 DEF TranscriptInv
<1> QED BY <1>12, <1>13

-----------------------------------------------------------------------------
LEMMA AppendedPiece ==
  ASSUME TShape, NEW piece \in [block : Nat, expected : {"shown", "hidden", "either"}],
         tFed'.pieces = Append(tFed.pieces, piece), NEW n, n = Len(tFed.pieces) + 1
  PROVE  /\ n \in Nat /\ DOMAIN tFed.pieces = 1..(n - 1) /\ DOMAIN tFed'.pieces = 1..n
         /\ tFed'.pieces[n] = piece /\ \A m \in 1..(n - 1) : tFed'.pieces[m] = tFed.pieces[m]
<1>1. PICK s : s = tFed.pieces
  OBVIOUS
<1>2. PICK r : r = tFed'.pieces
  OBVIOUS
<1>3. s \in Seq([block : Nat, expected : {"shown", "hidden", "either"}]) /\ r = Append(s, piece)
  BY <1>1, <1>2 DEF TShape, FedShape
<1>4. Len(s) \in Nat /\ DOMAIN s = 1..Len(s) /\ Len(r) = Len(s) + 1 /\ DOMAIN r = 1..(Len(s) + 1)
  BY <1>3
<1>5. r[Len(s) + 1] = piece /\ \A m \in 1..Len(s) : r[m] = s[m]
  BY <1>3, <1>4
<1>6. n = Len(s) + 1 /\ n - 1 = Len(s)
  BY <1>1, <1>4
<1> QED BY <1>1, <1>2, <1>4, <1>5, <1>6

\* A new piece in the segment k, after those it holds.
PieceGoes(k, old, piece) ==
  /\ tFed'.pieces = Append(tFed.pieces, piece) /\ tSegs' \in Seq(SegmentRow)
  /\ k \in DOMAIN tSegs' /\ old \in Seq(Nat)
  /\ (k \in DOMAIN tSegs /\ old = tSegs[k].parts) \/ (k \notin DOMAIN tSegs /\ old = <<>>)
  /\ tSegs'[k].parts = Append(old, Len(tFed.pieces) + 1)
  /\ \A m \in DOMAIN old : tFed.pieces[old[m]].block = piece.block
  /\ \A j \in DOMAIN tSegs : j \in DOMAIN tSegs'
  /\ \A j \in DOMAIN tSegs' : j # k => j \in DOMAIN tSegs /\ tSegs'[j].parts = tSegs[j].parts

LEMMA PieceAdded ==
  ASSUME TShape, TranscriptFaithful, \A j \in DOMAIN tSegs : ToSet(tSegs[j].parts) \subseteq DOMAIN tFed.pieces,
         NEW piece \in [block : Nat, expected : {"shown", "hidden", "either"}], piece.expected # "hidden",
         NEW k, NEW old, PieceGoes(k, old, piece)
  PROVE  TranscriptFaithful' /\ \A j \in DOMAIN tSegs' : ToSet(tSegs'[j].parts) \subseteq DOMAIN tFed'.pieces
<1> /\ tFed'.pieces = Append(tFed.pieces, piece) /\ tSegs' \in Seq(SegmentRow)
    /\ k \in DOMAIN tSegs' /\ old \in Seq(Nat)
    /\ (k \in DOMAIN tSegs /\ old = tSegs[k].parts) \/ (k \notin DOMAIN tSegs /\ old = <<>>)
    /\ tSegs'[k].parts = Append(old, Len(tFed.pieces) + 1)
    /\ \A m \in DOMAIN old : tFed.pieces[old[m]].block = piece.block
    /\ \A j \in DOMAIN tSegs : j \in DOMAIN tSegs'
    /\ \A j \in DOMAIN tSegs' : j # k => j \in DOMAIN tSegs /\ tSegs'[j].parts = tSegs[j].parts
  BY DEF PieceGoes
<1>1. PICK n : n = Len(tFed.pieces) + 1
  OBVIOUS
<1>2. /\ n \in Nat /\ DOMAIN tFed.pieces = 1..(n - 1) /\ DOMAIN tFed'.pieces = 1..n
      /\ tFed'.pieces[n] = piece /\ \A m \in 1..(n - 1) : tFed'.pieces[m] = tFed.pieces[m]
  BY <1>1, AppendedPiece
<1>3. PICK parts : parts = tSegs'[k].parts
  OBVIOUS
<1>4. /\ parts \in Seq(Nat) /\ DOMAIN parts = 1..(Len(old) + 1) /\ Len(old) \in Nat /\ DOMAIN old = 1..Len(old)
      /\ parts[Len(old) + 1] = n /\ \A m \in 1..Len(old) : parts[m] = old[m]
  BY <1>1, <1>2, <1>3
<1>5. \A m \in DOMAIN old : old[m] \in 1..(n - 1)
  <2>1. CASE k \in DOMAIN tSegs /\ old = tSegs[k].parts
    BY <1>2, <2>1 DEF ToSet
  <2>2. CASE old = <<>>
    BY <2>2
  <2> QED BY <2>1, <2>2
<1>6. ToSet(parts) = ToSet(old) \cup {n} /\ ToSet(old) \subseteq 1..(n - 1)
  <2>1. \A m \in DOMAIN parts : parts[m] \in ToSet(old) \cup {n}
    <3>1. \A m \in 1..Len(old) : old[m] \in ToSet(old)
      BY <1>4 DEF ToSet
    <3>2. \A m \in DOMAIN parts : m \in 1..Len(old) \/ m = Len(old) + 1
      BY <1>4
    <3> QED BY <1>4, <3>1, <3>2
  <2>2. \A m \in DOMAIN old : old[m] \in ToSet(parts)
    BY <1>4 DEF ToSet
  <2>3. n \in ToSet(parts)
    BY <1>4 DEF ToSet
  <2>4. ToSet(parts) \subseteq ToSet(old) \cup {n}
    BY <2>1 DEF ToSet
  <2>5. ToSet(old) \subseteq ToSet(parts)
    BY <2>2 DEF ToSet
  <2>6. ToSet(old) \subseteq 1..(n - 1)
    BY <1>5 DEF ToSet
  <2> QED BY <2>3, <2>4, <2>5, <2>6
<1>7. \A j \in DOMAIN tSegs' : ToSet(tSegs'[j].parts) \subseteq 1..n
  <2> SUFFICES ASSUME NEW j \in DOMAIN tSegs' PROVE ToSet(tSegs'[j].parts) \subseteq 1..n
    OBVIOUS
  <2>1. 1..(n - 1) \subseteq 1..n /\ n \in 1..n
    BY <1>1, <1>2
  <2>2. CASE j = k
    BY <1>3, <1>6, <2>1, <2>2
  <2>3. CASE j # k
    BY <1>2, <2>1, <2>3
  <2> QED BY <2>2, <2>3
<1>8. \A j \in DOMAIN tSegs' \ {k} : j \in DOMAIN tSegs /\ tSegs'[j].parts = tSegs[j].parts
  OBVIOUS
<1>9. ASSUME NEW m \in 1..(n - 1) PROVE Holding(m)' = Holding(m)
  <2>1. n \notin 1..(n - 1)
    BY <1>2
  <2>2. ASSUME NEW j PROVE j \in Holding(m)' <=> j \in Holding(m)
    <3>1. CASE j = k
      <4>1. j \in Holding(m)' <=> m \in ToSet(old)
        BY <1>3, <1>6, <1>9, <2>1, <3>1 DEF Holding
      <4>2. CASE k \in DOMAIN tSegs /\ old = tSegs[k].parts
        BY <3>1, <4>1, <4>2 DEF Holding
      <4>3. CASE k \notin DOMAIN tSegs /\ old = <<>>
        <5>1. m \notin ToSet(old)
          BY <4>3 DEF ToSet
        <5> QED BY <3>1, <4>1, <4>3, <5>1 DEF Holding
      <4> QED BY <4>2, <4>3
    <3>2. CASE j # k
      BY <1>8, <3>2 DEF Holding
    <3> QED BY <3>1, <3>2
  <2> QED BY <2>2
<1>10. Holding(n)' = {k}
  <2>1. k \in Holding(n)'
    BY <1>3, <1>6 DEF Holding
  <2>2. ASSUME NEW j \in Holding(n)', j # k PROVE FALSE
    <3>1. j \in DOMAIN tSegs /\ n \in ToSet(tSegs[j].parts)
      BY <2>2 DEF Holding
    <3>2. n \in 1..(n - 1)
      BY <1>2, <3>1
    <3> QED BY <1>2, <3>2
  <2> QED BY <2>1, <2>2
<1>11. ASSUME NEW m \in DOMAIN tFed'.pieces
       PROVE  /\ tFed'.pieces[m].expected = "shown" => \E j \in DOMAIN tSegs' : Holding(m)' = {j}
              /\ tFed'.pieces[m].expected = "hidden" => Holding(m)' = {}
  <2>1. CASE m = n
    BY <1>2, <1>10, <2>1
  <2>2. CASE m \in 1..(n - 1)
    <3>1. tFed'.pieces[m] = tFed.pieces[m] /\ m \in DOMAIN tFed.pieces /\ Holding(m)' = Holding(m)
      BY <1>2, <1>9, <2>2
    <3>2. /\ tFed.pieces[m].expected = "shown" => \E j \in DOMAIN tSegs : Holding(m) = {j}
          /\ tFed.pieces[m].expected = "hidden" => Holding(m) = {}
      BY <3>1 DEF TranscriptFaithful
    <3> QED BY <3>1, <3>2
  <2> QED BY <1>2, <1>11, <2>1, <2>2
<1>12. ASSUME NEW a \in DOMAIN parts, NEW b \in DOMAIN parts, a < b
       PROVE  parts[a] < parts[b] /\ tFed'.pieces[parts[a]].block = tFed'.pieces[parts[b]].block
  <2>6. a \in DOMAIN old /\ a \in 1..Len(old)
    BY <1>4, <1>12
  <2>1. a \in 1..Len(old) /\ parts[a] = old[a] /\ old[a] \in 1..(n - 1) /\ tFed.pieces[old[a]].block = piece.block
    BY <1>4, <1>5, <2>6
  <2>2. tFed'.pieces[parts[a]].block = piece.block
    BY <1>2, <2>1
  <2>3. CASE b = Len(old) + 1
    <3>1. parts[b] = n /\ tFed'.pieces[n] = piece /\ parts[a] < n
      BY <1>2, <1>4, <2>1, <2>3
    <3> QED BY <2>2, <3>1
  <2>4. CASE b \in 1..Len(old)
    <3>1. parts[b] = old[b] /\ old[b] \in 1..(n - 1) /\ tFed.pieces[old[b]].block = piece.block
      BY <1>4, <1>5, <2>4
    <3>2. tFed'.pieces[parts[b]].block = piece.block
      BY <1>2, <3>1
    <3>3. k \in DOMAIN tSegs /\ old = tSegs[k].parts
      BY <2>1
    <3>4. old[a] < old[b]
      BY <1>12, <2>1, <2>4, <3>3, <1>4 DEF TranscriptFaithful
    <3> QED BY <2>1, <2>2, <3>1, <3>2, <3>4
  <2>5. b \in 1..Len(old) \/ b = Len(old) + 1
    BY <1>4, <1>12
  <2> QED BY <2>3, <2>4, <2>5
<1>13. ASSUME NEW j \in DOMAIN tSegs', NEW a \in DOMAIN tSegs'[j].parts, NEW b \in DOMAIN tSegs'[j].parts, a < b
       PROVE  /\ tSegs'[j].parts[a] < tSegs'[j].parts[b]
              /\ tFed'.pieces[tSegs'[j].parts[a]].block = tFed'.pieces[tSegs'[j].parts[b]].block
  <2>1. CASE j = k
    BY <1>3, <1>12, <1>13, <2>1
  <2>2. CASE j # k
    <3>1. j \in DOMAIN tSegs /\ tSegs'[j].parts = tSegs[j].parts
      BY <2>2
    <3>2. tSegs[j].parts[a] \in 1..(n - 1) /\ tSegs[j].parts[b] \in 1..(n - 1)
      BY <1>2, <1>13, <3>1 DEF ToSet
    <3>3. /\ tSegs[j].parts[a] < tSegs[j].parts[b]
          /\ tFed.pieces[tSegs[j].parts[a]].block = tFed.pieces[tSegs[j].parts[b]].block
      BY <1>13, <3>1 DEF TranscriptFaithful
    <3> QED BY <1>2, <3>1, <3>2, <3>3
  <2> QED BY <2>1, <2>2
<1>14. TranscriptFaithful'
  BY <1>11, <1>13 DEF TranscriptFaithful
<1> QED BY <1>2, <1>7, <1>14

\* A new piece that is not shown.
LEMMA PieceUnseen ==
  ASSUME TShape, TranscriptFaithful, \A j \in DOMAIN tSegs : ToSet(tSegs[j].parts) \subseteq DOMAIN tFed.pieces,
         NEW piece, piece.expected # "shown", tFed'.pieces = Append(tFed.pieces, piece), tSegs' = tSegs,
         piece \in [block : Nat, expected : {"shown", "hidden", "either"}]
  PROVE  TranscriptFaithful' /\ \A j \in DOMAIN tSegs' : ToSet(tSegs'[j].parts) \subseteq DOMAIN tFed'.pieces
<1>1. PICK n : n = Len(tFed.pieces) + 1
  OBVIOUS
<1>2. /\ n \in Nat /\ DOMAIN tFed.pieces = 1..(n - 1) /\ DOMAIN tFed'.pieces = 1..n
      /\ tFed'.pieces[n] = piece /\ \A m \in 1..(n - 1) : tFed'.pieces[m] = tFed.pieces[m]
  BY <1>1, AppendedPiece
<1>3. \A m : Holding(m)' = Holding(m)
  BY DEF Holding
<1>4. Holding(n) = {}
  <2> SUFFICES ASSUME NEW j \in DOMAIN tSegs, n \in ToSet(tSegs[j].parts) PROVE FALSE
    BY DEF Holding
  <2>1. n \in 1..(n - 1)
    BY <1>2
  <2> QED BY <1>2, <2>1
<1>5. \A j \in DOMAIN tSegs : ToSet(tSegs[j].parts) \subseteq 1..(n - 1) /\ 1..(n - 1) \subseteq 1..n
  BY <1>2
<1>6. ASSUME NEW m \in DOMAIN tFed'.pieces
      PROVE  /\ tFed'.pieces[m].expected = "shown" => \E j \in DOMAIN tSegs' : Holding(m)' = {j}
             /\ tFed'.pieces[m].expected = "hidden" => Holding(m)' = {}
  <2>1. CASE m = n
    BY <1>2, <1>3, <1>4, <2>1
  <2>2. CASE m \in 1..(n - 1)
    BY <1>2, <1>3, <2>2 DEF TranscriptFaithful
  <2>3. m = n \/ m \in 1..(n - 1)
    BY <1>2, <1>6
  <2> QED BY <2>1, <2>2, <2>3
<1>7. ASSUME NEW j \in DOMAIN tSegs', NEW a \in DOMAIN tSegs'[j].parts, NEW b \in DOMAIN tSegs'[j].parts, a < b
      PROVE  /\ tSegs'[j].parts[a] < tSegs'[j].parts[b]
             /\ tFed'.pieces[tSegs'[j].parts[a]].block = tFed'.pieces[tSegs'[j].parts[b]].block
  <2>1. tSegs[j].parts[a] \in 1..(n - 1) /\ tSegs[j].parts[b] \in 1..(n - 1)
    BY <1>5, <1>7 DEF ToSet
  <2>2. /\ tSegs[j].parts[a] < tSegs[j].parts[b]
        /\ tFed.pieces[tSegs[j].parts[a]].block = tFed.pieces[tSegs[j].parts[b]].block
    BY <1>7 DEF TranscriptFaithful
  <2> QED BY <1>2, <2>1, <2>2
<1>8. TranscriptFaithful'
  BY <1>6, <1>7 DEF TranscriptFaithful
<1> QED BY <1>2, <1>5, <1>8

\* A delta, in an open segment, in one of its own, or inside a Task.
LEMMA SegmentDeltaKeeps ==
  ASSUME TranscriptInv, NEW kind \in Kinds, NEW i \in Indices, SegmentDelta(kind, i)
  PROVE  TranscriptInv'
<1>1. TShape /\ IdsGiven /\ StackFollows /\ OpensFollow /\ OpenTyped(tOpen) /\ TranscriptFaithful
      /\ \A k \in DOMAIN tSegs : ToSet(tSegs[k].parts) \subseteq DOMAIN tFed.pieces
  BY DEF TranscriptInv, TShape, PartsSaid
<1>2. ScreenShape'
  BY <1>1, ScreenTurns DEF SegmentDelta
<1>3. PICK n : n = Len(tFed.pieces) + 1
  OBVIOUS
<1>4. PICK at : at = tOpen[kind][i]
  OBVIOUS
<1>5. PICK block : block = IF i = 0 THEN tFed.blocks + 1 ELSE tFed.live[i].block
  OBVIOUS
<1>6. PICK expected : expected = IF tFed.tasks = <<>> THEN (IF tFed.omitted /\ ~tFed.regular THEN "either" ELSE "shown")
                                 ELSE IF tFed.regular THEN "hidden" ELSE "either"
  OBVIOUS
<1>7. PICK piece : piece = [block |-> block, expected |-> expected]
  OBVIOUS
<1>8. PICK pieces : pieces = Append(tFed.pieces, piece)
  OBVIOUS
<1>9. /\ i # 0 => tFed.live[i].kind = kind
      /\ IF InSubagent THEN UNCHANGED <<tSegs, tOpen>>
         ELSE IF at # 0 THEN tSegs' = [tSegs EXCEPT ![at].parts = Append(@, n)] /\ UNCHANGED tOpen
         ELSE tSegs' = Append(tSegs, Segment(kind, <<n>>)) /\ tOpen' = OpenAt(tOpen, kind, i, Len(tSegs) + 1)
      /\ tFed' = [tFed EXCEPT !.n = @ + 1, !.blocks = IF i = 0 THEN @ + 1 ELSE @, !.pieces = pieces]
      /\ UNCHANGED tStack
  BY <1>3, <1>4, <1>5, <1>6, <1>7, <1>8 DEF SegmentDelta
<1>10. /\ DOMAIN tFed' = DOMAIN tFed /\ tFed'.n = tFed.n + 1 /\ tFed'.live = tFed.live
       /\ tFed'.blocks = IF i = 0 THEN tFed.blocks + 1 ELSE tFed.blocks
       /\ tFed'.tasks = tFed.tasks /\ tFed'.tools = tFed.tools /\ tFed'.calls = tFed.calls /\ tFed'.regular = tFed.regular
       /\ tFed'.omitted = tFed.omitted /\ tFed'.pieces = pieces
  BY <1>1, <1>9 DEF TShape, FedShape
<1>11. block \in Nat /\ expected \in {"shown", "hidden", "either"}
  BY <1>1, <1>5, <1>6 DEF TShape, FedShape
<1>12. piece \in [block : Nat, expected : {"shown", "hidden", "either"}] /\ piece.block = block /\ piece.expected = expected
  BY <1>7, <1>11
<1>13. /\ pieces \in Seq([block : Nat, expected : {"shown", "hidden", "either"}]) /\ n \in Nat
       /\ DOMAIN tFed.pieces = 1..(n - 1) /\ DOMAIN pieces = 1..n
       /\ pieces[n] = piece /\ \A m \in 1..(n - 1) : pieces[m] = tFed.pieces[m]
  BY <1>1, <1>3, <1>8, <1>12 DEF TShape, FedShape
<1>14. FedShape' /\ tFed'.n # 0
  <2>1. tFed.n \in Nat /\ tFed.blocks \in Nat
    BY <1>1 DEF TShape, FedShape
  <2>2. tFed'.n \in Nat /\ tFed'.n # 0 /\ tFed'.blocks \in Nat
    BY <1>10, <2>1
  <2> QED BY <1>1, <1>10, <1>13, <2>2 DEF TShape, FedShape
<1>15. CallsKept /\ tStack' \in Seq(Ids)
  BY <1>1, <1>9, <1>10 DEF CallsKept, TShape
<1>16. IdsGiven' /\ StackFollows'
  BY <1>1, <1>15, CallsKeep
<1>17. tFed'.pieces = Append(tFed.pieces, piece)
  BY <1>8, <1>10
<1>18. CASE InSubagent
  <2>1. UNCHANGED <<tSegs, tOpen>> /\ tStack # <<>> /\ tStack' # <<>>
    BY <1>9, <1>18 DEF InSubagent
  <2>2. expected # "shown"
    <3>1. CASE tFed.tasks = <<>> /\ tFed.regular
      <4>1. Len(tStack) = 0
        BY <1>1, <3>1 DEF StackFollows
      <4> QED BY <1>1, <2>1, <4>1 DEF TShape
    <3>2. CASE tFed.tasks = <<>> /\ ~tFed.omitted
      <4>1. \A j \in DOMAIN tStack : tStack[j] \in ToSet(tFed.tasks)
        BY <1>1, <3>2 DEF StackFollows, ToSet
      <4>2. \A j \in DOMAIN tStack : FALSE
        BY <3>2, <4>1 DEF ToSet
      <4>3. 1 \in DOMAIN tStack
        BY <1>1, <2>1 DEF TShape
      <4> QED BY <4>2, <4>3
    <3> QED BY <1>6, <3>1, <3>2
  <2>3. TranscriptFaithful' /\ \A j \in DOMAIN tSegs' : ToSet(tSegs'[j].parts) \subseteq DOMAIN tFed'.pieces
    BY <1>1, <1>12, <1>17, <2>1, <2>2, PieceUnseen
  <2>4. OpensFollow'
    BY <1>1, <2>1 DEF OpensFollow
  <2>5. TShape'
    BY <1>1, <1>2, <1>14, <1>15, <2>1 DEF TShape
  <2>6. PartsSaid'
    BY <1>14, <2>3 DEF PartsSaid
  <2> QED BY <1>16, <2>3, <2>4, <2>5, <2>6 DEF TranscriptInv
<1>19. CASE ~InSubagent
  <2>1. tStack = <<>> /\ tSegs \in Seq(SegmentRow) /\ Len(tSegs) \in Nat /\ DOMAIN tSegs = 1..Len(tSegs)
    BY <1>1, <1>19 DEF InSubagent, TShape
  <2>2. expected # "hidden"
    <3>1. ASSUME tFed.regular PROVE tFed.tasks = <<>>
      <4>1. Len(tFed.tasks) = 0
        BY <1>1, <2>1, <3>1 DEF StackFollows
      <4> QED BY <1>1, <4>1 DEF TShape, FedShape
    <3> QED BY <1>6, <3>1
  <2>3. i # 0 => at \in DOMAIN tSegs /\ \A m \in DOMAIN tSegs[at].parts : tFed.pieces[tSegs[at].parts[m]].block = block
    <3> SUFFICES ASSUME i # 0
                 PROVE  at \in DOMAIN tSegs /\ \A m \in DOMAIN tSegs[at].parts : tFed.pieces[tSegs[at].parts[m]].block = block
      OBVIOUS
    <3>1. tFed.live[i].kind = kind /\ tOpen[tFed.live[i].kind][i] = at /\ block = tFed.live[i].block /\ i \in Indices \ {0}
      BY <1>4, <1>5, <1>9
    <3>2. LET k == tOpen[tFed.live[i].kind][i]
          IN  /\ k \in DOMAIN tSegs
              /\ \A m \in DOMAIN tSegs[k].parts : tFed.pieces[tSegs[k].parts[m]].block = tFed.live[i].block
      BY <1>1, <2>1, <3>1 DEF OpensFollow
    <3> QED BY <3>1, <3>2
  <2>4. i = 0 => at = 0
    BY <1>1, <1>4 DEF OpensFollow
  <2>5. tOpen' = tOpen
    BY <1>9, <1>19, <2>1, <2>3 DEF OpenAt
  <2>6. PICK k : k = IF at # 0 THEN at ELSE Len(tSegs) + 1
    OBVIOUS
  <2>7. PICK old : old = IF at # 0 THEN tSegs[at].parts ELSE <<>>
    OBVIOUS
  <2>8. /\ tSegs' \in Seq(SegmentRow) /\ k \in DOMAIN tSegs' /\ old \in Seq(Nat)
        /\ (k \in DOMAIN tSegs /\ old = tSegs[k].parts) \/ (k \notin DOMAIN tSegs /\ old = <<>>)
        /\ tSegs'[k].parts = Append(old, n)
        /\ \A m \in DOMAIN old : tFed.pieces[old[m]].block = block
        /\ \A j \in DOMAIN tSegs : j \in DOMAIN tSegs'
        /\ \A j \in DOMAIN tSegs' : j # k => j \in DOMAIN tSegs /\ tSegs'[j].parts = tSegs[j].parts
    <3>1. CASE at # 0
      <4>1. at \in DOMAIN tSegs /\ k = at /\ old = tSegs[at].parts /\ tSegs[at] \in SegmentRow /\ i # 0
        BY <2>1, <2>3, <2>4, <2>6, <2>7, <3>1
      <4>2. PICK row : row = [tSegs[at] EXCEPT !.parts = Append(@, n)]
        OBVIOUS
      <4>3. old \in Seq(Nat) /\ Append(old, n) \in Seq(Nat)
        BY <1>13, <4>1 DEF SegmentRow
      <4>4. row \in SegmentRow /\ row.parts = Append(old, n)
        BY <4>1, <4>2, <4>3 DEF SegmentRow
      <4>5. tSegs' = [tSegs EXCEPT ![at] = row]
        BY <1>9, <1>19, <3>1, <4>2
      <4>6. tSegs' \in Seq(SegmentRow) /\ Len(tSegs') = Len(tSegs) /\ tSegs'[at] = row
            /\ \A j \in DOMAIN tSegs : j # at => tSegs'[j] = tSegs[j]
        BY <2>1, <4>1, <4>4, <4>5
      <4>7. DOMAIN tSegs' = DOMAIN tSegs
        BY <2>1, <4>6
      <4> QED BY <2>3, <4>1, <4>3, <4>4, <4>6, <4>7
    <3>2. CASE at = 0
      <4>1. i = 0 /\ k = Len(tSegs) + 1 /\ old = <<>> /\ k \notin DOMAIN tSegs
        BY <2>1, <2>3, <2>6, <2>7, <3>2
      <4>2. PICK row : row = Segment(kind, <<n>>)
        OBVIOUS
      <4>3. row \in SegmentRow /\ row.parts = <<n>>
        BY <1>13, <4>2 DEF Segment, SegmentRow
      <4>4. tSegs' = Append(tSegs, row)
        BY <1>9, <1>19, <3>2, <4>2
      <4>5. tSegs' \in Seq(SegmentRow) /\ Len(tSegs') = Len(tSegs) + 1 /\ tSegs'[Len(tSegs) + 1] = row
            /\ \A j \in 1..Len(tSegs) : tSegs'[j] = tSegs[j]
        BY <2>1, <4>3, <4>4
      <4>6. DOMAIN tSegs' = 1..(Len(tSegs) + 1)
        BY <4>5
      <4>7. <<n>> = Append(<<>>, n) /\ <<>> \in Seq(Nat) /\ DOMAIN <<>> = {}
        OBVIOUS
      <4>8. \A m \in DOMAIN old : FALSE
        BY <4>1
      <4>9. old \in Seq(Nat) /\ tSegs'[k].parts = Append(old, n)
        BY <4>1, <4>3, <4>5, <4>7
      <4> QED BY <2>1, <4>1, <4>5, <4>6, <4>8, <4>9
    <3> QED BY <3>1, <3>2
  <2>9. TranscriptFaithful' /\ \A j \in DOMAIN tSegs' : ToSet(tSegs'[j].parts) \subseteq DOMAIN tFed'.pieces
    <3>1. piece.expected # "hidden" /\ \A m \in DOMAIN old : tFed.pieces[old[m]].block = piece.block
      BY <1>12, <2>2, <2>8
    <3>2. tSegs'[k].parts = Append(old, Len(tFed.pieces) + 1)
      BY <1>3, <2>8
    <3>3. (k \in DOMAIN tSegs /\ old = tSegs[k].parts) \/ (k \notin DOMAIN tSegs /\ old = <<>>)
      BY <2>8
    <3>4. tSegs' \in Seq(SegmentRow) /\ k \in DOMAIN tSegs' /\ old \in Seq(Nat)
          /\ \A j \in DOMAIN tSegs : j \in DOMAIN tSegs'
      BY <2>8
    <3>5. \A j \in DOMAIN tSegs' : j # k => j \in DOMAIN tSegs /\ tSegs'[j].parts = tSegs[j].parts
      BY <2>8
    <3>6. PieceGoes(k, old, piece)
      BY <1>17, <3>1, <3>2, <3>3, <3>4, <3>5 DEF PieceGoes
    <3> QED BY <1>1, <1>12, <3>1, <3>6, PieceAdded
  <2>10. \A a \in 1..(n - 1) : tFed'.pieces[a].block = tFed.pieces[a].block
    BY <1>10, <1>13
  <2>11. ASSUME NEW j \in Indices \ {0}, tFed.live[j].kind \in Kinds
         PROVE  LET m == tOpen[tFed.live[j].kind][j]
                IN  /\ m \in DOMAIN tSegs'
                    /\ \A a \in DOMAIN tSegs'[m].parts : tFed'.pieces[tSegs'[m].parts[a]].block = tFed.live[j].block
    <3>1. PICK m : m = tOpen[tFed.live[j].kind][j]
      OBVIOUS
    <3>2. m \in DOMAIN tSegs /\ \A a \in DOMAIN tSegs[m].parts : tFed.pieces[tSegs[m].parts[a]].block = tFed.live[j].block
      BY <1>1, <2>1, <2>11, <3>1 DEF OpensFollow
    <3>3. CASE m # k
      <4>1. m \in DOMAIN tSegs' /\ tSegs'[m].parts = tSegs[m].parts
        BY <2>8, <3>2, <3>3
      <4>2. \A a \in DOMAIN tSegs[m].parts : tSegs[m].parts[a] \in 1..(n - 1)
        BY <1>1, <1>13, <3>2 DEF ToSet
      <4> QED BY <2>10, <3>1, <3>2, <4>1, <4>2
    <3>4. CASE m = k
      <4>1. at # 0 /\ at = m /\ i # 0 /\ old = tSegs[m].parts
        BY <2>1, <2>4, <2>6, <2>7, <3>2, <3>4
      <4>2. i = j
        BY <1>1, <1>4, <1>9, <2>1, <2>11, <3>1, <4>1 DEF OpensFollow
      <4>3. block = tFed.live[j].block
        BY <1>5, <4>1, <4>2
      <4>4. \A a \in DOMAIN old : old[a] \in 1..(n - 1) /\ tFed.pieces[old[a]].block = block
        BY <1>1, <1>13, <2>8, <3>2, <4>1 DEF ToSet
      <4>5. tSegs'[m].parts = Append(old, n) /\ m \in DOMAIN tSegs' /\ old \in Seq(Nat)
        BY <2>8, <3>4
      <4>6. \A a \in DOMAIN Append(old, n) : IF a \in DOMAIN old THEN Append(old, n)[a] = old[a] ELSE Append(old, n)[a] = n
        BY <4>5
      <4>7. tFed'.pieces[n].block = block
        BY <1>10, <1>12, <1>13
      <4>8. \A a \in DOMAIN tSegs'[m].parts : tFed'.pieces[tSegs'[m].parts[a]].block = block
        BY <2>10, <4>4, <4>5, <4>6, <4>7
      <4> QED BY <3>1, <4>3, <4>5, <4>8
    <3> QED BY <3>3, <3>4
  <2>12. OpensFollow'
    <3>1. \A j, m \in Indices \ {0} : /\ tFed.live[j].kind \in Kinds /\ tFed.live[m].kind \in Kinds
                                      /\ tOpen[tFed.live[j].kind][j] = tOpen[tFed.live[m].kind][m]
                                      => j = m
      BY <1>1, <2>1 DEF OpensFollow
    <3>2. \A other \in Kinds : tOpen[other][0] = 0
      BY <1>1 DEF OpensFollow
    <3>3. tFed'.live = tFed.live
      BY <1>10
    <3>4. \A j \in Indices \ {0} : tFed'.live[j].kind \in Kinds =>
            LET m == tOpen'[tFed'.live[j].kind][j]
            IN  /\ m \in DOMAIN tSegs'
                /\ \A a \in DOMAIN tSegs'[m].parts : tFed'.pieces[tSegs'[m].parts[a]].block = tFed'.live[j].block
      <4> SUFFICES ASSUME NEW j \in Indices \ {0}, tFed'.live[j].kind \in Kinds
                   PROVE  LET m == tOpen'[tFed'.live[j].kind][j]
                          IN  /\ m \in DOMAIN tSegs'
                              /\ \A a \in DOMAIN tSegs'[m].parts : tFed'.pieces[tSegs'[m].parts[a]].block = tFed'.live[j].block
        OBVIOUS
      <4>1. PICK m : m = tOpen[tFed.live[j].kind][j]
        OBVIOUS
      <4>2. tOpen'[tFed'.live[j].kind][j] = m /\ tFed'.live[j].block = tFed.live[j].block /\ tFed.live[j].kind \in Kinds
        BY <2>5, <3>3, <4>1
      <4>3. m \in DOMAIN tSegs' /\ \A a \in DOMAIN tSegs'[m].parts : tFed'.pieces[tSegs'[m].parts[a]].block = tFed.live[j].block
        BY <2>11, <4>1, <4>2
      <4> QED BY <4>2, <4>3
    <3>5. \A j, m \in Indices \ {0} : /\ tFed'.live[j].kind \in Kinds /\ tFed'.live[m].kind \in Kinds
                                      /\ tOpen'[tFed'.live[j].kind][j] = tOpen'[tFed'.live[m].kind][m]
                                      => j = m
      BY <2>5, <3>1, <3>3
    <3>6. \A other \in Kinds : tOpen'[other][0] = 0
      BY <2>5, <3>2
    <3> QED BY <3>4, <3>5, <3>6 DEF OpensFollow
  <2>13. TShape'
    BY <1>1, <1>2, <1>14, <1>15, <2>5, <2>8 DEF TShape
  <2>14. PartsSaid'
    BY <1>14, <2>9 DEF PartsSaid
  <2> QED BY <1>16, <2>9, <2>12, <2>13, <2>14 DEF TranscriptInv
<1> QED BY <1>18, <1>19

\* The end: a task that said nothing shows one text.
LEMMA ExitEventKeeps == ASSUME TranscriptInv, ExitEvent PROVE TranscriptInv'
<1>1. TShape /\ IdsGiven /\ StackFollows /\ OpensFollow /\ OpenTyped(tOpen) /\ TranscriptFaithful
      /\ \A k \in DOMAIN tSegs : ToSet(tSegs[k].parts) \subseteq DOMAIN tFed.pieces
  BY DEF TranscriptInv, TShape, PartsSaid
<1>2. ScreenShape' /\ tScreen'.ended
  BY <1>1, ScreenEnds DEF ExitEvent
<1>3. UNCHANGED <<tOpen, tStack>> /\ ~tScreen.ended
  BY DEF ExitEvent
<1>4. CASE tFed.n # 0
  <2>1. tSegs' = tSegs /\ tFed' = [tFed EXCEPT !.pieces = @]
    BY <1>4 DEF ExitEvent
  <2>2. /\ DOMAIN tFed' = DOMAIN tFed /\ tFed'.n = tFed.n /\ tFed'.live = tFed.live /\ tFed'.blocks = tFed.blocks
        /\ tFed'.tasks = tFed.tasks /\ tFed'.tools = tFed.tools /\ tFed'.calls = tFed.calls
        /\ tFed'.regular = tFed.regular /\ tFed'.omitted = tFed.omitted /\ tFed'.pieces = tFed.pieces
    BY <1>1, <2>1 DEF TShape, FedShape
  <2>3. PiecesKept
    BY <2>1, <2>2 DEF PiecesKept
  <2>4. CallsKept /\ FedShape' /\ OpenTyped(tOpen') /\ tStack' \in Seq(Ids)
    BY <1>1, <1>3, <2>2 DEF CallsKept, TShape, FedShape
  <2>5. IdsGiven' /\ StackFollows'
    BY <1>1, <2>4, CallsKeep
  <2> QED BY <1>2, <1>3, <2>2, <2>3, <2>4, <2>5, QuietStep
<1>5. CASE tFed.n = 0
  <2>1. tSegs = <<>> /\ tFed.pieces = <<>>
    BY <1>3, <1>5 DEF TranscriptInv, PartsSaid
  <2>2. PICK row : row = Segment("text", <<1>>)
    OBVIOUS
  <2>3. row \in SegmentRow /\ row.parts = <<1>>
    BY <2>2 DEF Segment, SegmentRow, Kinds
  <2>4. PICK pieces : pieces = <<[block |-> 1, expected |-> "shown"]>>
    OBVIOUS
  <2>5. pieces \in Seq([block : Nat, expected : {"shown", "hidden", "either"}]) /\ pieces[1].expected = "shown"
        /\ DOMAIN pieces = {1}
    BY <2>4
  <2>6. tSegs' = <<row>> /\ tFed' = [tFed EXCEPT !.pieces = pieces]
    <3>1. <<1>> # <<>>
      OBVIOUS
    <3>2. tSegs' = Append(tSegs, row) /\ tFed' = [tFed EXCEPT !.pieces = pieces]
      BY <1>5, <2>2, <2>4, <3>1 DEF ExitEvent
    <3> QED BY <2>1, <3>2
  <2>7. /\ DOMAIN tFed' = DOMAIN tFed /\ tFed'.n = tFed.n /\ tFed'.live = tFed.live /\ tFed'.blocks = tFed.blocks
        /\ tFed'.tasks = tFed.tasks /\ tFed'.tools = tFed.tools /\ tFed'.calls = tFed.calls
        /\ tFed'.regular = tFed.regular /\ tFed'.omitted = tFed.omitted /\ tFed'.pieces = pieces
    BY <1>1, <2>6 DEF TShape, FedShape
  <2>8. FedShape'
    BY <1>1, <2>5, <2>7 DEF TShape, FedShape
  <2>9. tSegs' \in Seq(SegmentRow) /\ DOMAIN tSegs' = {1} /\ tSegs'[1].parts = <<1>>
    BY <2>3, <2>6
  <2>10. TShape' /\ CallsKept
    BY <1>1, <1>2, <1>3, <2>7, <2>8, <2>9 DEF TShape, CallsKept
  <2>11. IdsGiven' /\ StackFollows'
    BY <1>1, <2>10, CallsKeep
  <2>12. ToSet(<<1>>) = {1} /\ DOMAIN <<1>> = {1}
    BY DEF ToSet
  <2>13. PartsSaid'
    BY <1>2, <2>5, <2>7, <2>9, <2>12 DEF PartsSaid
  <2>14. Holding(1)' = {1}
    BY <2>9, <2>12 DEF Holding
  <2>15. TranscriptFaithful'
    <3>1. \A k \in DOMAIN tSegs' : \A i, j \in DOMAIN tSegs'[k].parts : ~(i < j)
      BY <2>9, <2>12
    <3>2. \A m \in DOMAIN tFed'.pieces : m = 1 /\ tFed'.pieces[m].expected = "shown"
      BY <2>5, <2>7
    <3>3. 1 \in DOMAIN tSegs'
      BY <2>9
    <3> QED BY <2>14, <3>1, <3>2, <3>3 DEF TranscriptFaithful
  <2>16. OpensFollow'
    <3>1. tStack = <<>> => \A i \in Indices \ {0} : tFed.live[i].kind \notin Kinds
      BY <1>1, <2>1 DEF OpensFollow
    <3>2. \A kind \in Kinds : tOpen'[kind][0] = 0
      BY <1>1, <1>3 DEF OpensFollow
    <3>3. tStack' = <<>> => \A i \in Indices \ {0} : tFed'.live[i].kind \notin Kinds
      BY <1>3, <2>7, <3>1
    <3> QED BY <3>2, <3>3 DEF OpensFollow
  <2> QED BY <2>10, <2>11, <2>13, <2>15, <2>16 DEF TranscriptInv
<1>6. tFed.n \in Nat
  BY <1>1 DEF TShape, FedShape
<1> QED BY <1>4, <1>5

LEMMA TranscriptInit == ASSUME TInit PROVE TranscriptInv
<1>1. tSegs = <<>> /\ tStack = <<>> /\ tSegs \in Seq(SegmentRow) /\ tStack \in Seq(Ids)
  BY DEF TInit
<1>2. ScreenShape
  BY DEF TInit, ScreenShape
<1>3. OpenTyped(tOpen) /\ \A kind \in Kinds : tOpen[kind] = NoSegment
  BY DEF TInit, OpenTyped, NoSegment, Kinds
<1>4. FedShape /\ tFed.pieces = <<>> /\ tFed.tasks = <<>> /\ tFed.tools = {} /\ \A i \in Indices : tFed.live[i].kind = "none"
  BY DEF TInit, FedShape, NoBlock
<1>5. TShape
  BY <1>1, <1>2, <1>3, <1>4 DEF TShape
<1>6. ToSet(tFed.tasks) = {} /\ ToSet(tStack) = {} /\ DOMAIN tSegs = {} /\ DOMAIN tStack = {} /\ DOMAIN tFed.tasks = {}
      /\ DOMAIN tFed.pieces = {}
  BY <1>1, <1>4 DEF ToSet
<1>7. IdsGiven
  BY <1>4, <1>6 DEF IdsGiven
<1>8. StackFollows
  BY <1>1, <1>4, <1>6 DEF StackFollows
<1>9. OpensFollow
  BY <1>3, <1>4, TranscriptAssumption DEF OpensFollow, NoSegment, Kinds
<1>10. PartsSaid /\ TranscriptFaithful
  BY <1>1, <1>4, <1>6 DEF PartsSaid, TranscriptFaithful
<1> QED BY <1>5, <1>7, <1>8, <1>9, <1>10 DEF TranscriptInv

LEMMA TranscriptStep == ASSUME TranscriptInv, [TNext]_tVars PROVE TranscriptInv'
<1>1. CASE UNCHANGED tVars
  <2>1. UNCHANGED <<tSegs, tOpen, tStack, tScreen, tFed>>
    BY <1>1 DEF tVars
  <2>2. TShape /\ TShape'
    BY <2>1 DEF TranscriptInv, TShape, ScreenShape, FedShape
  <2>3. IdsGiven' /\ StackFollows'
    BY <2>1 DEF TranscriptInv, IdsGiven, StackFollows
  <2>4. OpensFollow' /\ PartsSaid'
    <3>1. PiecesKept
      BY <2>1 DEF PiecesKept
    <3>2. TShape /\ OpensFollow /\ TranscriptFaithful /\ PartsSaid
      BY DEF TranscriptInv
    <3>3. PartsSaid'
      BY <2>1, <3>2 DEF PartsSaid
    <3>4. \A k \in DOMAIN tSegs : ToSet(tSegs[k].parts) \subseteq DOMAIN tFed.pieces
      BY <3>2 DEF PartsSaid
    <3>5. OpensFollow'
      BY <2>1, <3>1, <3>2, <3>4, OpensKeep
    <3> QED BY <3>3, <3>5
  <2>5. TranscriptFaithful'
    <3>1. \A n : Holding(n)' = Holding(n)
      BY <2>1 DEF Holding
    <3> QED BY <2>1, <3>1 DEF TranscriptInv, TranscriptFaithful
  <2> QED BY <2>2, <2>3, <2>4, <2>5 DEF TranscriptInv
<1>2. ASSUME NEW i \in Indices, NEW kind \in Kinds, SegmentStart(kind, i) \/ SegmentDelta(kind, i) PROVE TranscriptInv'
  BY <1>2, SegmentStartKeeps, SegmentDeltaKeeps
<1>3. ASSUME NEW i \in Indices, SegmentStop(i) \/ ToolUseDelta(i) PROVE TranscriptInv'
  BY <1>3, SegmentStopKeeps, ToolUseDeltaKeeps
<1>4. ASSUME NEW i \in Indices, NEW id \in {Omitted, CallId(tFed.calls + 1)}, ToolUse(id, i) \/ TaskUse(id, i)
      PROVE  TranscriptInv'
  BY <1>4, ToolUseKeeps, TaskUseKeeps
<1>5. ASSUME NEW k \in DOMAIN tFed.tasks, TaskResult(k) PROVE TranscriptInv'
  BY <1>5, TaskResultKeeps
<1>6. ASSUME NEW id \in tFed.tools, PlainResult(id) PROVE TranscriptInv'
  BY <1>6, PlainResultKeeps
<1>7. CASE ErrorShown
  BY <1>7, ErrorShownKeeps
<1>8. CASE ExitEvent
  BY <1>8, ExitEventKeeps
<1>9. ASSUME NEW stopped \in BOOLEAN, CancelledTask(stopped) PROVE TranscriptInv'
  BY <1>9, CancelledTaskKeeps
<1>10. CASE StoppedShown
  BY <1>10, StoppedShownKeeps
<1> QED BY <1>1, <1>2, <1>3, <1>4, <1>5, <1>6, <1>7, <1>8, <1>9, <1>10 DEF TNext, Kinds

\* Whatever blocks, indices, ids and answers the stream brings and in whatever order the
\* Tasks end: every piece the task itself said is in one segment, in order and with pieces
\* of its own block only, and none that a Task said is in any (TranscriptBuffer.apply).
THEOREM TranscriptIsFaithful == TSpec => []TranscriptFaithful
<1>1. TInit => TranscriptInv
  BY TranscriptInit
<1>2. TranscriptInv /\ [TNext]_tVars => TranscriptInv'
  BY TranscriptStep
<1>3. TranscriptInv => TranscriptFaithful
  BY DEF TranscriptInv
<1> QED BY <1>1, <1>2, <1>3, PTL DEF TSpec

-----------------------------------------------------------------------------
(***************************************************************************)
(* The screen.  ScreenRight needs that what was shown before fits, and     *)
(* that the sums of the rendering exist and are numbers.                   *)
(***************************************************************************)
LEMMA SegmentLengthNat == ASSUME NEW l \in Layouts, NEW s \in SegmentRow PROVE SegmentLength(l, s) \in Nat
<1>1. l.frame \in Nat /\ l.tail \in Nat /\ l.piece \in Nat /\ Len(s.parts) \in Nat
  BY TranscriptAssumption DEF SegmentRow
<1>2. PICK all : all = l.piece * Len(s.parts)
  OBVIOUS
<1>3. all \in Nat
  BY <1>1, <1>2
<1>4. LesserOf(l.tail, all) \in Nat
  BY <1>1, <1>3 DEF LesserOf
<1> QED BY <1>1, <1>2, <1>4 DEF SegmentLength

LEMMA LongerNat ==
  ASSUME NEW l \in Layouts, NEW s \in SegmentRow, NEW sum \in Nat
  PROVE  Longer(l, sum, s) \in Nat
BY SegmentLengthNat DEF Longer

\* The recursion of Sums, as a set of equations.
SumsUpTo(f, l, segs, k, m) == f = [n \in 0..m |-> IF n < k THEN 0 ELSE Longer(l, f[n - 1], segs[n])]

LEMMA SumsExist ==
  ASSUME NEW l, NEW segs, Len(segs) \in Nat, NEW k \in Nat \ {0}
  PROVE  \E f : SumsUpTo(f, l, segs, k, Len(segs))
<1>1. PICK T : T = {m \in Nat : ~\E f : SumsUpTo(f, l, segs, k, m)}
  OBVIOUS
<1>2. SUFFICES ASSUME T # {} PROVE FALSE
  BY <1>1
<1>3. PICK m \in T : \A y \in T : m <= y
  BY <1>1, <1>2, LeastNatural
<1>4. CASE m = 0
  <2>1. PICK f : f = [n \in 0..0 |-> 0]
    OBVIOUS
  <2>2. \A n \in 0..0 : n < k
    OBVIOUS
  <2>3. f = [n \in 0..0 |-> IF n < k THEN 0 ELSE Longer(l, f[n - 1], segs[n])]
    BY <2>1, <2>2
  <2>4. SumsUpTo(f, l, segs, k, 0)
    BY <2>3 DEF SumsUpTo
  <2> QED BY <1>1, <1>4, <2>4
<1>5. CASE m # 0
  <2>1. m \in Nat /\ m - 1 \in Nat /\ m - 1 \notin T
    BY <1>1, <1>3, <1>5
  <2>2. PICK g : SumsUpTo(g, l, segs, k, m - 1)
    BY <1>1, <2>1
  <2>3. PICK last : last = IF m < k THEN 0 ELSE Longer(l, g[m - 1], segs[m])
    OBVIOUS
  <2>4. PICK f : f = [n \in 0..m |-> IF n = m THEN last ELSE g[n]]
    OBVIOUS
  <2>5. \A n \in 0..(m - 1) : g[n] = IF n < k THEN 0 ELSE Longer(l, g[n - 1], segs[n])
    BY <2>2 DEF SumsUpTo
  <2>6. f[m] = last /\ \A n \in 0..(m - 1) : f[n] = g[n]
    BY <2>1, <2>4
  <2>7. ASSUME NEW n \in 0..m PROVE f[n] = IF n < k THEN 0 ELSE Longer(l, f[n - 1], segs[n])
    <3>1. CASE n < k
      <4>1. n = m \/ n \in 0..(m - 1)
        BY <2>1
      <4> QED BY <2>3, <2>5, <2>6, <3>1, <4>1
    <3>2. CASE ~(n < k)
      <4>1. n - 1 \in 0..(m - 1) /\ (n = m \/ n \in 0..(m - 1))
        BY <2>1, <3>2
      <4>2. f[n - 1] = g[n - 1]
        BY <2>6, <4>1
      <4>3. CASE n = m
        BY <2>3, <2>6, <3>2, <4>2, <4>3
      <4>4. CASE n \in 0..(m - 1)
        BY <2>5, <2>6, <3>2, <4>2, <4>4
      <4> QED BY <4>1, <4>3, <4>4
    <3> QED BY <3>1, <3>2
  <2>8. f = [n \in 0..m |-> f[n]]
    BY <2>4
  <2>9. SumsUpTo(f, l, segs, k, m)
    BY <2>7, <2>8 DEF SumsUpTo
  <2> QED BY <1>1, <1>3, <2>9
<1> QED BY <1>4, <1>5

LEMMA SumsNat ==
  ASSUME NEW l \in Layouts, NEW segs \in Seq(SegmentRow), NEW k \in Nat \ {0}
  PROVE  BodyLength(l, segs, k) \in Nat
<1>1. Len(segs) \in Nat /\ DOMAIN segs = 1..Len(segs)
  OBVIOUS
<1>2. PICK f : f = CHOOSE g : SumsUpTo(g, l, segs, k, Len(segs))
  OBVIOUS
<1>3. SumsUpTo(f, l, segs, k, Len(segs))
  BY <1>1, <1>2, SumsExist
<1>4. Sums(l, segs, k) = f
  BY <1>2 DEF Sums, SumsUpTo
<1>5. PICK T : T = {n \in 0..Len(segs) : f[n] \notin Nat}
  OBVIOUS
<1>6. \A n \in 0..Len(segs) : f[n] = IF n < k THEN 0 ELSE Longer(l, f[n - 1], segs[n])
  BY <1>3 DEF SumsUpTo
<1>7. T = {}
  <2> SUFFICES ASSUME T # {} PROVE FALSE
    OBVIOUS
  <2> T \subseteq Nat
    BY <1>5
  <2>1. PICK m \in T : \A y \in T : m <= y
    BY LeastNatural
  <2>2. m \in 0..Len(segs) /\ f[m] \notin Nat /\ ~(m < k)
    BY <1>1, <1>5, <1>6, <2>1
  <2>3. m - 1 \in 0..Len(segs) /\ m - 1 \notin T /\ m \in DOMAIN segs
    BY <1>1, <1>5, <2>1, <2>2
  <2>4. f[m - 1] \in Nat /\ segs[m] \in SegmentRow
    BY <1>5, <2>3
  <2>5. f[m] = Longer(l, f[m - 1], segs[m])
    BY <1>6, <2>2
  <2> QED BY <2>2, <2>4, <2>5, LongerNat
<1> QED BY <1>1, <1>4, <1>5, <1>7 DEF BodyLength

-----------------------------------------------------------------------------
\* What is rendered, from which segment on and how long.
Room(l, segs, status) == Visible(l, segs) # {} /\ Budget(l, IF status THEN l.status + 2 ELSE 0) > l.least

LEMMA RenderFits ==
  ASSUME NEW l \in Layouts, NEW segs \in Seq(SegmentRow), NEW status \in BOOLEAN,
         NEW shown, shown = Render(l, segs, status)
  PROVE  /\ shown.length <= l.limit \/ l.status > l.limit
         /\ Room(l, segs, status) => shown.from # 0 /\ shown.length <= l.limit
         /\ status => shown.length # 0
<1>1. l.limit \in Nat /\ l.marker \in Nat /\ l.status \in Nat /\ l.status > 0 /\ l.least \in Nat
  BY TranscriptAssumption
<1>2. PICK line : line = IF status THEN l.status + 2 ELSE 0
  OBVIOUS
<1>3. PICK whole : whole = BodyLength(l, segs, 1) + line
  OBVIOUS
<1>4. PICK visible : visible = Visible(l, segs)
  OBVIOUS
<1>5. PICK fits : fits = {k \in visible : l.marker + BodyLength(l, segs, k) + line <= l.limit}
  OBVIOUS
<1>6. PICK newest : newest = CHOOSE k \in visible : \A j \in visible : j <= k
  OBVIOUS
<1>7. PICK least : least = CHOOSE k \in fits : \A j \in fits : k <= j
  OBVIOUS
<1>8. PICK tail : tail = LesserOf(Budget(l, line), SegmentLength(l, segs[newest]))
  OBVIOUS
<1>9. PICK only : only = IF status THEN l.status ELSE 0
  OBVIOUS
<1>10. line \in Nat /\ whole \in Nat /\ (status => line > 0 /\ only > 0) /\ only \in Nat /\ only <= l.status
  <2>1. 1 \in Nat \ {0} /\ line \in Nat
    BY <1>1, <1>2
  <2>2. BodyLength(l, segs, 1) \in Nat
    BY <2>1, SumsNat
  <2> QED BY <1>1, <1>2, <1>3, <1>9, <2>1, <2>2
<1>11. visible \subseteq DOMAIN segs /\ DOMAIN segs = 1..Len(segs) /\ Len(segs) \in Nat /\ fits \subseteq visible
  BY <1>4, <1>5 DEF Visible
<1>12. fits # {} => least \in fits
  <2> SUFFICES ASSUME fits # {} PROVE least \in fits
    OBVIOUS
  <2>1. fits \subseteq Nat
    BY <1>11
  <2>2. \E k \in fits : \A j \in fits : k <= j
    BY <2>1, LeastNatural
  <2> QED BY <1>7, <2>2
<1>13. visible # {} => newest \in visible
  <2> SUFFICES ASSUME visible # {} PROVE newest \in visible
    OBVIOUS
  <2>1. visible \subseteq 0..Len(segs) /\ Len(segs) \in Nat
    BY <1>11
  <2>2. \E k \in visible : \A j \in visible : j <= k
    BY <2>1, GreatestNatural
  <2> QED BY <1>6, <2>2
<1>14. shown = IF whole <= l.limit THEN [from |-> 1, tail |-> 0, length |-> whole]
               ELSE IF fits # {} THEN [from |-> least, tail |-> 0, length |-> l.marker + BodyLength(l, segs, least) + line]
               ELSE IF visible # {} /\ Budget(l, line) > l.least /\ l.marker + tail + line <= l.limit
                    THEN [from |-> newest, tail |-> tail, length |-> l.marker + tail + line]
               ELSE IF visible # {} /\ l.marker + only <= l.limit THEN [from |-> 0, tail |-> 0, length |-> l.marker + only]
               ELSE [from |-> 0, tail |-> 0, length |-> only]
  BY <1>2, <1>3, <1>4, <1>5, <1>6, <1>7, <1>8, <1>9 DEF Render
<1>15. Room(l, segs, status) <=> visible # {} /\ Budget(l, line) > l.least
  BY <1>2, <1>4 DEF Room
<1>16. CASE whole <= l.limit
  BY <1>1, <1>2, <1>3, <1>10, <1>14, <1>16, SumsNat
<1>17. CASE whole > l.limit /\ fits # {}
  <2>1. shown.from = least /\ shown.length = l.marker + BodyLength(l, segs, least) + line
    BY <1>1, <1>10, <1>14, <1>17
  <2>2. least \in fits /\ least \in Nat \ {0}
    BY <1>11, <1>12, <1>17
  <2>3. l.marker + BodyLength(l, segs, least) + line <= l.limit /\ BodyLength(l, segs, least) \in Nat
    BY <1>5, <2>2, SumsNat
  <2> QED BY <1>1, <1>10, <2>1, <2>2, <2>3
<1>18. CASE whole > l.limit /\ fits = {} /\ visible # {} /\ Budget(l, line) > l.least /\ l.marker + tail + line <= l.limit
  <2>1. shown.from = newest /\ shown.length = l.marker + tail + line
    BY <1>1, <1>10, <1>14, <1>18
  <2>2. newest \in Nat \ {0} /\ SegmentLength(l, segs[newest]) \in Nat
    BY <1>11, <1>13, <1>18, SegmentLengthNat
  <2>3. tail \in Nat
    BY <1>1, <1>8, <1>10, <1>18, <2>2 DEF Budget, LesserOf
  <2> QED BY <1>1, <1>10, <1>18, <2>1, <2>2, <2>3
<1>19. CASE whole > l.limit /\ fits = {} /\ ~(visible # {} /\ Budget(l, line) > l.least /\ l.marker + tail + line <= l.limit)
  <2>1. ~Room(l, segs, status)
    <3> SUFFICES ASSUME visible # {}, Budget(l, line) > l.least PROVE l.marker + tail + line <= l.limit
      BY <1>15, <1>19
    <3>1. newest \in Nat \ {0} /\ SegmentLength(l, segs[newest]) \in Nat
      BY <1>11, <1>13, SegmentLengthNat
    <3>2. PICK whole0, room : whole0 = SegmentLength(l, segs[newest]) /\ room = Budget(l, line)
      OBVIOUS
    <3>3. room = l.limit - l.marker - line /\ whole0 \in Nat
      BY <3>1, <3>2 DEF Budget
    <3>4. tail = IF room < whole0 THEN room ELSE whole0
      BY <1>8, <3>2 DEF LesserOf
    <3>5. tail <= room
      BY <1>1, <1>10, <3>3, <3>4
    <3> QED BY <1>1, <1>10, <3>3, <3>4, <3>5
  <2>2. \/ l.marker + only <= l.limit /\ shown.length = l.marker + only
        \/ shown.length = only
    BY <1>1, <1>10, <1>14, <1>19
  <2> QED BY <1>1, <1>10, <2>1, <2>2
<1> QED BY <1>1, <1>10, <1>16, <1>17, <1>18, <1>19

-----------------------------------------------------------------------------
\* The screen after an update.
ScreenFits == tScreen.shown.length <= tScreen.layout.limit \/ tScreen.layout.status > tScreen.layout.limit
ScreenLast == tScreen.ended /\ tScreen.bare # "shown" => tScreen.shown = Render(tScreen.layout, tSegs, TRUE)

LEMMA ShowsFits ==
  ASSUME TShape, ScreenFits, NEW segs \in Seq(SegmentRow), NEW status \in BOOLEAN, NEW drawn, drawn = Shows(segs, status)
  PROVE  /\ drawn.shown.length <= tScreen.layout.limit \/ tScreen.layout.status > tScreen.layout.limit
         /\ status => drawn.shown = Render(tScreen.layout, segs, status)
<1>1. PICK text : text = Render(tScreen.layout, segs, status)
  OBVIOUS
<1>2. drawn.shown = IF text.length = 0 THEN tScreen.shown ELSE text
  BY <1>1 DEF Shows, TShape, ScreenShape
<1>3. tScreen.layout \in Layouts
  BY DEF TShape, ScreenShape
<1>4. /\ text.length <= tScreen.layout.limit \/ tScreen.layout.status > tScreen.layout.limit
      /\ status => text.length # 0
  BY <1>1, <1>3, RenderFits
<1> QED BY <1>1, <1>2, <1>4 DEF ScreenFits

LEMMA UpdateFits ==
  ASSUME TShape, ScreenFits, NEW segs \in Seq(SegmentRow), NEW status \in BOOLEAN, NEW force \in BOOLEAN,
         NEW screen \in Update(segs, status, force)
  PROVE  /\ screen.shown.length <= tScreen.layout.limit \/ tScreen.layout.status > tScreen.layout.limit
         /\ status /\ force => screen.shown = Render(tScreen.layout, segs, status)
<1>1. PICK drawn : drawn = Shows(segs, status)
  OBVIOUS
<1>2. /\ drawn.shown.length <= tScreen.layout.limit \/ tScreen.layout.status > tScreen.layout.limit
      /\ status => drawn.shown = Render(tScreen.layout, segs, status)
  BY <1>1, ShowsFits
<1>3. CASE force
  BY <1>1, <1>2, <1>3 DEF Update
<1>4. CASE ~force
  <2>1. PICK base \in {drawn, tScreen} : screen = [base EXCEPT !.status = status]
    BY <1>1, <1>4 DEF Update
  <2>2. screen.shown = base.shown
    BY <2>1
  <2> QED BY <1>2, <1>4, <2>1, <2>2 DEF ScreenFits
<1> QED BY <1>3, <1>4

\* Every event: the screen is updated, or the task ends with a forced update,
\* or who cancelled it writes over its screen.
LEMMA StepsUpdate ==
  ASSUME TShape, TNext
  PROVE  \/ ~tScreen.ended /\ \E status, force \in BOOLEAN : tScreen' \in Update(tSegs', status, force)
         \/ \E bare : tScreen' \in Ended(Update(tSegs', TRUE, TRUE), bare)
         \/ StoppedShown
<1>1. tScreen.status \in BOOLEAN /\ TRUE \in BOOLEAN /\ FALSE \in BOOLEAN
  BY DEF TShape, ScreenShape
<1>2. ASSUME NEW i \in Indices, NEW kind \in {"text", "thinking"}, SegmentStart(kind, i) \/ SegmentDelta(kind, i)
      PROVE  ~tScreen.ended /\ tScreen' \in Update(tSegs', TRUE, FALSE)
  BY <1>2 DEF SegmentStart, SegmentDelta, Hears, HearsMore
<1>3. ASSUME NEW i \in Indices, SegmentStop(i)
      PROVE  ~tScreen.ended /\ tScreen' \in Update(tSegs', tScreen.status, TRUE)
  BY <1>3 DEF SegmentStop, Hears
<1>4. ASSUME NEW i \in Indices, ToolUseDelta(i)
      PROVE  ~tScreen.ended /\ tScreen' \in Update(tSegs', TRUE, FALSE)
  BY <1>4 DEF ToolUseDelta, Hears
<1>5. ASSUME NEW i \in Indices, NEW id, ToolUse(id, i) \/ TaskUse(id, i)
      PROVE  ~tScreen.ended /\ tScreen' \in Update(tSegs', TRUE, FALSE)
  BY <1>5 DEF ToolUse, TaskUse, Hears
<1>6. ASSUME NEW id, NEW fed, ToolResult(id, fed)
      PROVE  ~tScreen.ended /\ tScreen' \in Update(tSegs', TRUE, FALSE)
  BY <1>6 DEF ToolResult, Hears
<1>7. ASSUME NEW k \in DOMAIN tFed.tasks, TaskResult(k)
      PROVE  ~tScreen.ended /\ tScreen' \in Update(tSegs', TRUE, FALSE)
  <2>1. \E id, fed : ToolResult(id, fed)
    BY <1>7 DEF TaskResult
  <2> QED BY <1>6, <2>1
<1>8. ASSUME NEW id \in tFed.tools, PlainResult(id)
      PROVE  ~tScreen.ended /\ tScreen' \in Update(tSegs', TRUE, FALSE)
  <2>1. \E fed : ToolResult(id, fed)
    BY <1>8 DEF PlainResult
  <2> QED BY <1>6, <2>1
<1>9. ASSUME ErrorShown PROVE ~tScreen.ended /\ tScreen' \in Update(tSegs', TRUE, TRUE)
  BY <1>9 DEF ErrorShown, Hears
<1>10. ASSUME ExitEvent \/ \E stopped \in BOOLEAN : CancelledTask(stopped)
       PROVE  \E bare : tScreen' \in Ended(Update(tSegs', TRUE, TRUE), bare)
  BY <1>10 DEF ExitEvent, CancelledTask
<1> QED BY <1>1, <1>2, <1>3, <1>4, <1>5, <1>7, <1>8, <1>9, <1>10 DEF TNext

LEMMA ScreenStep ==
  ASSUME TranscriptInv, TranscriptInv', ScreenFits, ScreenLast, [TNext]_tVars
  PROVE  ScreenFits' /\ ScreenLast'
<1>1. TShape /\ tSegs' \in Seq(SegmentRow)
  BY DEF TranscriptInv, TShape
<1>2. CASE UNCHANGED tVars
  BY <1>2 DEF tVars, ScreenFits, ScreenLast
<1>3. PICK segs, screen : segs = tSegs' /\ screen = tScreen'
  OBVIOUS
<1>4. ASSUME NEW status \in BOOLEAN, NEW force \in BOOLEAN, tScreen' \in Update(tSegs', status, force), ~tScreen.ended
      PROVE  ScreenFits' /\ ScreenLast'
  <2>1. screen \in Update(segs, status, force) /\ segs \in Seq(SegmentRow)
    BY <1>1, <1>3, <1>4
  <2>2. screen.layout = tScreen.layout /\ ~screen.ended
    BY <1>1, <1>4, <2>1, ScreenSteps
  <2>3. screen.shown.length <= tScreen.layout.limit \/ tScreen.layout.status > tScreen.layout.limit
    BY <1>1, <2>1, UpdateFits
  <2> QED BY <1>3, <2>2, <2>3 DEF ScreenFits, ScreenLast
<1>5. ASSUME NEW bare, tScreen' \in Ended(Update(tSegs', TRUE, TRUE), bare) PROVE ScreenFits' /\ ScreenLast'
  <2>1. PICK base \in Update(segs, TRUE, TRUE) : screen = [base EXCEPT !.ended = TRUE, !.bare = bare]
    BY <1>3, <1>5 DEF Ended
  <2>2. segs \in Seq(SegmentRow) /\ TRUE \in BOOLEAN
    BY <1>1, <1>3
  <2>3. base.layout = tScreen.layout
    BY <1>1, <2>1, <2>2, ScreenSteps
  <2>4. /\ base.shown.length <= tScreen.layout.limit \/ tScreen.layout.status > tScreen.layout.limit
        /\ base.shown = Render(tScreen.layout, segs, TRUE)
    BY <1>1, <2>1, <2>2, UpdateFits
  <2>5. screen.layout = tScreen.layout /\ screen.shown = base.shown
    BY <2>1, <2>3
  <2> QED BY <1>3, <2>4, <2>5 DEF ScreenFits, ScreenLast
<1>7. CASE StoppedShown
  <2>1. PICK text : text = [from |-> 0, tail |-> 0, length |-> tScreen.layout.status]
    OBVIOUS
  <2>2. tScreen' = [tScreen EXCEPT !.shown = text, !.bare = "shown"]
    BY <1>7, <2>1 DEF StoppedShown
  <2>3. DOMAIN tScreen = {"layout", "shown", "updated", "status", "ended", "bare"} /\ tScreen.layout \in Layouts
    BY <1>1 DEF TShape, ScreenShape
  <2>4. tScreen'.shown = text /\ tScreen'.bare = "shown" /\ tScreen'.layout = tScreen.layout
    BY <2>2, <2>3
  <2>5. text.length = tScreen.layout.status /\ tScreen.layout.status \in Nat /\ tScreen.layout.limit \in Nat
    BY <2>1, <2>3, TranscriptAssumption
  <2> QED BY <2>4, <2>5 DEF ScreenFits, ScreenLast
<1>6. CASE TNext
  BY <1>1, <1>4, <1>5, <1>6, <1>7, StepsUpdate
<1> QED BY <1>2, <1>6

\* What the editor shows fits the platform, ends with the newest segment where there is
\* room, and after the last event is the last transcript, unless who cancelled the task
\* wrote over it (TranscriptBuffer.render, ThrottledTranscriptEditor.update,
\* update_cancelled_nodes_ui).
THEOREM ScreenIsRight == TSpec => []ScreenRight
<1>1. TInit => TranscriptInv /\ ScreenFits /\ ScreenLast
  <2> SUFFICES ASSUME TInit PROVE ScreenFits /\ ScreenLast
    BY TranscriptInit
  <2>1. tScreen.shown = Nothing /\ ~tScreen.ended /\ tScreen.layout \in Layouts
    BY DEF TInit
  <2>2. Nothing.length = 0 /\ tScreen.layout.limit \in Nat
    BY <2>1, TranscriptAssumption DEF Nothing
  <2>3. tScreen.shown.length <= tScreen.layout.limit
    BY <2>1, <2>2
  <2> QED BY <2>1, <2>3 DEF ScreenFits, ScreenLast
<1>2. TranscriptInv /\ ScreenFits /\ ScreenLast /\ [TNext]_tVars => (TranscriptInv /\ ScreenFits /\ ScreenLast)'
  BY TranscriptStep, ScreenStep
<1>3. TranscriptInv /\ ScreenFits /\ ScreenLast => ScreenRight
  <2> SUFFICES ASSUME TranscriptInv, ScreenFits, ScreenLast PROVE ScreenRight
    OBVIOUS
  <2>1. PICK l : l = tScreen.layout
    OBVIOUS
  <2>2. PICK now : now = Render(l, tSegs, TRUE)
    OBVIOUS
  <2>3. l \in Layouts /\ tSegs \in Seq(SegmentRow)
    BY <2>1 DEF TranscriptInv, TShape, ScreenShape
  <2>4. Room(l, tSegs, TRUE) => now.from # 0 /\ now.length <= l.limit
    BY <2>2, <2>3, RenderFits
  <2>5. Visible(l, tSegs) # {} /\ l.limit - l.marker - l.status - 2 > l.least => Room(l, tSegs, TRUE)
    BY <2>3, TranscriptAssumption DEF Room, Budget
  <2> QED BY <2>1, <2>2, <2>4, <2>5 DEF ScreenRight, ScreenFits, ScreenLast
<1> QED BY <1>1, <1>2, <1>3, PTL DEF TSpec

-----------------------------------------------------------------------------
(***************************************************************************)
(* The parser of think tags.  ChunkingInvisible is not inductive: what was *)
(* emitted and what the buffer holds must be read like what was fed        *)
(* whatever the provider sends next, a tag across the boundary included.   *)
(* TagsInv says so for every continuation.                                 *)
(***************************************************************************)
\* A set of numbers that has 0 and each next one has them all.
LEMMA FromZero ==
  ASSUME NEW T, 0 \in T, \A n \in Nat : n \in T => n + 1 \in T
  PROVE  Nat \subseteq T
<1>1. PICK U : U = {n \in Nat : n \notin T}
  OBVIOUS
<1>2. SUFFICES ASSUME U # {} PROVE FALSE
  BY <1>1
<1>3. PICK n \in U : \A m \in U : n <= m
  <2>1. U \subseteq Nat
    BY <1>1
  <2> QED BY <1>2, <2>1, LeastNatural
<1>4. n \in Nat /\ n \notin T /\ n # 0
  BY <1>1, <1>3
<1>5. n - 1 \in Nat /\ (n - 1) + 1 = n /\ ~(n <= n - 1)
  BY <1>4
<1>6. n - 1 \in T
  BY <1>1, <1>3, <1>5
<1> QED BY <1>4, <1>5, <1>6

Associates(a, b, c) == (a \o b) \o c = a \o (b \o c)

\* Concatenation is associative.
LEMMA Associate == ASSUME NEW S, NEW a \in Seq(S), NEW b \in Seq(S), NEW c \in Seq(S) PROVE Associates(a, b, c)
<1>1. (a \o b) \o c = a \o (b \o c)
  BY ConcatAssociative, SMT
<1> QED BY <1>1 DEF Associates

Words == Seq(Alphabet)
Marks == Sides \X Alphabet

\* What is left of a word, letter by letter.
LEMMA Dropped ==
  ASSUME NEW s \in Words, NEW n \in 0..Len(s)
  PROVE  /\ Drop(s, n) \in Words
         /\ Len(Drop(s, n)) = Len(s) - n
         /\ \A i \in 1..(Len(s) - n) : Drop(s, n)[i] = s[n + i]
<1>1. Len(s) \in Nat /\ \A i \in 1..Len(s) : s[i] \in Alphabet
  BY ElementOfSeq, LenProperties DEF Words
<1>2. n + 1 \in Int /\ Len(s) \in Int /\ \A i \in (n + 1)..Len(s) : s[i] \in Alphabet
  BY <1>1
<1>3. /\ SubSeq(s, n + 1, Len(s)) \in Seq(Alphabet)
      /\ Len(SubSeq(s, n + 1, Len(s))) = IF n + 1 <= Len(s) THEN Len(s) - (n + 1) + 1 ELSE 0
      /\ \A i \in 1..(Len(s) - (n + 1) + 1) : SubSeq(s, n + 1, Len(s))[i] = s[(n + 1) + i - 1]
  BY <1>2, SubSeqProperties
<1>4. Len(SubSeq(s, n + 1, Len(s))) = Len(s) - n
  BY <1>1, <1>3
<1>5. PICK r : r = SubSeq(s, n + 1, Len(s))
  OBVIOUS
<1>6. ASSUME NEW i \in 1..(Len(s) - n) PROVE r[i] = s[n + i]
  <2>1. i \in 1..(Len(s) - (n + 1) + 1) /\ (n + 1) + i - 1 = n + i
    BY <1>1
  <2> QED BY <1>3, <1>5, <2>1
<1>7. r \in Words /\ Len(r) = Len(s) - n /\ Drop(s, n) = r
  BY <1>3, <1>4, <1>5 DEF Drop, Words
<1> QED BY <1>6, <1>7

\* The beginning of a word, letter by letter.
LEMMA Taken ==
  ASSUME NEW s \in Words, NEW n \in 0..Len(s)
  PROVE  Take(s, n) \in Words /\ Len(Take(s, n)) = n /\ \A i \in 1..n : Take(s, n)[i] = s[i]
<1>1. Len(s) \in Nat /\ \A i \in 1..Len(s) : s[i] \in Alphabet
  BY ElementOfSeq, LenProperties DEF Words
<1>2. n \in Int /\ \A i \in 1..n : s[i] \in Alphabet
  BY <1>1
<1>3. /\ SubSeq(s, 1, n) \in Seq(Alphabet)
      /\ Len(SubSeq(s, 1, n)) = IF 1 <= n THEN n - 1 + 1 ELSE 0
      /\ \A i \in 1..(n - 1 + 1) : SubSeq(s, 1, n)[i] = s[1 + i - 1]
  BY <1>2, SubSeqProperties
<1>4. n - 1 + 1 = n /\ \A i \in Int : 1 + i - 1 = i
  BY <1>2
<1>5. Len(SubSeq(s, 1, n)) = n
  BY <1>1, <1>3
<1> QED BY <1>3, <1>4, <1>5 DEF Take, Words

\* Words with the same letters are the same.
LEMMA SameWord ==
  ASSUME NEW a \in Words, NEW b \in Words, Len(a) = Len(b), \A i \in 1..Len(a) : a[i] = b[i] PROVE a = b
  BY SeqEqual DEF Words

\* Dropping twice, and dropping from a word that goes on.
LEMMA DropDrop ==
  ASSUME NEW s \in Words, NEW n \in 0..Len(s), NEW m \in 0..(Len(s) - n)
  PROVE  Drop(Drop(s, n), m) = Drop(s, n + m)
<1>1. Len(s) \in Nat /\ n + m \in 0..Len(s)
  BY LenProperties DEF Words
<1>2. PICK r : r = Drop(s, n)
  OBVIOUS
<1>3. r \in Words /\ Len(r) = Len(s) - n /\ \A i \in 1..(Len(s) - n) : r[i] = s[n + i]
  BY <1>2, Dropped
<1>4. m \in 0..Len(r)
  BY <1>3
<1>5. PICK a : a = Drop(r, m)
  OBVIOUS
<1>6. a \in Words /\ Len(a) = Len(r) - m /\ \A i \in 1..(Len(r) - m) : a[i] = r[m + i]
  BY <1>3, <1>4, <1>5, Dropped
<1>7. PICK b : b = Drop(s, n + m)
  OBVIOUS
<1>8. b \in Words /\ Len(b) = Len(s) - (n + m) /\ \A i \in 1..(Len(s) - (n + m)) : b[i] = s[(n + m) + i]
  BY <1>1, <1>7, Dropped
<1>9. Len(a) = Len(b) /\ \A i \in 1..Len(a) : a[i] = b[i]
  <2>1. ASSUME NEW i \in 1..Len(a) PROVE a[i] = b[i]
    <3>1. m + i \in 1..(Len(s) - n) /\ n + (m + i) = (n + m) + i /\ i \in 1..(Len(r) - m) /\ i \in 1..(Len(s) - (n + m))
      BY <1>1, <1>3, <1>6
    <3> QED BY <1>3, <1>6, <1>8, <3>1
  <2> QED BY <1>1, <1>3, <1>6, <1>8, <2>1
<1>10. a = b
  BY <1>6, <1>8, <1>9, SameWord
<1> QED BY <1>2, <1>5, <1>7, <1>10

LEMMA DropMore ==
  ASSUME NEW s \in Words, NEW t \in Words, NEW n \in 0..Len(s)
  PROVE  Drop(s \o t, n) = Drop(s, n) \o t
<1>1. Len(s) \in Nat /\ Len(t) \in Nat
  BY LenProperties DEF Words
<1>2. PICK u : u = s \o t
  OBVIOUS
<1>3. u \in Words /\ Len(u) = Len(s) + Len(t)
      /\ \A i \in 1..(Len(s) + Len(t)) : u[i] = IF i <= Len(s) THEN s[i] ELSE t[i - Len(s)]
  BY <1>2, ConcatProperties DEF Words
<1>4. PICK r : r = Drop(s, n)
  OBVIOUS
<1>5. r \in Words /\ Len(r) = Len(s) - n /\ \A i \in 1..(Len(s) - n) : r[i] = s[n + i]
  BY <1>4, Dropped
<1>6. PICK a : a = Drop(u, n)
  OBVIOUS
<1>7. n \in 0..Len(u)
  BY <1>1, <1>3
<1>8. a \in Words /\ Len(a) = Len(u) - n /\ \A i \in 1..(Len(u) - n) : a[i] = u[n + i]
  BY <1>3, <1>6, <1>7, Dropped
<1>9. PICK b : b = r \o t
  OBVIOUS
<1>10. b \in Words /\ Len(b) = Len(r) + Len(t)
       /\ \A i \in 1..(Len(r) + Len(t)) : b[i] = IF i <= Len(r) THEN r[i] ELSE t[i - Len(r)]
  BY <1>5, <1>9, ConcatProperties DEF Words
<1>11. Len(a) = Len(b)
  BY <1>1, <1>3, <1>5, <1>8, <1>10
<1>12. ASSUME NEW i \in 1..Len(a) PROVE a[i] = b[i]
  <2>1. n + i \in 1..(Len(s) + Len(t)) /\ i \in 1..(Len(u) - n) /\ i \in 1..(Len(r) + Len(t))
    BY <1>1, <1>3, <1>5, <1>8, <1>10, <1>11
  <2>2. CASE i <= Len(s) - n
    <3>1. i \in 1..(Len(s) - n) /\ n + i <= Len(s) /\ i <= Len(r)
      BY <1>1, <1>5, <2>1, <2>2
    <3>2. a[i] = s[n + i]
      BY <1>3, <1>8, <2>1, <3>1
    <3>3. b[i] = r[i]
      BY <1>10, <2>1, <3>1
    <3> QED BY <1>5, <3>1, <3>2, <3>3
  <2>3. CASE i > Len(s) - n
    <3>1. ~(n + i <= Len(s)) /\ ~(i <= Len(r)) /\ (n + i) - Len(s) = i - Len(r)
      BY <1>1, <1>5, <2>1, <2>3
    <3> QED BY <1>3, <1>8, <1>10, <2>1, <3>1
  <2> QED BY <1>1, <2>2, <2>3
<1>13. a = b
  BY <1>8, <1>10, <1>11, <1>12, SameWord
<1> QED BY <1>2, <1>4, <1>6, <1>9, <1>13

\* A word is its letters that are taken and those that are left; nothing
\* taken is nothing.
LEMMA DropNone == ASSUME NEW s \in Words PROVE Drop(s, 0) = s /\ Drop(s, Len(s)) = <<>> /\ Take(s, Len(s)) = s
<1>1. Len(s) \in Nat /\ 0 \in 0..Len(s) /\ Len(s) \in 0..Len(s)
  BY LenProperties DEF Words
<1>2. Drop(s, 0) = s
  <2>1. PICK r : r = Drop(s, 0)
    OBVIOUS
  <2>2. r \in Words /\ Len(r) = Len(s) /\ \A i \in 1..Len(s) : r[i] = s[i]
    <3>1. r \in Words /\ Len(r) = Len(s) - 0 /\ \A i \in 1..(Len(s) - 0) : r[i] = s[0 + i]
      BY <1>1, <2>1, Dropped
    <3> QED BY <1>1, <3>1
  <2>3. r = s
    BY <2>2, SameWord
  <2> QED BY <2>1, <2>3
<1>3. Drop(s, Len(s)) = <<>>
  BY <1>1, SubSeqEmpty DEF Drop
<1>4. Take(s, Len(s)) = s
  BY SubSeqFull DEF Take, Words
<1> QED BY <1>2, <1>3, <1>4

-----------------------------------------------------------------------------
CloseTagAt(s, i) == i + 3 <= Len(s) /\ s[i] = "<" /\ s[i + 1] = "/" /\ s[i + 2] = "t" /\ s[i + 3] = ">"
OpenTagAt(s, i) == i + 2 <= Len(s) /\ s[i] = "<" /\ s[i + 1] = "t" /\ s[i + 2] = ">"

\* A tag stands where its letters stand.
LEMMA TagLetters ==
  ASSUME NEW s \in Words, NEW i \in Nat \ {0}
  PROVE  (TagAt(s, CLOSE_TAG, i) <=> CloseTagAt(s, i)) /\ (TagAt(s, OPEN_TAG, i) <=> OpenTagAt(s, i))
<1>1. Len(s) \in Nat /\ \A j \in 1..Len(s) : s[j] \in Alphabet
  BY ElementOfSeq, LenProperties DEF Words
<1>2. TagAt(s, CLOSE_TAG, i) <=> CloseTagAt(s, i)
  <2>1. PICK tag : tag = CLOSE_TAG
    OBVIOUS
  <2>2. Len(tag) = 4 /\ tag \in Words /\ tag[1] = "<" /\ tag[2] = "/" /\ tag[3] = "t" /\ tag[4] = ">"
    BY <2>1 DEF CLOSE_TAG, Words, Alphabet
  <2>3. TagAt(s, tag, i) <=> i + 3 <= Len(s) /\ SubSeq(s, i, i + 3) = tag
    <3>1. i + Len(tag) - 1 = i + 3
      BY <2>2
    <3> QED BY <3>1 DEF TagAt
  <2>4. ASSUME i + 3 <= Len(s) PROVE SubSeq(s, i, i + 3) = tag <=> CloseTagAt(s, i)
    <3>1. i \in Int /\ i + 3 \in Int /\ \A j \in i..(i + 3) : s[j] \in Alphabet
      BY <1>1, <2>4
    <3>2. PICK r : r = SubSeq(s, i, i + 3)
      OBVIOUS
    <3>3. r \in Words /\ Len(r) = 4 /\ \A j \in 1..4 : r[j] = s[i + j - 1]
      BY <3>1, <3>2, SubSeqProperties DEF Words
    <3>4. r[1] = s[i] /\ r[2] = s[i + 1] /\ r[3] = s[i + 2] /\ r[4] = s[i + 3]
      BY <3>3
    <3>5. ASSUME CloseTagAt(s, i) PROVE r = tag
      <4>1. \A j \in 1..Len(r) : r[j] = tag[j]
        BY <2>2, <3>3, <3>4, <3>5 DEF CloseTagAt
      <4> QED BY <2>2, <3>3, <4>1, SameWord
    <3>6. ASSUME r = tag PROVE CloseTagAt(s, i)
      BY <2>2, <2>4, <3>4, <3>6 DEF CloseTagAt
    <3> QED BY <3>2, <3>5, <3>6
  <2> QED BY <2>1, <2>3, <2>4 DEF CloseTagAt
<1>3. TagAt(s, OPEN_TAG, i) <=> OpenTagAt(s, i)
  <2>1. PICK tag : tag = OPEN_TAG
    OBVIOUS
  <2>2. Len(tag) = 3 /\ tag \in Words /\ tag[1] = "<" /\ tag[2] = "t" /\ tag[3] = ">"
    BY <2>1 DEF OPEN_TAG, Words, Alphabet
  <2>3. TagAt(s, tag, i) <=> i + 2 <= Len(s) /\ SubSeq(s, i, i + 2) = tag
    <3>1. i + Len(tag) - 1 = i + 2
      BY <2>2
    <3> QED BY <3>1 DEF TagAt
  <2>4. ASSUME i + 2 <= Len(s) PROVE SubSeq(s, i, i + 2) = tag <=> OpenTagAt(s, i)
    <3>1. i \in Int /\ i + 2 \in Int /\ \A j \in i..(i + 2) : s[j] \in Alphabet
      BY <1>1, <2>4
    <3>2. PICK r : r = SubSeq(s, i, i + 2)
      OBVIOUS
    <3>3. r \in Words /\ Len(r) = 3 /\ \A j \in 1..3 : r[j] = s[i + j - 1]
      BY <3>1, <3>2, SubSeqProperties DEF Words
    <3>4. r[1] = s[i] /\ r[2] = s[i + 1] /\ r[3] = s[i + 2]
      BY <3>3
    <3>5. ASSUME OpenTagAt(s, i) PROVE r = tag
      <4>1. \A j \in 1..Len(r) : r[j] = tag[j]
        BY <2>2, <3>3, <3>4, <3>5 DEF OpenTagAt
      <4> QED BY <2>2, <3>3, <4>1, SameWord
    <3>6. ASSUME r = tag PROVE OpenTagAt(s, i)
      BY <2>2, <2>4, <3>4, <3>6 DEF OpenTagAt
    <3> QED BY <3>2, <3>5, <3>6
  <2> QED BY <2>1, <2>3, <2>4 DEF OpenTagAt
<1> QED BY <1>2, <1>3

\* A word is marked letter by letter.
LEMMA MarkedWord ==
  ASSUME NEW s \in Words, NEW side \in Sides
  PROVE  /\ Marked(s, side) \in Seq(Marks)
         /\ Len(Marked(s, side)) = Len(s)
         /\ \A i \in 1..Len(s) : Marked(s, side)[i] = <<side, s[i]>>
<1>1. Len(s) \in Nat /\ DOMAIN s = 1..Len(s) /\ \A j \in 1..Len(s) : s[j] \in Alphabet
  BY ElementOfSeq, LenProperties DEF Words
<1>2. PICK m : m = [i \in 1..Len(s) |-> <<side, s[i]>>]
  OBVIOUS
<1>3. Marked(s, side) = m
  BY <1>1, <1>2 DEF Marked
<1>4. m \in [1..Len(s) -> Marks]
  BY <1>1, <1>2 DEF Marks
<1>5. m \in Seq(Marks) /\ Len(m) = Len(s)
  BY <1>1, <1>4
<1> QED BY <1>2, <1>3, <1>5

\* A word is marked piece by piece.
LEMMA MarkedConcat ==
  ASSUME NEW a \in Words, NEW b \in Words, NEW side \in Sides
  PROVE  Marked(a \o b, side) = Marked(a, side) \o Marked(b, side)
<1>1. Len(a) \in Nat /\ Len(b) \in Nat
  BY LenProperties DEF Words
<1>2. PICK c : c = a \o b
  OBVIOUS
<1>3. c \in Words /\ Len(c) = Len(a) + Len(b)
      /\ \A i \in 1..(Len(a) + Len(b)) : c[i] = IF i <= Len(a) THEN a[i] ELSE b[i - Len(a)]
  BY <1>2, ConcatProperties DEF Words
<1>4. PICK p : p = Marked(a, side)
  OBVIOUS
<1>5. p \in Seq(Marks) /\ Len(p) = Len(a) /\ \A i \in 1..Len(a) : p[i] = <<side, a[i]>>
  BY <1>4, MarkedWord
<1>6. PICK q : q = Marked(b, side)
  OBVIOUS
<1>7. q \in Seq(Marks) /\ Len(q) = Len(b) /\ \A i \in 1..Len(b) : q[i] = <<side, b[i]>>
  BY <1>6, MarkedWord
<1>8. PICK m : m = Marked(c, side)
  OBVIOUS
<1>9. m \in Seq(Marks) /\ Len(m) = Len(c) /\ \A i \in 1..Len(c) : m[i] = <<side, c[i]>>
  BY <1>3, <1>8, MarkedWord
<1>10. PICK w : w = p \o q
  OBVIOUS
<1>11. w \in Seq(Marks) /\ Len(w) = Len(p) + Len(q)
       /\ \A i \in 1..(Len(p) + Len(q)) : w[i] = IF i <= Len(p) THEN p[i] ELSE q[i - Len(p)]
  <2>1. /\ p \o q \in Seq(Marks)
        /\ Len(p \o q) = Len(p) + Len(q)
        /\ \A i \in 1..(Len(p) + Len(q)) : (p \o q)[i] = IF i <= Len(p) THEN p[i] ELSE q[i - Len(p)]
    <3>1. p \in Seq(Marks) /\ q \in Seq(Marks)
      BY <1>5, <1>7
    <3> QED BY <3>1, ConcatProperties
  <2> QED BY <1>10, <2>1
<1>12. ASSUME NEW i \in 1..Len(m) PROVE m[i] = w[i]
  <2>1. i \in 1..(Len(a) + Len(b)) /\ i \in 1..(Len(p) + Len(q)) /\ i \in 1..Len(c)
    BY <1>3, <1>5, <1>7, <1>9
  <2>2. CASE i <= Len(a)
    <3>1. i \in 1..Len(a) /\ i <= Len(p)
      BY <1>5, <2>1, <2>2
    <3> QED BY <1>3, <1>5, <1>9, <1>11, <2>1, <3>1
  <2>3. CASE ~(i <= Len(a))
    <3>1. i - Len(a) \in 1..Len(b) /\ ~(i <= Len(p)) /\ i - Len(p) = i - Len(a)
      BY <1>1, <1>5, <2>1, <2>3
    <3> QED BY <1>3, <1>7, <1>9, <1>11, <2>1, <2>3, <3>1
  <2> QED BY <2>2, <2>3
<1>13. Len(m) = Len(w)
  BY <1>3, <1>5, <1>7, <1>9, <1>11
<1>14. m = w
  BY <1>9, <1>11, <1>12, <1>13, SeqEqual
<1> QED BY <1>2, <1>4, <1>6, <1>8, <1>10, <1>14

-----------------------------------------------------------------------------
\* A letter of rest is read on side d, with f what is read after it.
ReadHere(f, n, rest, d) ==
  CASE n = 0 -> <<>>
    [] n # 0 /\ TagAt(rest, CLOSE_TAG, 1) -> f[n - Len(CLOSE_TAG)]["text"]
    [] n # 0 /\ d = "text" /\ TagAt(rest, OPEN_TAG, 1) -> f[n - Len(OPEN_TAG)]["thinking"]
    [] OTHER -> Marked(Take(rest, 1), d) \o f[n - 1][d]

\* The three ways to read it.
LEMMA ReadCases ==
  ASSUME NEW f, NEW rest \in Words, NEW d \in Sides, NEW n \in Nat, n = Len(rest)
  PROVE  /\ n = 0 => ReadHere(f, n, rest, d) = <<>>
         /\ CloseTagAt(rest, 1) => n >= 4 /\ ReadHere(f, n, rest, d) = f[n - 4]["text"]
         /\ OpenTagAt(rest, 1) /\ d = "text" => n >= 3 /\ ReadHere(f, n, rest, d) = f[n - 3]["thinking"]
         /\ n # 0 /\ ~CloseTagAt(rest, 1) /\ ~(OpenTagAt(rest, 1) /\ d = "text")
              => ReadHere(f, n, rest, d) = Marked(Take(rest, 1), d) \o f[n - 1][d]
<1>1. (TagAt(rest, CLOSE_TAG, 1) <=> CloseTagAt(rest, 1)) /\ (TagAt(rest, OPEN_TAG, 1) <=> OpenTagAt(rest, 1))
  BY TagLetters
<1>2. Len(CLOSE_TAG) = 4 /\ Len(OPEN_TAG) = 3
  BY DEF CLOSE_TAG, OPEN_TAG
<1>3. ~(CloseTagAt(rest, 1) /\ OpenTagAt(rest, 1))
  BY DEF CloseTagAt, OpenTagAt
<1>4. (CloseTagAt(rest, 1) => n >= 4) /\ (OpenTagAt(rest, 1) => n >= 3)
  BY DEF CloseTagAt, OpenTagAt
<1>5. PICK plain : plain = Marked(Take(rest, 1), d) \o f[n - 1][d]
  OBVIOUS
<1>6. PICK c : c = f[n - 4]["text"]
  OBVIOUS
<1>7. PICK o : o = f[n - 3]["thinking"]
  OBVIOUS
<1>8. PICK none : none = <<>>
  OBVIOUS
<1>9. ReadHere(f, n, rest, d) =
        CASE n = 0 -> none
          [] n # 0 /\ CloseTagAt(rest, 1) -> c
          [] n # 0 /\ d = "text" /\ OpenTagAt(rest, 1) -> o
          [] OTHER -> plain
  BY <1>1, <1>2, <1>5, <1>6, <1>7, <1>8 DEF ReadHere
<1>10. CASE n = 0
  BY <1>4, <1>8, <1>9, <1>10
<1>11. CASE n # 0 /\ CloseTagAt(rest, 1)
  BY <1>3, <1>4, <1>6, <1>9, <1>11
<1>12. CASE n # 0 /\ ~CloseTagAt(rest, 1) /\ d = "text" /\ OpenTagAt(rest, 1)
  BY <1>4, <1>7, <1>9, <1>12
<1>13. CASE n # 0 /\ ~CloseTagAt(rest, 1) /\ ~(d = "text" /\ OpenTagAt(rest, 1))
  BY <1>5, <1>9, <1>13
<1> QED BY <1>10, <1>11, <1>12, <1>13

\* What is read here depends on what is read after it alone.
LEMMA ReadAgrees ==
  ASSUME NEW f, NEW g, NEW rest \in Words, NEW d \in Sides, NEW n \in Nat, n = Len(rest),
         \A m \in 0..(n - 1) : f[m] = g[m]
  PROVE  ReadHere(f, n, rest, d) = ReadHere(g, n, rest, d)
<1>1. CASE n = 0
  <2>1. ReadHere(f, n, rest, d) = <<>> /\ ReadHere(g, n, rest, d) = <<>>
    BY <1>1, ReadCases
  <2> QED BY <2>1
<1>2. CASE CloseTagAt(rest, 1)
  <2>1. n >= 4 /\ ReadHere(f, n, rest, d) = f[n - 4]["text"] /\ ReadHere(g, n, rest, d) = g[n - 4]["text"]
    BY <1>2, ReadCases
  <2>2. n - 4 \in 0..(n - 1)
    BY <2>1
  <2> QED BY <2>1, <2>2
<1>3. CASE OpenTagAt(rest, 1) /\ d = "text"
  <2>1. n >= 3 /\ ReadHere(f, n, rest, d) = f[n - 3]["thinking"] /\ ReadHere(g, n, rest, d) = g[n - 3]["thinking"]
    BY <1>3, ReadCases
  <2>2. n - 3 \in 0..(n - 1)
    BY <2>1
  <2> QED BY <2>1, <2>2
<1>4. CASE n # 0 /\ ~CloseTagAt(rest, 1) /\ ~(OpenTagAt(rest, 1) /\ d = "text")
  <2>1. /\ ReadHere(f, n, rest, d) = Marked(Take(rest, 1), d) \o f[n - 1][d]
        /\ ReadHere(g, n, rest, d) = Marked(Take(rest, 1), d) \o g[n - 1][d]
    BY <1>4, ReadCases
  <2>2. n - 1 \in 0..(n - 1)
    BY <1>4
  <2> QED BY <2>1, <2>2
<1> QED BY <1>1, <1>2, <1>3, <1>4

\* f reads the letters of s from its end, as far as the last len.
ReadUpTo(f, s, len) ==
  f = [n \in 0..len |-> [d \in Sides |-> ReadHere(f, n, Drop(s, Len(s) - n), d)]]

\* The recursion of Reading has a solution.
LEMMA ReadExists == ASSUME NEW s \in Words, NEW len \in 0..Len(s) PROVE \E f : ReadUpTo(f, s, len)
<1>1. Len(s) \in Nat
  BY LenProperties DEF Words
<1>2. PICK T : T = {k \in Nat : k <= Len(s) => \E f : ReadUpTo(f, s, k)}
  OBVIOUS
<1>3. ASSUME NEW k \in 0..Len(s), NEW f, NEW h, \A m \in 0..(k - 1) : h[m] = f[m],
             h = [n \in 0..k |-> [d \in Sides |-> ReadHere(f, n, Drop(s, Len(s) - n), d)]]
      PROVE  ReadUpTo(h, s, k)
  <2>1. ASSUME NEW n \in 0..k PROVE [d \in Sides |-> ReadHere(f, n, Drop(s, Len(s) - n), d)]
                                  = [d \in Sides |-> ReadHere(h, n, Drop(s, Len(s) - n), d)]
    <3>1. PICK rest : rest = Drop(s, Len(s) - n)
      OBVIOUS
    <3>2. rest \in Words /\ Len(rest) = n /\ n \in Nat
      <4>1. Len(s) - n \in 0..Len(s) /\ Len(s) - (Len(s) - n) = n /\ n \in Nat
        BY <1>1
      <4> QED BY <3>1, <4>1, Dropped
    <3>3. \A m \in 0..(n - 1) : f[m] = h[m]
      <4>1. \A m \in 0..(k - 1) : h[m] = f[m]
        BY <1>3
      <4>2. k \in Nat /\ \A m \in 0..(n - 1) : m \in 0..(k - 1)
        BY <1>1
      <4> QED BY <4>1, <4>2
    <3>4. \A d \in Sides : ReadHere(f, n, rest, d) = ReadHere(h, n, rest, d)
      BY <3>2, <3>3, ReadAgrees
    <3> QED BY <3>1, <3>4
  <2>2. [n \in 0..k |-> [d \in Sides |-> ReadHere(f, n, Drop(s, Len(s) - n), d)]]
      = [n \in 0..k |-> [d \in Sides |-> ReadHere(h, n, Drop(s, Len(s) - n), d)]]
    BY <2>1
  <2> QED BY <1>3, <2>2 DEF ReadUpTo
<1>4. 0 \in T
  <2>1. PICK f : f = <<>>
    OBVIOUS
  <2>2. PICK h : h = [n \in 0..0 |-> [d \in Sides |-> ReadHere(f, n, Drop(s, Len(s) - n), d)]]
    OBVIOUS
  <2>3. 0 \in 0..Len(s) /\ \A m \in 0..(0 - 1) : h[m] = f[m]
    BY <1>1
  <2>4. ReadUpTo(h, s, 0)
    BY <1>3, <2>2, <2>3
  <2> QED BY <1>2, <2>4
<1>5. ASSUME NEW k \in Nat, k \in T PROVE k + 1 \in T
  <2>1. SUFFICES ASSUME k + 1 <= Len(s) PROVE \E f : ReadUpTo(f, s, k + 1)
    BY <1>2
  <2>2. k <= Len(s) /\ k + 1 \in 0..Len(s) /\ (k + 1) - 1 = k
    BY <1>1, <2>1
  <2>3. PICK f : ReadUpTo(f, s, k)
    BY <1>2, <1>5, <2>2
  <2>4. PICK h : h = [n \in 0..(k + 1) |-> [d \in Sides |-> ReadHere(f, n, Drop(s, Len(s) - n), d)]]
    OBVIOUS
  <2>5. ASSUME NEW m \in 0..k PROVE h[m] = f[m]
    <3>1. m \in 0..(k + 1)
      OBVIOUS
    <3>2. h[m] = [d \in Sides |-> ReadHere(f, m, Drop(s, Len(s) - m), d)]
      BY <2>4, <3>1
    <3>3. f[m] = [d \in Sides |-> ReadHere(f, m, Drop(s, Len(s) - m), d)]
      BY <2>3 DEF ReadUpTo
    <3> QED BY <3>2, <3>3
  <2>6. ReadUpTo(h, s, k + 1)
    BY <1>3, <2>2, <2>4, <2>5
  <2> QED BY <2>6
<1>6. Nat \subseteq T
  BY <1>4, <1>5, FromZero
<1> QED BY <1>1, <1>2, <1>6

\* What the recursion of Reading leaves.
LEMMA ReadingHas ==
  ASSUME NEW s \in Words
  PROVE  \E f : ReadUpTo(f, s, Len(s)) /\ \A d : Reading(s, d) = f[Len(s)][d]
<1>1. PICK f : f = CHOOSE g : ReadUpTo(g, s, Len(s))
  OBVIOUS
<1>2. Len(s) \in Nat /\ Len(s) \in 0..Len(s)
  BY LenProperties DEF Words
<1>3. ReadUpTo(f, s, Len(s))
  BY <1>1, <1>2, ReadExists
<1>4. \A d : Reading(s, d) = f[Len(s)][d]
  BY <1>1 DEF Reading, ReadUpTo, ReadHere
<1> QED BY <1>3, <1>4

\* What is left of a word is read as it is read in the word.
LEMMA ReadSuffix ==
  ASSUME NEW s \in Words, NEW k \in 0..Len(s), NEW f, ReadUpTo(f, s, Len(s)), NEW d \in Sides
  PROVE  Reading(Drop(s, k), d) = f[Len(s) - k][d]
<1>1. Len(s) \in Nat
  BY LenProperties DEF Words
<1>2. PICK r : r = Drop(s, k)
  OBVIOUS
<1>3. r \in Words /\ Len(r) = Len(s) - k
  BY <1>2, Dropped
<1>4. PICK g : ReadUpTo(g, r, Len(r)) /\ \A e : Reading(r, e) = g[Len(r)][e]
  BY <1>3, ReadingHas
<1>5. PICK T : T = {n \in Nat : \A m \in 0..Len(r) : m <= n => f[m] = g[m]}
  OBVIOUS
<1>6. ASSUME NEW n \in 0..Len(r), \A m \in 0..(n - 1) : f[m] = g[m] PROVE f[n] = g[n]
  <2>1. n \in Nat /\ n \in 0..Len(s) /\ Len(s) - n = k + (Len(r) - n) /\ Len(r) - n \in 0..(Len(s) - k)
    BY <1>1, <1>3
  <2>2. PICK rest : rest = Drop(s, Len(s) - n)
    OBVIOUS
  <2>3. rest \in Words /\ Len(rest) = n
    <3>1. Len(s) - n \in 0..Len(s) /\ Len(s) - (Len(s) - n) = n
      BY <1>1, <2>1
    <3> QED BY <2>2, <3>1, Dropped
  <2>4. rest = Drop(r, Len(r) - n)
    BY <1>2, <2>1, <2>2, DropDrop
  <2>5. f[n] = [e \in Sides |-> ReadHere(f, n, rest, e)]
    BY <2>1, <2>2 DEF ReadUpTo
  <2>6. g[n] = [e \in Sides |-> ReadHere(g, n, rest, e)]
    BY <1>4, <2>4 DEF ReadUpTo
  <2>7. ASSUME NEW e \in Sides PROVE ReadHere(f, n, rest, e) = ReadHere(g, n, rest, e)
    <3>1. n \in Nat /\ n = Len(rest)
      BY <2>1, <2>3
    <3> QED BY <1>6, <2>3, <3>1, ReadAgrees
  <2> QED BY <2>5, <2>6, <2>7
<1>7. 0 \in T
  <2>1. 0 \in 0..Len(r) /\ \A m \in 0..(0 - 1) : f[m] = g[m]
    BY <1>1, <1>3
  <2>2. f[0] = g[0]
    BY <1>6, <2>1
  <2>3. ASSUME NEW m \in 0..Len(r), m <= 0 PROVE f[m] = g[m]
    <3>1. m = 0
      BY <2>3
    <3> QED BY <2>2, <3>1
  <2> QED BY <1>5, <2>3
<1>8. ASSUME NEW n \in Nat, n \in T PROVE n + 1 \in T
  <2>1. \A m \in 0..Len(r) : m <= n => f[m] = g[m]
    BY <1>5, <1>8
  <2>2. ASSUME NEW m \in 0..Len(r), m <= n + 1 PROVE f[m] = g[m]
    <3>1. CASE m <= n
      BY <2>1, <3>1
    <3>2. CASE m = n + 1
      <4>1. \A i \in 0..(m - 1) : i \in 0..Len(r) /\ i <= n
        BY <1>1, <1>3, <3>2
      <4>2. \A i \in 0..(m - 1) : f[i] = g[i]
        BY <2>1, <4>1
      <4> QED BY <1>6, <4>2
    <3> QED BY <2>2, <3>1, <3>2
  <2> QED BY <1>5, <2>2
<1>9. Nat \subseteq T
  BY <1>7, <1>8, FromZero
<1>10. f[Len(r)] = g[Len(r)]
  <2>1. Len(r) \in Nat /\ Len(r) \in 0..Len(r)
    BY <1>1, <1>3
  <2> QED BY <1>5, <1>9, <2>1
<1> QED BY <1>2, <1>3, <1>4, <1>10

\* The four ways to read a word: nothing, a closing tag, an opening tag, a
\* letter.
LEMMA ReadingSteps ==
  ASSUME NEW s \in Words, NEW d \in Sides
  PROVE  /\ Len(s) = 0 => Reading(s, d) = <<>>
         /\ CloseTagAt(s, 1) => Reading(s, d) = Reading(Drop(s, 4), "text")
         /\ OpenTagAt(s, 1) /\ d = "text" => Reading(s, d) = Reading(Drop(s, 3), "thinking")
         /\ Len(s) # 0 /\ ~CloseTagAt(s, 1) /\ ~(OpenTagAt(s, 1) /\ d = "text")
              => Reading(s, d) = Marked(Take(s, 1), d) \o Reading(Drop(s, 1), d)
<1>1. PICK n : n = Len(s)
  OBVIOUS
<1>2. n \in Nat /\ n \in 0..n /\ n - n = 0 /\ n - 0 = n
  BY <1>1, LenProperties DEF Words
<1>3. PICK f : ReadUpTo(f, s, Len(s)) /\ \A e : Reading(s, e) = f[n][e]
  BY <1>1, ReadingHas
<1>4. f[n][d] = ReadHere(f, n, s, d)
  <2>1. Drop(s, n - n) = s
    BY <1>2, DropNone
  <2> QED BY <1>1, <1>2, <1>3, <2>1 DEF ReadUpTo
<1>5. Reading(s, d) = ReadHere(f, n, s, d)
  BY <1>3, <1>4
<1>6. \A k \in 0..n, e \in Sides : Reading(Drop(s, k), e) = f[n - k][e]
  BY <1>1, <1>3, ReadSuffix
<1>7. "text" \in Sides /\ "thinking" \in Sides
  BY DEF Sides
<1>8. n = 0 => Reading(s, d) = <<>>
  BY <1>1, <1>2, <1>5, ReadCases
<1>9. ASSUME CloseTagAt(s, 1) PROVE Reading(s, d) = Reading(Drop(s, 4), "text")
  <2>1. n >= 4 /\ Reading(s, d) = f[n - 4]["text"]
    BY <1>1, <1>2, <1>5, <1>9, ReadCases
  <2>2. 4 \in 0..n
    BY <1>2, <2>1
  <2> QED BY <1>6, <1>7, <2>1, <2>2
<1>10. ASSUME OpenTagAt(s, 1), d = "text" PROVE Reading(s, d) = Reading(Drop(s, 3), "thinking")
  <2>1. n >= 3 /\ Reading(s, d) = f[n - 3]["thinking"]
    BY <1>1, <1>2, <1>5, <1>10, ReadCases
  <2>2. 3 \in 0..n
    BY <1>2, <2>1
  <2> QED BY <1>6, <1>7, <2>1, <2>2
<1>11. ASSUME n # 0, ~CloseTagAt(s, 1), ~(OpenTagAt(s, 1) /\ d = "text")
       PROVE  Reading(s, d) = Marked(Take(s, 1), d) \o Reading(Drop(s, 1), d)
  <2>1. Reading(s, d) = Marked(Take(s, 1), d) \o f[n - 1][d]
    <3>1. n \in Nat /\ n = Len(s)
      BY <1>1, <1>2
    <3>2. ReadHere(f, n, s, d) = Marked(Take(s, 1), d) \o f[n - 1][d]
      BY <1>11, <3>1, ReadCases
    <3> QED BY <1>5, <3>2
  <2>2. 1 \in 0..n
    BY <1>2, <1>11
  <2> QED BY <1>6, <2>1, <2>2
<1> QED BY <1>1, <1>8, <1>9, <1>10, <1>11

\* A reading is of marked letters.
LEMMA ReadingMarks == ASSUME NEW s \in Words, NEW d \in Sides PROVE Reading(s, d) \in Seq(Marks)
<1>1. PICK T : T = {n \in Nat : \A w \in Words, e \in Sides : Len(w) <= n => Reading(w, e) \in Seq(Marks)}
  OBVIOUS
<1>2. \A w \in Words, e \in Sides : Len(w) = 0 => Reading(w, e) \in Seq(Marks)
  <2>1. <<>> \in Seq(Marks)
    OBVIOUS
  <2> QED BY <2>1, ReadingSteps
<1>3. 0 \in T
  <2>1. \A w \in Words : Len(w) <= 0 => Len(w) = 0
    BY LenProperties DEF Words
  <2> QED BY <1>1, <1>2, <2>1
<1>4. ASSUME NEW n \in Nat, n \in T PROVE n + 1 \in T
  <2>1. ASSUME NEW w \in Words, NEW e \in Sides, Len(w) <= n + 1 PROVE Reading(w, e) \in Seq(Marks)
    <3>1. Len(w) \in Nat
      BY LenProperties DEF Words
    <3>2. ASSUME NEW k \in 1..Len(w), NEW o \in Sides PROVE Reading(Drop(w, k), o) \in Seq(Marks)
      <4>1. Drop(w, k) \in Words /\ Len(Drop(w, k)) <= n
        <5>1. k \in 0..Len(w) /\ Len(w) - k <= n
          BY <2>1, <3>1
        <5> QED BY <5>1, Dropped
      <4> QED BY <1>1, <1>4, <4>1
    <3>3. "text" \in Sides /\ "thinking" \in Sides
      BY DEF Sides
    <3>4. CASE Len(w) = 0
      BY <1>2, <3>4
    <3>5. CASE CloseTagAt(w, 1)
      <4>1. 4 \in 1..Len(w)
        BY <3>1, <3>5 DEF CloseTagAt
      <4>2. Reading(w, e) = Reading(Drop(w, 4), "text")
        BY <3>5, ReadingSteps
      <4> QED BY <3>2, <3>3, <4>1, <4>2
    <3>6. CASE OpenTagAt(w, 1) /\ e = "text"
      <4>1. 3 \in 1..Len(w)
        BY <3>1, <3>6 DEF OpenTagAt
      <4>2. Reading(w, e) = Reading(Drop(w, 3), "thinking")
        BY <3>6, ReadingSteps
      <4> QED BY <3>2, <3>3, <4>1, <4>2
    <3>7. CASE Len(w) # 0 /\ ~CloseTagAt(w, 1) /\ ~(OpenTagAt(w, 1) /\ e = "text")
      <4>1. 1 \in 1..Len(w) /\ 1 \in 0..Len(w)
        BY <3>1, <3>7
      <4>2. Reading(w, e) = Marked(Take(w, 1), e) \o Reading(Drop(w, 1), e)
        BY <3>7, ReadingSteps
      <4>3. PICK a : a = Marked(Take(w, 1), e)
        OBVIOUS
      <4>4. a \in Seq(Marks)
        <5>1. Take(w, 1) \in Words
          BY <4>1, Taken
        <5> QED BY <4>3, <5>1, MarkedWord
      <4>5. PICK b : b = Reading(Drop(w, 1), e)
        OBVIOUS
      <4>6. b \in Seq(Marks)
        BY <3>2, <4>1, <4>5
      <4>7. a \o b \in Seq(Marks)
        BY <4>4, <4>6, ConcatProperties
      <4> QED BY <4>2, <4>3, <4>5, <4>7
    <3> QED BY <3>4, <3>5, <3>6, <3>7
  <2> QED BY <1>1, <2>1
<1>5. Nat \subseteq T
  BY <1>3, <1>4, FromZero
<1>6. Len(s) \in Nat /\ Len(s) <= Len(s)
  BY LenProperties DEF Words
<1> QED BY <1>1, <1>5, <1>6

\* A tag the parser minds on side d begins at i.
TagOn(s, d, i) == CloseTagAt(s, i) \/ (d = "text" /\ OpenTagAt(s, i))

\* The tags of what is left are those of the word.
LEMMA TagsLeft ==
  ASSUME NEW s \in Words, NEW n \in 0..Len(s), NEW i \in Nat \ {0}
  PROVE  (CloseTagAt(Drop(s, n), i) <=> CloseTagAt(s, n + i)) /\ (OpenTagAt(Drop(s, n), i) <=> OpenTagAt(s, n + i))
<1>1. Len(s) \in Nat
  BY LenProperties DEF Words
<1>2. PICK r : r = Drop(s, n)
  OBVIOUS
<1>3. Len(r) = Len(s) - n /\ \A j \in 1..(Len(s) - n) : r[j] = s[n + j]
  BY <1>2, Dropped
<1>4. /\ n + (i + 1) = (n + i) + 1 /\ n + (i + 2) = (n + i) + 2 /\ n + (i + 3) = (n + i) + 3
      /\ i + 3 <= Len(r) <=> (n + i) + 3 <= Len(s)
      /\ i + 2 <= Len(r) <=> (n + i) + 2 <= Len(s)
  BY <1>1, <1>3
<1>5. ASSUME i + 2 <= Len(r) PROVE r[i] = s[n + i] /\ r[i + 1] = s[(n + i) + 1] /\ r[i + 2] = s[(n + i) + 2]
  <2>1. i \in 1..(Len(s) - n) /\ i + 1 \in 1..(Len(s) - n) /\ i + 2 \in 1..(Len(s) - n)
    BY <1>1, <1>3, <1>5
  <2>2. r[i] = s[n + i] /\ r[i + 1] = s[n + (i + 1)] /\ r[i + 2] = s[n + (i + 2)]
    BY <1>3, <2>1
  <2> QED BY <1>4, <2>2
<1>6. ASSUME i + 3 <= Len(r) PROVE r[i + 3] = s[(n + i) + 3]
  <2>1. i + 3 \in 1..(Len(s) - n)
    BY <1>1, <1>3, <1>6
  <2>2. r[i + 3] = s[n + (i + 3)]
    BY <1>3, <2>1
  <2> QED BY <1>4, <2>2
<1>7. i + 3 <= Len(r) => i + 2 <= Len(r)
  BY <1>1, <1>3
<1> QED BY <1>2, <1>4, <1>5, <1>6, <1>7 DEF CloseTagAt, OpenTagAt

\* One letter more is taken.
LEMMA TakeMore ==
  ASSUME NEW s \in Words, NEW n \in Nat, n + 1 <= Len(s)
  PROVE  Take(s, n + 1) = Take(s, n) \o Take(Drop(s, n), 1)
<1>1. Len(s) \in Nat /\ n \in 0..Len(s) /\ n + 1 \in 0..Len(s)
  BY LenProperties DEF Words
<1>2. PICK r : r = Drop(s, n)
  OBVIOUS
<1>3. r \in Words /\ Len(r) = Len(s) - n /\ \A j \in 1..(Len(s) - n) : r[j] = s[n + j]
  BY <1>1, <1>2, Dropped
<1>4. PICK a : a = Take(s, n)
  OBVIOUS
<1>5. a \in Words /\ Len(a) = n /\ \A i \in 1..n : a[i] = s[i]
  BY <1>1, <1>4, Taken
<1>6. PICK b : b = Take(r, 1)
  OBVIOUS
<1>7. b \in Words /\ Len(b) = 1 /\ b[1] = s[n + 1]
  <2>1. 1 \in 0..Len(r) /\ 1 \in 1..(Len(s) - n) /\ 1 \in 1..1
    BY <1>1, <1>3
  <2>2. b \in Words /\ Len(b) = 1 /\ b[1] = r[1]
    BY <1>3, <1>6, <2>1, Taken
  <2> QED BY <1>3, <2>1, <2>2
<1>8. PICK c : c = Take(s, n + 1)
  OBVIOUS
<1>9. c \in Words /\ Len(c) = n + 1 /\ \A i \in 1..(n + 1) : c[i] = s[i]
  BY <1>1, <1>8, Taken
<1>10. PICK u : u = a \o b
  OBVIOUS
<1>11. u \in Words /\ Len(u) = n + 1 /\ \A i \in 1..(n + 1) : u[i] = IF i <= n THEN a[i] ELSE b[i - n]
  <2>1. /\ a \o b \in Words
        /\ Len(a \o b) = Len(a) + Len(b)
        /\ \A i \in 1..(Len(a) + Len(b)) : (a \o b)[i] = IF i <= Len(a) THEN a[i] ELSE b[i - Len(a)]
    BY <1>5, <1>7, ConcatProperties DEF Words
  <2> QED BY <1>5, <1>7, <1>10, <2>1
<1>12. ASSUME NEW i \in 1..Len(c) PROVE c[i] = u[i]
  <2>1. i \in 1..(n + 1)
    BY <1>9
  <2>2. CASE i <= n
    <3>1. i \in 1..n
      BY <2>1, <2>2
    <3> QED BY <1>5, <1>9, <1>11, <2>1, <2>2, <3>1
  <2>3. CASE i = n + 1
    <3>1. ~(i <= n) /\ i - n = 1
      BY <2>3
    <3> QED BY <1>7, <1>9, <1>11, <2>1, <2>3, <3>1
  <2> QED BY <2>1, <2>2, <2>3
<1>13. c = u
  BY <1>9, <1>11, <1>12, SameWord
<1> QED BY <1>2, <1>4, <1>6, <1>8, <1>10, <1>13

\* Where no tag begins the letters are kept where they stand.
LEMMA ReadPlain ==
  ASSUME NEW s \in Words, NEW d \in Sides, NEW k \in 0..Len(s), \A i \in 1..k : ~TagOn(s, d, i)
  PROVE  Reading(s, d) = Marked(Take(s, k), d) \o Reading(Drop(s, k), d)
<1>1. Len(s) \in Nat /\ k \in Nat /\ k <= Len(s)
  BY LenProperties DEF Words
<1>2. PICK T : T = {n \in Nat : n <= k => Reading(s, d) = Marked(Take(s, n), d) \o Reading(Drop(s, n), d)}
  OBVIOUS
<1>3. 0 \in T
  <2>1. Drop(s, 0) = s
    BY DropNone
  <2>2. PICK none : none = <<>>
    OBVIOUS
  <2>3. Marked(Take(s, 0), d) = none
    <3>1. 0 \in 0..Len(s)
      BY <1>1
    <3>2. Take(s, 0) \in Words /\ Len(Take(s, 0)) = 0
      BY <3>1, Taken
    <3>3. Marked(Take(s, 0), d) \in Seq(Marks) /\ Len(Marked(Take(s, 0), d)) = 0
      BY <3>2, MarkedWord
    <3> QED BY <2>2, <3>3, EmptySeq
  <2>4. PICK r : r = Reading(s, d)
    OBVIOUS
  <2>5. none \o r = r
    <3>1. r \in Seq(Marks)
      BY <2>4, ReadingMarks
    <3> QED BY <2>2, <3>1, ConcatEmptySeq
  <2>6. Reading(s, d) = Marked(Take(s, 0), d) \o Reading(Drop(s, 0), d)
    BY <2>1, <2>3, <2>4, <2>5
  <2> QED BY <1>2, <2>6
<1>4. ASSUME NEW n \in Nat, n \in T PROVE n + 1 \in T
  <2>1. SUFFICES ASSUME n + 1 <= k PROVE Reading(s, d) = Marked(Take(s, n + 1), d) \o Reading(Drop(s, n + 1), d)
    BY <1>2
  <2>2. n <= k /\ n + 1 <= Len(s) /\ n \in 0..Len(s) /\ n + 1 \in 1..k /\ n + 1 \in 0..Len(s) /\ 1 \in 0..(Len(s) - n)
    BY <1>1, <2>1
  <2>3. PICK r : r = Drop(s, n)
    OBVIOUS
  <2>4. r \in Words /\ Len(r) # 0 /\ 1 \in 0..Len(r)
    <3>1. r \in Words /\ Len(r) = Len(s) - n
      BY <2>2, <2>3, Dropped
    <3> QED BY <1>1, <2>2, <3>1
  <2>5. ~CloseTagAt(r, 1) /\ ~(OpenTagAt(r, 1) /\ d = "text")
    <3>1. ~TagOn(s, d, n + 1)
      BY <2>2
    <3>2. (CloseTagAt(r, 1) <=> CloseTagAt(s, n + 1)) /\ (OpenTagAt(r, 1) <=> OpenTagAt(s, n + 1))
      <4>1. 1 \in Nat \ {0}
        OBVIOUS
      <4> QED BY <2>2, <2>3, <4>1, TagsLeft
    <3> QED BY <3>1, <3>2 DEF TagOn
  <2>6. Reading(r, d) = Marked(Take(r, 1), d) \o Reading(Drop(r, 1), d)
    BY <2>4, <2>5, ReadingSteps
  <2>7. Drop(r, 1) = Drop(s, n + 1)
    BY <2>2, <2>3, DropDrop
  <2>8. PICK a : a = Take(s, n)
    OBVIOUS
  <2>9. PICK b : b = Take(r, 1)
    OBVIOUS
  <2>10. a \in Words /\ b \in Words /\ Take(s, n + 1) = a \o b
    BY <2>2, <2>3, <2>4, <2>8, <2>9, Taken, TakeMore
  <2>11. PICK x : x = Marked(a, d)
    OBVIOUS
  <2>12. PICK y : y = Marked(b, d)
    OBVIOUS
  <2>13. PICK z : z = Reading(Drop(s, n + 1), d)
    OBVIOUS
  <2>14. x \in Seq(Marks) /\ y \in Seq(Marks) /\ z \in Seq(Marks)
    <3>1. Drop(s, n + 1) \in Words
      BY <2>2, Dropped
    <3> QED BY <2>10, <2>11, <2>12, <2>13, <3>1, MarkedWord, ReadingMarks
  <2>15. Marked(Take(s, n + 1), d) = x \o y
    <3>1. Marked(a \o b, d) = Marked(a, d) \o Marked(b, d)
      BY <2>10, MarkedConcat
    <3> QED BY <2>10, <2>11, <2>12, <3>1
  <2>16. (x \o y) \o z = x \o (y \o z)
    <3>1. Associates(x, y, z)
      BY <2>14, Associate
    <3> QED BY <3>1 DEF Associates
  <2>17. Reading(s, d) = x \o Reading(r, d)
    BY <1>2, <1>4, <2>2, <2>3, <2>8, <2>11
  <2>18. Reading(r, d) = y \o z
    BY <2>6, <2>7, <2>9, <2>12, <2>13
  <2> QED BY <2>13, <2>15, <2>16, <2>17, <2>18
<1>5. Nat \subseteq T
  BY <1>3, <1>4, FromZero
<1>6. k \in T
  BY <1>1, <1>5
<1> QED BY <1>1, <1>2, <1>6

-----------------------------------------------------------------------------
\* The least of some numbers.
LEMMA FirstIs ==
  ASSUME NEW S, S \subseteq Nat, S # {}
  PROVE  First(S) \in S /\ \A j \in S : First(S) <= j
<1>1. \E i \in S : \A j \in S : i <= j
  BY LeastNatural
<1> QED BY <1>1 DEF First

\* The greatest of some bounded numbers.
LEMMA LastIs ==
  ASSUME NEW n \in Nat, NEW S, S \subseteq 0..n, S # {}
  PROVE  Last1(S) \in S /\ \A j \in S : Last1(S) >= j
<1>1. PICK i \in S : \A j \in S : j <= i
  BY GreatestNatural
<1>2. \A j \in S : i >= j
  BY <1>1
<1> QED BY <1>1, <1>2 DEF Last1

\* What follows a word does not change the tags in it.
LEMMA TagsStay ==
  ASSUME NEW s \in Words, NEW t \in Words, NEW i \in Nat \ {0}
  PROVE  /\ i + 3 <= Len(s) => (CloseTagAt(s \o t, i) <=> CloseTagAt(s, i))
         /\ i + 2 <= Len(s) => (OpenTagAt(s \o t, i) <=> OpenTagAt(s, i))
<1>1. Len(s) \in Nat /\ Len(t) \in Nat
  BY LenProperties DEF Words
<1>2. PICK u : u = s \o t
  OBVIOUS
<1>3. Len(u) = Len(s) + Len(t) /\ \A j \in 1..Len(s) : u[j] = s[j]
  <2>1. /\ Len(s \o t) = Len(s) + Len(t)
        /\ \A j \in 1..(Len(s) + Len(t)) : (s \o t)[j] = IF j <= Len(s) THEN s[j] ELSE t[j - Len(s)]
    BY ConcatProperties DEF Words
  <2>2. \A j \in 1..Len(s) : j \in 1..(Len(s) + Len(t)) /\ j <= Len(s)
    BY <1>1
  <2> QED BY <1>2, <2>1, <2>2
<1>4. ASSUME i + 2 <= Len(s) PROVE u[i] = s[i] /\ u[i + 1] = s[i + 1] /\ u[i + 2] = s[i + 2] /\ i + 2 <= Len(u)
  <2>1. i \in 1..Len(s) /\ i + 1 \in 1..Len(s) /\ i + 2 \in 1..Len(s)
    BY <1>1, <1>4
  <2> QED BY <1>1, <1>3, <2>1
<1>5. ASSUME i + 3 <= Len(s) PROVE u[i + 3] = s[i + 3] /\ i + 3 <= Len(u) /\ i + 2 <= Len(s)
  <2>1. i + 3 \in 1..Len(s)
    BY <1>1, <1>5
  <2> QED BY <1>1, <1>3, <2>1
<1> QED BY <1>2, <1>4, <1>5 DEF CloseTagAt, OpenTagAt

\* The tags a pass on side d looks for.
HeldTags(d) == IF d = "text" THEN {OPEN_TAG, CLOSE_TAG} ELSE {CLOSE_TAG}

\* The end of the word, from i on, is how a tag begins.
Begins(s, i, tag) == Len(s) - i + 1 < Len(tag) /\ \A j \in i..Len(s) : s[j] = tag[j - i + 1]

\* Where a tag begins it is held.
LEMMA BeginsHeld ==
  ASSUME NEW s \in Words, NEW i \in 1..Len(s), NEW tags, NEW tag \in tags, tag = OPEN_TAG \/ tag = CLOSE_TAG,
         Begins(s, i, tag)
  PROVE  i \in Held(s, tags)
<1>1. Len(s) \in Nat /\ DOMAIN s = 1..Len(s) /\ \A j \in 1..Len(s) : s[j] \in Alphabet
  BY ElementOfSeq, LenProperties DEF Words
<1>2. Len(tag) \in Nat /\ tag \in Words /\ tag[1] = "<" /\ \A j \in 2..Len(tag) : tag[j] # "<"
  <2>1. CASE tag = OPEN_TAG
    <3>1. Len(tag) = 3 /\ tag \in Words /\ tag[1] = "<" /\ tag[2] = "t" /\ tag[3] = ">"
      BY <2>1 DEF OPEN_TAG, Words, Alphabet
    <3>2. \A j \in 2..3 : j = 2 \/ j = 3
      OBVIOUS
    <3> QED BY <3>1, <3>2
  <2>2. CASE tag = CLOSE_TAG
    <3>1. Len(tag) = 4 /\ tag \in Words /\ tag[1] = "<" /\ tag[2] = "/" /\ tag[3] = "t" /\ tag[4] = ">"
      BY <2>2 DEF CLOSE_TAG, Words, Alphabet
    <3>2. \A j \in 2..4 : j = 2 \/ j = 3 \/ j = 4
      OBVIOUS
    <3> QED BY <3>1, <3>2
  <2> QED BY <2>1, <2>2
<1>3. PICK B : B = {j \in DOMAIN s : s[j] = "<"}
  OBVIOUS
<1>4. PICK l : l = Len(s) - i + 1
  OBVIOUS
<1>5. l \in Nat /\ l < Len(tag) /\ \A j \in i..Len(s) : s[j] = tag[j - i + 1]
  BY <1>1, <1>4 DEF Begins
<1>6. i \in B
  <2>1. i \in i..Len(s) /\ i - i + 1 = 1
    BY <1>1
  <2> QED BY <1>1, <1>2, <1>3, <1>5, <2>1
<1>7. ASSUME NEW j \in B PROVE i >= j
  <2>1. SUFFICES ASSUME j > i PROVE FALSE
    BY <1>1, <1>3
  <2>2. j \in i..Len(s) /\ j - i + 1 \in 2..Len(tag)
    BY <1>1, <1>2, <1>3, <1>4, <1>5, <2>1
  <2> QED BY <1>2, <1>3, <1>5, <2>2
<1>8. Last1(B) = i
  <2>1. B \subseteq 0..Len(s) /\ B # {}
    BY <1>1, <1>3, <1>6
  <2>2. PICK m : m = Last1(B)
    OBVIOUS
  <2>3. m \in B /\ \A j \in B : m >= j
    BY <1>1, <2>1, <2>2, LastIs
  <2>4. m >= i /\ i >= m /\ m \in Nat
    BY <1>1, <1>3, <1>6, <1>7, <2>3
  <2> QED BY <2>2, <2>4
<1>9. PICK r : r = SubSeq(s, i, Len(s))
  OBVIOUS
<1>10. r \in Words /\ Len(r) = l /\ \A j \in 1..l : r[j] = s[i + j - 1]
  <2>1. i \in Int /\ Len(s) \in Int /\ \A j \in i..Len(s) : s[j] \in Alphabet
    BY <1>1
  <2>2. /\ SubSeq(s, i, Len(s)) \in Seq(Alphabet)
        /\ Len(SubSeq(s, i, Len(s))) = IF i <= Len(s) THEN Len(s) - i + 1 ELSE 0
        /\ \A j \in 1..(Len(s) - i + 1) : SubSeq(s, i, Len(s))[j] = s[i + j - 1]
    BY <2>1, SubSeqProperties
  <2> QED BY <1>1, <1>4, <1>9, <2>2 DEF Words
<1>11. IsPrefix(r, tag)
  <2>1. SubSeq(r, 1, Len(r)) = r
    BY <1>10, SubSeqFull DEF Words
  <2>2. PICK p : p = Take(tag, l)
    OBVIOUS
  <2>3. p \in Words /\ Len(p) = l /\ \A j \in 1..l : p[j] = tag[j]
    <3>1. l \in 0..Len(tag)
      BY <1>2, <1>5
    <3> QED BY <1>2, <2>2, <3>1, Taken
  <2>4. ASSUME NEW j \in 1..Len(r) PROVE r[j] = p[j]
    <3>1. j \in 1..l /\ i + j - 1 \in i..Len(s) /\ (i + j - 1) - i + 1 = j
      BY <1>1, <1>4, <1>10
    <3> QED BY <1>5, <1>10, <2>3, <3>1
  <2>5. r = p
    BY <1>10, <2>3, <2>4, SameWord
  <2>6. SubSeq(tag, 1, Len(r)) = p
    BY <1>10, <2>2 DEF Take
  <2>7. Len(r) <= Len(tag)
    BY <1>2, <1>5, <1>10
  <2> QED BY <2>1, <2>5, <2>6, <2>7 DEF IsPrefix
<1>12. B # {} /\ Len(s) - i + 1 < Len(tag)
  BY <1>4, <1>5, <1>6
<1>13. Held(s, tags) = {b \in {i} : \E g \in tags : Len(s) - b + 1 < Len(g) /\ IsPrefix(SubSeq(s, b, Len(s)), g)}
  BY <1>3, <1>8, <1>12 DEF Held
<1> QED BY <1>9, <1>11, <1>12, <1>13

\* At most one place is held.
LEMMA HeldOne ==
  ASSUME NEW s \in Words, NEW tags, Held(s, tags) # {}
  PROVE  \E b \in 1..Len(s) : Held(s, tags) = {b}
<1>1. Len(s) \in Nat /\ DOMAIN s = 1..Len(s)
  BY LenProperties DEF Words
<1>2. PICK B : B = {j \in DOMAIN s : s[j] = "<"}
  OBVIOUS
<1>3. PICK m : m = Last1(B)
  OBVIOUS
<1>4. B # {} /\ Held(s, tags) \subseteq {m}
  BY <1>2, <1>3 DEF Held
<1>5. m \in B
  <2>1. B \subseteq 0..Len(s)
    BY <1>1, <1>2
  <2> QED BY <1>1, <1>3, <1>4, <2>1, LastIs
<1> QED BY <1>1, <1>2, <1>4, <1>5

\* The beginning of a word that goes on.
LEMMA TakeSame ==
  ASSUME NEW s \in Words, NEW t \in Words, NEW n \in 0..Len(s)
  PROVE  Take(s \o t, n) = Take(s, n)
<1>1. Len(s) \in Nat /\ Len(t) \in Nat
  BY LenProperties DEF Words
<1>2. PICK u : u = s \o t
  OBVIOUS
<1>3. u \in Words /\ Len(u) = Len(s) + Len(t) /\ \A j \in 1..Len(s) : u[j] = s[j]
  <2>1. /\ s \o t \in Words
        /\ Len(s \o t) = Len(s) + Len(t)
        /\ \A j \in 1..(Len(s) + Len(t)) : (s \o t)[j] = IF j <= Len(s) THEN s[j] ELSE t[j - Len(s)]
    BY ConcatProperties DEF Words
  <2>2. \A j \in 1..Len(s) : j \in 1..(Len(s) + Len(t)) /\ j <= Len(s)
    BY <1>1
  <2> QED BY <1>2, <2>1, <2>2
<1>4. PICK a : a = Take(u, n)
  OBVIOUS
<1>5. a \in Words /\ Len(a) = n /\ \A i \in 1..n : a[i] = u[i]
  <2>1. n \in 0..Len(u)
    BY <1>1, <1>3
  <2> QED BY <1>3, <1>4, <2>1, Taken
<1>6. PICK b : b = Take(s, n)
  OBVIOUS
<1>7. b \in Words /\ Len(b) = n /\ \A i \in 1..n : b[i] = s[i]
  BY <1>6, Taken
<1>8. \A i \in 1..Len(a) : a[i] = b[i]
  <2>1. \A i \in 1..n : i \in 1..Len(s)
    BY <1>1
  <2> QED BY <1>3, <1>5, <1>7, <2>1
<1>9. a = b
  BY <1>5, <1>7, <1>8, SameWord
<1> QED BY <1>2, <1>4, <1>6, <1>9

\* A tag that begins in the word and ends after it is held.
LEMMA StraddlingHeld ==
  ASSUME NEW s \in Words, NEW t \in Words, NEW d \in Sides, NEW i \in 1..Len(s),
         TagOn(s \o t, d, i), ~TagOn(s, d, i)
  PROVE  i \in Held(s, HeldTags(d))
<1>1. Len(s) \in Nat /\ Len(t) \in Nat /\ i \in Nat \ {0}
  BY LenProperties DEF Words
<1>2. PICK u : u = s \o t
  OBVIOUS
<1>3. \A j \in 1..Len(s) : u[j] = s[j]
  <2>1. \A j \in 1..(Len(s) + Len(t)) : (s \o t)[j] = IF j <= Len(s) THEN s[j] ELSE t[j - Len(s)]
    BY ConcatProperties DEF Words
  <2>2. \A j \in 1..Len(s) : j \in 1..(Len(s) + Len(t)) /\ j <= Len(s)
    BY <1>1
  <2> QED BY <1>2, <2>1, <2>2
<1>4. CASE CloseTagAt(u, i)
  <2>1. ~CloseTagAt(s, i)
    BY DEF TagOn
  <2>2. ~(i + 3 <= Len(s))
    BY <1>1, <1>2, <1>4, <2>1, TagsStay
  <2>3. PICK tag : tag = CLOSE_TAG
    OBVIOUS
  <2>4. Len(tag) = 4 /\ tag[1] = "<" /\ tag[2] = "/" /\ tag[3] = "t" /\ tag[4] = ">"
    BY <2>3 DEF CLOSE_TAG
  <2>5. u[i] = "<" /\ u[i + 1] = "/" /\ u[i + 2] = "t" /\ u[i + 3] = ">"
    BY <1>4 DEF CloseTagAt
  <2>6. ASSUME NEW j \in i..Len(s) PROVE s[j] = tag[j - i + 1]
    <3>1. s[j] = u[j]
      BY <1>1, <1>3
    <3>2. j = i \/ j = i + 1 \/ j = i + 2
      BY <1>1, <2>2
    <3>3. i - i + 1 = 1 /\ (i + 1) - i + 1 = 2 /\ (i + 2) - i + 1 = 3
      BY <1>1
    <3> QED BY <2>4, <2>5, <3>1, <3>2, <3>3
  <2>7. Begins(s, i, tag)
    <3>1. Len(s) - i + 1 < 4
      BY <1>1, <2>2
    <3> QED BY <2>4, <2>6, <3>1 DEF Begins
  <2>8. tag \in HeldTags(d)
    BY <2>3 DEF HeldTags
  <2> QED BY <2>3, <2>7, <2>8, BeginsHeld
<1>5. CASE d = "text" /\ OpenTagAt(u, i)
  <2>1. ~OpenTagAt(s, i)
    BY <1>5 DEF TagOn
  <2>2. ~(i + 2 <= Len(s))
    BY <1>1, <1>2, <1>5, <2>1, TagsStay
  <2>3. PICK tag : tag = OPEN_TAG
    OBVIOUS
  <2>4. Len(tag) = 3 /\ tag[1] = "<" /\ tag[2] = "t" /\ tag[3] = ">"
    BY <2>3 DEF OPEN_TAG
  <2>5. u[i] = "<" /\ u[i + 1] = "t" /\ u[i + 2] = ">"
    BY <1>5 DEF OpenTagAt
  <2>6. ASSUME NEW j \in i..Len(s) PROVE s[j] = tag[j - i + 1]
    <3>1. s[j] = u[j]
      BY <1>1, <1>3
    <3>2. j = i \/ j = i + 1
      BY <1>1, <2>2
    <3>3. i - i + 1 = 1 /\ (i + 1) - i + 1 = 2
      BY <1>1
    <3> QED BY <2>4, <2>5, <3>1, <3>2, <3>3
  <2>7. Begins(s, i, tag)
    <3>1. Len(s) - i + 1 < 3
      BY <1>1, <2>2
    <3> QED BY <2>4, <2>6, <3>1 DEF Begins
  <2>8. tag \in HeldTags(d)
    BY <1>5, <2>3 DEF HeldTags
  <2> QED BY <2>3, <2>7, <2>8, BeginsHeld
<1> QED BY <1>2, <1>4, <1>5 DEF TagOn

Untagged(s, d) == \A i \in 1..Len(s) : ~TagOn(s, d, i)

\* A word without tags is read as far as nothing is held, whatever follows.
LEMMA ReadUntagged ==
  ASSUME NEW s \in Words, NEW t \in Words, NEW d \in Sides, Untagged(s, d),
         NEW k \in 0..Len(s), \A i \in 1..k : i \notin Held(s, HeldTags(d))
  PROVE  Reading(s \o t, d) = Marked(Take(s, k), d) \o Reading(Drop(s, k) \o t, d)
<1>1. Len(s) \in Nat /\ Len(t) \in Nat
  BY LenProperties DEF Words
<1>2. PICK u : u = s \o t
  OBVIOUS
<1>3. u \in Words /\ Len(u) = Len(s) + Len(t) /\ \A j \in 1..Len(s) : u[j] = s[j]
  <2>1. /\ s \o t \in Words
        /\ Len(s \o t) = Len(s) + Len(t)
        /\ \A j \in 1..(Len(s) + Len(t)) : (s \o t)[j] = IF j <= Len(s) THEN s[j] ELSE t[j - Len(s)]
    BY ConcatProperties DEF Words
  <2>2. \A j \in 1..Len(s) : j \in 1..(Len(s) + Len(t)) /\ j <= Len(s)
    BY <1>1
  <2> QED BY <1>2, <2>1, <2>2
<1>4. k \in 0..Len(u) /\ \A i \in 1..k : i \in 1..Len(s)
  BY <1>1, <1>3
<1>5. \A i \in 1..k : ~TagOn(u, d, i)
  <2>1. ASSUME NEW i \in 1..k, TagOn(u, d, i) PROVE FALSE
    <3>1. i \in 1..Len(s) /\ ~TagOn(s, d, i)
      BY <1>4 DEF Untagged
    <3> QED BY <1>2, <2>1, <3>1, StraddlingHeld
  <2> QED BY <2>1
<1>6. Reading(u, d) = Marked(Take(u, k), d) \o Reading(Drop(u, k), d)
  BY <1>3, <1>4, <1>5, ReadPlain
<1>7. Drop(u, k) = Drop(s, k) \o t
  BY <1>2, DropMore
<1>8. Take(u, k) = Take(s, k)
  BY <1>1, <1>2, <1>3, TakeSame
<1> QED BY <1>2, <1>6, <1>7, <1>8

\* What is before a tag is read as it stands, and then what follows the tag.
LEMMA ReadTag ==
  ASSUME NEW s \in Words, NEW t \in Words, NEW d \in Sides, NEW i \in 1..Len(s), \A j \in 1..(i - 1) : ~TagOn(s, d, j)
  PROVE  /\ CloseTagAt(s, i) => Reading(s \o t, d) = Marked(Take(s, i - 1), d) \o Reading(Drop(s, i + 3) \o t, "text")
         /\ OpenTagAt(s, i) /\ d = "text"
              => Reading(s \o t, d) = Marked(Take(s, i - 1), d) \o Reading(Drop(s, i + 2) \o t, "thinking")
<1>1. Len(s) \in Nat /\ Len(t) \in Nat /\ i \in Nat \ {0} /\ i - 1 \in 0..Len(s) /\ 1 \in Nat \ {0}
  BY LenProperties DEF Words
<1>2. PICK u : u = s \o t
  OBVIOUS
<1>3. u \in Words /\ Len(u) = Len(s) + Len(t) /\ i - 1 \in 0..Len(u)
  <2>1. s \o t \in Words /\ Len(s \o t) = Len(s) + Len(t)
    BY ConcatProperties DEF Words
  <2> QED BY <1>1, <1>2, <2>1
<1>4. ASSUME i + 2 <= Len(s)
      PROVE  /\ Reading(u, d) = Marked(Take(s, i - 1), d) \o Reading(Drop(u, i - 1), d)
             /\ CloseTagAt(s, i) => CloseTagAt(Drop(u, i - 1), 1)
             /\ OpenTagAt(s, i) => OpenTagAt(Drop(u, i - 1), 1)
  <2>1. ASSUME NEW j \in 1..(i - 1) PROVE ~TagOn(u, d, j)
    <3>1. j \in Nat \ {0} /\ j + 2 <= Len(s) /\ j + 3 <= Len(s)
      BY <1>1, <1>4
    <3>2. (CloseTagAt(u, j) <=> CloseTagAt(s, j)) /\ (OpenTagAt(u, j) <=> OpenTagAt(s, j))
      BY <1>2, <3>1, TagsStay
    <3> QED BY <3>2 DEF TagOn
  <2>2. Reading(u, d) = Marked(Take(u, i - 1), d) \o Reading(Drop(u, i - 1), d)
    BY <1>3, <2>1, ReadPlain
  <2>3. Take(u, i - 1) = Take(s, i - 1)
    BY <1>1, <1>2, TakeSame
  <2>4. (CloseTagAt(Drop(u, i - 1), 1) <=> CloseTagAt(u, i)) /\ (OpenTagAt(Drop(u, i - 1), 1) <=> OpenTagAt(u, i))
    <3>1. (i - 1) + 1 = i
      BY <1>1
    <3> QED BY <1>1, <1>3, <3>1, TagsLeft
  <2>5. CloseTagAt(s, i) => CloseTagAt(u, i)
    BY <1>1, <1>2, TagsStay DEF CloseTagAt
  <2>6. OpenTagAt(s, i) => OpenTagAt(u, i)
    BY <1>1, <1>2, <1>4, TagsStay
  <2> QED BY <2>2, <2>3, <2>4, <2>5, <2>6
<1>5. PICK r : r = Drop(u, i - 1)
  OBVIOUS
<1>6. r \in Words
  BY <1>3, <1>5, Dropped
<1>7. ~(CloseTagAt(u, i) /\ OpenTagAt(u, i))
  BY DEF CloseTagAt, OpenTagAt
<1>8. ASSUME CloseTagAt(s, i)
      PROVE  Reading(u, d) = Marked(Take(s, i - 1), d) \o Reading(Drop(s, i + 3) \o t, "text")
  <2>1. i + 3 <= Len(s) /\ i + 2 <= Len(s) /\ i + 3 \in 0..Len(s) /\ i + 3 <= Len(u)
    BY <1>1, <1>3, <1>8 DEF CloseTagAt
  <2>2. Reading(u, d) = Marked(Take(s, i - 1), d) \o Reading(r, d) /\ CloseTagAt(r, 1)
    BY <1>4, <1>5, <1>8, <2>1
  <2>3. Reading(r, d) = Reading(Drop(r, 4), "text")
    BY <1>6, <2>2, ReadingSteps
  <2>4. Drop(r, 4) = Drop(s, i + 3) \o t
    <3>1. 4 \in 0..(Len(u) - (i - 1)) /\ (i - 1) + 4 = i + 3
      BY <1>1, <1>3, <2>1
    <3>2. Drop(r, 4) = Drop(u, i + 3)
      BY <1>3, <1>5, <3>1, DropDrop
    <3> QED BY <1>2, <2>1, <3>2, DropMore
  <2> QED BY <2>2, <2>3, <2>4
<1>9. ASSUME OpenTagAt(s, i), d = "text"
      PROVE  Reading(u, d) = Marked(Take(s, i - 1), d) \o Reading(Drop(s, i + 2) \o t, "thinking")
  <2>1. i + 2 <= Len(s) /\ i + 2 \in 0..Len(s) /\ i + 2 <= Len(u) /\ ~CloseTagAt(s, i)
    BY <1>1, <1>3, <1>9 DEF OpenTagAt, CloseTagAt
  <2>2. OpenTagAt(u, i)
    BY <1>1, <1>2, <1>9, <2>1, TagsStay
  <2>3. Reading(u, d) = Marked(Take(s, i - 1), d) \o Reading(r, d) /\ OpenTagAt(r, 1)
    BY <1>4, <1>5, <1>7, <1>9, <2>1, <2>2
  <2>4. Reading(r, d) = Reading(Drop(r, 3), "thinking")
    BY <1>6, <1>9, <2>3, ReadingSteps
  <2>5. Drop(r, 3) = Drop(s, i + 2) \o t
    <3>1. 3 \in 0..(Len(u) - (i - 1)) /\ (i - 1) + 3 = i + 2
      BY <1>1, <1>3, <2>1
    <3>2. Drop(r, 3) = Drop(u, i + 2)
      BY <1>3, <1>5, <3>1, DropDrop
    <3> QED BY <1>2, <2>1, <3>2, DropMore
  <2> QED BY <2>3, <2>4, <2>5
<1> QED BY <1>2, <1>8, <1>9

-----------------------------------------------------------------------------
\* The four things a pass on side d can do: stop after a closing tag, after an
\* opening tag, where a tag may begin, or at the end.
ClosePass(pass, s, d, i) ==
  /\ CloseTagAt(s, i) /\ \A j \in 1..(i - 1) : ~TagOn(s, d, j)
  /\ pass.emit = Take(s, i - 1) /\ pass.rest = Drop(s, i + 3) /\ pass.side = "text"

OpenPass(pass, s, d, i) ==
  /\ OpenTagAt(s, i) /\ d = "text" /\ \A j \in 1..(i - 1) : ~TagOn(s, d, j)
  /\ pass.emit = Take(s, i - 1) /\ pass.rest = Drop(s, i + 2) /\ pass.side = "thinking"

HeldPass(pass, s, d, b) ==
  /\ Untagged(s, d) /\ Held(s, HeldTags(d)) = {b}
  /\ pass.emit = Take(s, b - 1) /\ pass.rest = Drop(s, b - 1) /\ pass.side = d

WholePass(pass, s, d) ==
  /\ Untagged(s, d) /\ Held(s, HeldTags(d)) = {}
  /\ pass.emit = s /\ pass.rest = <<>> /\ pass.side = d

\* Where a tag is found.
LEMMA FoundAt ==
  ASSUME NEW s \in Words
  PROVE  /\ Found(s, CLOSE_TAG) = {i \in 1..Len(s) : CloseTagAt(s, i)}
         /\ Found(s, OPEN_TAG) = {i \in 1..Len(s) : OpenTagAt(s, i)}
<1>1. DOMAIN s = 1..Len(s) /\ Len(s) \in Nat
  BY LenProperties DEF Words
<1>2. \A i \in 1..Len(s) : i \in Nat \ {0}
  BY <1>1
<1>3. \A i \in 1..Len(s) : (TagAt(s, CLOSE_TAG, i) <=> CloseTagAt(s, i)) /\ (TagAt(s, OPEN_TAG, i) <=> OpenTagAt(s, i))
  BY <1>2, TagLetters
<1> QED BY <1>1, <1>3 DEF Found

\* The first place a tag is found.
LEMMA FirstFound ==
  ASSUME NEW s \in Words, NEW F, F \subseteq 1..Len(s), F # {}
  PROVE  First(F) \in F /\ First(F) \in 1..Len(s) /\ \A j \in 1..(First(F) - 1) : j \notin F
<1>1. Len(s) \in Nat /\ F \subseteq Nat
  BY LenProperties DEF Words
<1>2. PICK m : m = First(F)
  OBVIOUS
<1>3. m \in F /\ \A j \in F : m <= j
  BY <1>1, <1>2, FirstIs
<1>4. m \in 1..Len(s)
  BY <1>3
<1>5. \A j \in 1..(m - 1) : j \notin F
  <2>1. ASSUME NEW j \in 1..(m - 1), j \in F PROVE FALSE
    BY <1>3, <1>4, <2>1
  <2> QED BY <2>1
<1> QED BY <1>2, <1>3, <1>4, <1>5

\* What a pass outside a tag does.
LEMMA OutsidePass ==
  ASSUME NEW s \in Words, NEW pass, pass = OutsideThink(s)
  PROVE  \/ \E i \in 1..Len(s) : ClosePass(pass, s, "text", i) \/ OpenPass(pass, s, "text", i) \/ HeldPass(pass, s, "text", i)
         \/ WholePass(pass, s, "text")
<1>1. PICK open : open = Found(s, OPEN_TAG)
  OBVIOUS
<1>2. PICK orphan : orphan = Found(s, CLOSE_TAG)
  OBVIOUS
<1>3. PICK held : held = Held(s, HeldTags("text"))
  OBVIOUS
<1>4. held = Held(s, {OPEN_TAG, CLOSE_TAG})
  BY <1>3 DEF HeldTags
<1>5. open = {i \in 1..Len(s) : OpenTagAt(s, i)} /\ orphan = {i \in 1..Len(s) : CloseTagAt(s, i)}
  BY <1>1, <1>2, FoundAt
<1>6. PICK o : o = First(open)
  OBVIOUS
<1>7. PICK c : c = First(orphan)
  OBVIOUS
<1>8. PICK h : h = First(held)
  OBVIOUS
<1>9. Len(s) \in Nat
  BY LenProperties DEF Words
<1>10. open # {} => o \in open /\ o \in 1..Len(s) /\ \A j \in 1..(o - 1) : j \notin open
  BY <1>5, <1>6, FirstFound
<1>11. orphan # {} => c \in orphan /\ c \in 1..Len(s) /\ \A j \in 1..(c - 1) : j \notin orphan
  BY <1>5, <1>7, FirstFound
<1>12. Len(CLOSE_TAG) = 4 /\ Len(OPEN_TAG) = 3
  BY DEF CLOSE_TAG, OPEN_TAG
<1>13. PICK closed : closed = [emit |-> Take(s, c - 1), rest |-> Drop(s, c + 4 - 1), side |-> "text"]
  OBVIOUS
<1>14. PICK opened : opened = [emit |-> Take(s, o - 1), rest |-> Drop(s, o + 3 - 1), side |-> "thinking"]
  OBVIOUS
<1>15. PICK waits : waits = [emit |-> Take(s, h - 1), rest |-> Drop(s, h - 1), side |-> "text"]
  OBVIOUS
<1>16. PICK whole : whole = [emit |-> s, rest |-> <<>>, side |-> "text"]
  OBVIOUS
<1>17. pass = CASE orphan # {} /\ (open # {} => c < o) -> closed
                [] open # {} /\ (orphan # {} => o < c) -> opened
                [] open = {} /\ orphan = {} /\ held # {} -> waits
                [] OTHER -> whole
  BY <1>1, <1>2, <1>4, <1>6, <1>7, <1>8, <1>12, <1>13, <1>14, <1>15, <1>16 DEF OutsideThink
<1>18. CASE orphan # {} /\ (open # {} => c < o)
  <2>1. pass = closed
    BY <1>9, <1>10, <1>11, <1>17, <1>18
  <2>2. c \in 1..Len(s) /\ CloseTagAt(s, c) /\ c + 4 - 1 = c + 3
    BY <1>5, <1>11, <1>18
  <2>3. ASSUME NEW j \in 1..(c - 1) PROVE ~TagOn(s, "text", j)
    <3>1. j \in 1..Len(s) /\ j \notin orphan
      BY <1>11, <1>18, <2>2
    <3>2. j \notin open
      <4>1. CASE open = {}
        BY <4>1
      <4>2. CASE open # {}
        <5>1. j \in 1..(o - 1)
          BY <1>10, <1>18, <2>2, <4>2
        <5> QED BY <1>10, <4>2, <5>1
      <4> QED BY <4>1, <4>2
    <3> QED BY <1>5, <3>1, <3>2 DEF TagOn
  <2>4. pass.emit = Take(s, c - 1) /\ pass.rest = Drop(s, c + 3) /\ pass.side = "text"
    BY <1>13, <2>1, <2>2
  <2>5. ClosePass(pass, s, "text", c)
    BY <2>2, <2>3, <2>4 DEF ClosePass
  <2> QED BY <2>2, <2>5
<1>19. CASE open # {} /\ (orphan # {} => o < c)
  <2>1. pass = opened
    BY <1>9, <1>10, <1>11, <1>17, <1>19
  <2>2. o \in 1..Len(s) /\ OpenTagAt(s, o) /\ o + 3 - 1 = o + 2
    BY <1>5, <1>10, <1>19
  <2>3. ASSUME NEW j \in 1..(o - 1) PROVE ~TagOn(s, "text", j)
    <3>1. j \in 1..Len(s) /\ j \notin open
      BY <1>10, <1>19, <2>2
    <3>2. j \notin orphan
      <4>1. CASE orphan = {}
        BY <4>1
      <4>2. CASE orphan # {}
        <5>1. j \in 1..(c - 1)
          BY <1>11, <1>19, <2>2, <4>2
        <5> QED BY <1>11, <4>2, <5>1
      <4> QED BY <4>1, <4>2
    <3> QED BY <1>5, <3>1, <3>2 DEF TagOn
  <2>4. pass.emit = Take(s, o - 1) /\ pass.rest = Drop(s, o + 2) /\ pass.side = "thinking"
    BY <1>14, <2>1, <2>2
  <2>5. OpenPass(pass, s, "text", o)
    BY <2>2, <2>3, <2>4 DEF OpenPass
  <2> QED BY <2>2, <2>5
<1>20. ASSUME open = {}, orphan = {} PROVE Untagged(s, "text")
  BY <1>5, <1>20 DEF Untagged, TagOn
<1>21. CASE open = {} /\ orphan = {} /\ held # {}
  <2>1. pass = waits
    BY <1>17, <1>21
  <2>2. PICK b \in 1..Len(s) : held = {b}
    BY <1>3, <1>21, HeldOne
  <2>3. h = b
    <3>1. \A j \in {b} : b <= j
      BY <2>2
    <3>2. First({b}) \in {b}
      <4>1. {b} \subseteq Nat /\ {b} # {}
        BY <1>9
      <4> QED BY <4>1, FirstIs
    <3> QED BY <1>8, <2>2, <3>2
  <2>4. pass.emit = Take(s, b - 1) /\ pass.rest = Drop(s, b - 1) /\ pass.side = "text"
    BY <1>15, <2>1, <2>3
  <2>5. HeldPass(pass, s, "text", b)
    BY <1>3, <1>20, <1>21, <2>2, <2>4 DEF HeldPass
  <2> QED BY <2>5
<1>22. CASE open = {} /\ orphan = {} /\ held = {}
  <2>1. pass = whole
    BY <1>17, <1>22
  <2>2. pass.emit = s /\ pass.rest = <<>> /\ pass.side = "text"
    BY <1>16, <2>1
  <2> QED BY <1>3, <1>20, <1>22, <2>2 DEF WholePass
<1>23. ~(open # {} /\ orphan # {} /\ o = c)
  <2>1. ASSUME o \in open, o \in orphan PROVE FALSE
    BY <1>5, <2>1 DEF CloseTagAt, OpenTagAt
  <2> QED BY <1>10, <1>11, <2>1
<1>24. \/ orphan # {} /\ (open # {} => c < o)
       \/ open # {} /\ (orphan # {} => o < c)
       \/ open = {} /\ orphan = {}
  BY <1>9, <1>10, <1>11, <1>23
<1> QED BY <1>18, <1>19, <1>21, <1>22, <1>24

\* What a pass inside a tag does.
LEMMA InsidePass ==
  ASSUME NEW s \in Words, NEW pass, pass = InsideThink(s)
  PROVE  \/ \E i \in 1..Len(s) : ClosePass(pass, s, "thinking", i) \/ HeldPass(pass, s, "thinking", i)
         \/ WholePass(pass, s, "thinking")
<1>1. PICK close : close = Found(s, CLOSE_TAG)
  OBVIOUS
<1>2. PICK held : held = Held(s, HeldTags("thinking"))
  OBVIOUS
<1>3. held = Held(s, {CLOSE_TAG})
  BY <1>2 DEF HeldTags
<1>4. close = {i \in 1..Len(s) : CloseTagAt(s, i)}
  BY <1>1, FoundAt
<1>5. PICK c : c = First(close)
  OBVIOUS
<1>6. PICK h : h = First(held)
  OBVIOUS
<1>7. Len(s) \in Nat
  BY LenProperties DEF Words
<1>8. close # {} => c \in close /\ c \in 1..Len(s) /\ \A j \in 1..(c - 1) : j \notin close
  BY <1>4, <1>5, FirstFound
<1>9. Len(CLOSE_TAG) = 4
  BY DEF CLOSE_TAG
<1>10. PICK closed : closed = [emit |-> Take(s, c - 1), rest |-> Drop(s, c + 4 - 1), side |-> "text"]
  OBVIOUS
<1>11. PICK waits : waits = [emit |-> Take(s, h - 1), rest |-> Drop(s, h - 1), side |-> "thinking"]
  OBVIOUS
<1>12. PICK whole : whole = [emit |-> s, rest |-> <<>>, side |-> "thinking"]
  OBVIOUS
<1>13. pass = CASE close # {} -> closed
                [] close = {} /\ held # {} -> waits
                [] OTHER -> whole
  BY <1>1, <1>3, <1>5, <1>6, <1>9, <1>10, <1>11, <1>12 DEF InsideThink
<1>14. "thinking" # "text"
  OBVIOUS
<1>15. CASE close # {}
  <2>1. pass = closed
    BY <1>13, <1>15
  <2>2. c \in 1..Len(s) /\ CloseTagAt(s, c) /\ c + 4 - 1 = c + 3
    BY <1>4, <1>8, <1>15
  <2>3. ASSUME NEW j \in 1..(c - 1) PROVE ~TagOn(s, "thinking", j)
    <3>1. j \in 1..Len(s) /\ j \notin close
      BY <1>8, <1>15, <2>2
    <3> QED BY <1>4, <1>14, <3>1 DEF TagOn
  <2>4. pass.emit = Take(s, c - 1) /\ pass.rest = Drop(s, c + 3) /\ pass.side = "text"
    BY <1>10, <2>1, <2>2
  <2>5. ClosePass(pass, s, "thinking", c)
    BY <2>2, <2>3, <2>4 DEF ClosePass
  <2> QED BY <2>2, <2>5
<1>16. ASSUME close = {} PROVE Untagged(s, "thinking")
  BY <1>4, <1>14, <1>16 DEF Untagged, TagOn
<1>17. CASE close = {} /\ held # {}
  <2>1. pass = waits
    BY <1>13, <1>17
  <2>2. PICK b \in 1..Len(s) : held = {b}
    BY <1>2, <1>17, HeldOne
  <2>3. h = b
    <3>1. First({b}) \in {b}
      <4>1. {b} \subseteq Nat /\ {b} # {}
        BY <1>7
      <4> QED BY <4>1, FirstIs
    <3> QED BY <1>6, <2>2, <3>1
  <2>4. pass.emit = Take(s, b - 1) /\ pass.rest = Drop(s, b - 1) /\ pass.side = "thinking"
    BY <1>11, <2>1, <2>3
  <2>5. HeldPass(pass, s, "thinking", b)
    BY <1>2, <1>16, <1>17, <2>2, <2>4 DEF HeldPass
  <2> QED BY <2>5
<1>18. CASE close = {} /\ held = {}
  <2>1. pass = whole
    BY <1>13, <1>18
  <2>2. pass.emit = s /\ pass.rest = <<>> /\ pass.side = "thinking"
    BY <1>12, <2>1
  <2> QED BY <1>2, <1>16, <1>18, <2>2 DEF WholePass
<1> QED BY <1>15, <1>17, <1>18

\* Without tags a word is kept as it stands.
LEMMA ReadWhole ==
  ASSUME NEW s \in Words, NEW d \in Sides, Untagged(s, d)
  PROVE  Reading(s, d) = Marked(s, d)
<1>1. Len(s) \in Nat /\ Len(s) \in 0..Len(s)
  BY LenProperties DEF Words
<1>2. Reading(s, d) = Marked(Take(s, Len(s)), d) \o Reading(Drop(s, Len(s)), d)
  BY <1>1, ReadPlain DEF Untagged
<1>3. PICK none : none = <<>>
  OBVIOUS
<1>4. none \in Words /\ Len(none) = 0 /\ Drop(s, Len(s)) = none /\ Take(s, Len(s)) = s
  <2>1. none \in Words /\ Len(none) = 0
    BY <1>3 DEF Words
  <2> QED BY <1>3, <2>1, DropNone
<1>5. Reading(none, d) = <<>>
  BY <1>4, ReadingSteps
<1>6. PICK m : m = Marked(s, d)
  OBVIOUS
<1>7. m \in Seq(Marks)
  BY <1>6, MarkedWord
<1>8. m \o <<>> = m
  BY <1>7, ConcatEmptySeq
<1> QED BY <1>2, <1>4, <1>5, <1>6, <1>8

\* What was emitted, followed by what is left, is read like the word.
ReadsAs(s, d, emit, rest, side) ==
  \A t \in Words : Reading(s \o t, d) = Marked(emit, d) \o Reading(rest \o t, side)

\* A pass emits letters where they stand, whatever follows; one that consumes
\* nothing leaves a word without tags.
LEMMA PassReads ==
  ASSUME NEW s \in Words, NEW d \in Sides, NEW pass, pass = ParsePass(s, d)
  PROVE  /\ pass.emit \in Words /\ pass.rest \in Words /\ pass.side \in Sides
         /\ pass.rest = s \/ Len(pass.rest) < Len(s)
         /\ ReadsAs(s, d, pass.emit, pass.rest, pass.side)
         /\ pass.rest = s => Reading(s, d) = Marked(s, d)
<1>1. Len(s) \in Nat
  BY LenProperties DEF Words
<1>2. d = "text" \/ d = "thinking"
  BY DEF Sides
<1>3. "text" \in Sides /\ "thinking" \in Sides
  BY DEF Sides
<1>4. \/ \E i \in 1..Len(s) : ClosePass(pass, s, d, i) \/ OpenPass(pass, s, d, i) \/ HeldPass(pass, s, d, i)
      \/ WholePass(pass, s, d)
  <2>1. CASE d = "text"
    <3>1. pass = OutsideThink(s)
      BY <2>1 DEF ParsePass
    <3> QED BY <2>1, <3>1, OutsidePass
  <2>2. CASE d = "thinking"
    <3>1. pass = InsideThink(s)
      BY <2>2 DEF ParsePass
    <3> QED BY <2>2, <3>1, InsidePass
  <2> QED BY <1>2, <2>1, <2>2
<1>5. ASSUME NEW i \in 1..Len(s), ClosePass(pass, s, d, i)
      PROVE  /\ pass.emit \in Words /\ pass.rest \in Words /\ pass.side \in Sides
             /\ Len(pass.rest) < Len(s) /\ pass.rest # s
             /\ ReadsAs(s, d, pass.emit, pass.rest, pass.side)
  <2>1. /\ CloseTagAt(s, i) /\ \A j \in 1..(i - 1) : ~TagOn(s, d, j)
        /\ pass.emit = Take(s, i - 1) /\ pass.rest = Drop(s, i + 3) /\ pass.side = "text"
    BY <1>5 DEF ClosePass
  <2>2. i - 1 \in 0..Len(s) /\ i + 3 \in 0..Len(s)
    BY <1>1, <2>1 DEF CloseTagAt
  <2>3. pass.emit \in Words /\ pass.rest \in Words /\ Len(pass.rest) = Len(s) - (i + 3)
    BY <2>1, <2>2, Taken, Dropped
  <2>4. Len(pass.rest) < Len(s) /\ pass.rest # s
    BY <1>1, <2>3
  <2>5. ASSUME NEW t \in Words PROVE Reading(s \o t, d) = Marked(pass.emit, d) \o Reading(pass.rest \o t, pass.side)
    <3>1. Reading(s \o t, d) = Marked(Take(s, i - 1), d) \o Reading(Drop(s, i + 3) \o t, "text")
      BY <2>1, ReadTag
    <3> QED BY <2>1, <3>1
  <2> QED BY <1>3, <2>1, <2>3, <2>4, <2>5 DEF ReadsAs
<1>6. ASSUME NEW i \in 1..Len(s), OpenPass(pass, s, d, i)
      PROVE  /\ pass.emit \in Words /\ pass.rest \in Words /\ pass.side \in Sides
             /\ Len(pass.rest) < Len(s) /\ pass.rest # s
             /\ ReadsAs(s, d, pass.emit, pass.rest, pass.side)
  <2>1. /\ OpenTagAt(s, i) /\ d = "text" /\ \A j \in 1..(i - 1) : ~TagOn(s, d, j)
        /\ pass.emit = Take(s, i - 1) /\ pass.rest = Drop(s, i + 2) /\ pass.side = "thinking"
    BY <1>6 DEF OpenPass
  <2>2. i - 1 \in 0..Len(s) /\ i + 2 \in 0..Len(s)
    BY <1>1, <2>1 DEF OpenTagAt
  <2>3. pass.emit \in Words /\ pass.rest \in Words /\ Len(pass.rest) = Len(s) - (i + 2)
    BY <2>1, <2>2, Taken, Dropped
  <2>4. Len(pass.rest) < Len(s) /\ pass.rest # s
    BY <1>1, <2>3
  <2>5. ASSUME NEW t \in Words PROVE Reading(s \o t, d) = Marked(pass.emit, d) \o Reading(pass.rest \o t, pass.side)
    <3>1. Reading(s \o t, d) = Marked(Take(s, i - 1), d) \o Reading(Drop(s, i + 2) \o t, "thinking")
      BY <2>1, ReadTag
    <3> QED BY <2>1, <3>1
  <2> QED BY <1>3, <2>1, <2>3, <2>4, <2>5 DEF ReadsAs
<1>7. ASSUME NEW b \in 1..Len(s), HeldPass(pass, s, d, b)
      PROVE  /\ pass.emit \in Words /\ pass.rest \in Words /\ pass.side \in Sides
             /\ pass.rest = s \/ Len(pass.rest) < Len(s)
             /\ ReadsAs(s, d, pass.emit, pass.rest, pass.side)
             /\ Reading(s, d) = Marked(s, d)
  <2>1. /\ Untagged(s, d) /\ Held(s, HeldTags(d)) = {b}
        /\ pass.emit = Take(s, b - 1) /\ pass.rest = Drop(s, b - 1) /\ pass.side = d
    BY <1>7 DEF HeldPass
  <2>2. b - 1 \in 0..Len(s)
    BY <1>1
  <2>3. pass.emit \in Words /\ pass.rest \in Words /\ Len(pass.rest) = Len(s) - (b - 1)
    <3>1. Take(s, b - 1) \in Words
      BY <2>2, Taken
    <3>2. Drop(s, b - 1) \in Words /\ Len(Drop(s, b - 1)) = Len(s) - (b - 1)
      BY <2>2, Dropped
    <3> QED BY <2>1, <3>1, <3>2
  <2>4. pass.rest = s \/ Len(pass.rest) < Len(s)
    <3>1. CASE b = 1
      <4>1. b - 1 = 0
        BY <3>1
      <4> QED BY <2>1, <4>1, DropNone
    <3>2. CASE b > 1
      BY <1>1, <2>3, <3>2
    <3> QED BY <1>1, <3>1, <3>2
  <2>5. \A i \in 1..(b - 1) : i \notin Held(s, HeldTags(d))
    <3>1. \A i \in 1..(b - 1) : i # b
      BY <1>1
    <3> QED BY <2>1, <3>1
  <2>6. \A t \in Words : Reading(s \o t, d) = Marked(pass.emit, d) \o Reading(pass.rest \o t, pass.side)
    BY <2>1, <2>2, <2>5, ReadUntagged
  <2> QED BY <2>1, <2>3, <2>4, <2>6, ReadWhole DEF ReadsAs
<1>8. ASSUME WholePass(pass, s, d)
      PROVE  /\ pass.emit \in Words /\ pass.rest \in Words /\ pass.side \in Sides
             /\ pass.rest = s \/ Len(pass.rest) < Len(s)
             /\ ReadsAs(s, d, pass.emit, pass.rest, pass.side)
             /\ Reading(s, d) = Marked(s, d)
  <2>1. /\ Untagged(s, d) /\ Held(s, HeldTags(d)) = {}
        /\ pass.emit = s /\ pass.rest = <<>> /\ pass.side = d
    BY <1>8 DEF WholePass
  <2>2. Len(s) \in 0..Len(s) /\ \A i \in 1..Len(s) : i \notin Held(s, HeldTags(d))
    BY <1>1, <2>1
  <2>3. \A t \in Words : Reading(s \o t, d) = Marked(Take(s, Len(s)), d) \o Reading(Drop(s, Len(s)) \o t, d)
    BY <2>1, <2>2, ReadUntagged
  <2>4. \A t \in Words : Reading(s \o t, d) = Marked(pass.emit, d) \o Reading(pass.rest \o t, pass.side)
    BY <2>1, <2>3, DropNone
  <2>5. pass.rest \in Words /\ Len(pass.rest) = 0
    <3>1. PICK none : none = <<>>
      OBVIOUS
    <3>2. none \in Words /\ Len(none) = 0
      BY <3>1 DEF Words
    <3> QED BY <2>1, <3>1, <3>2
  <2>6. pass.rest = s \/ Len(pass.rest) < Len(s)
    <3>1. CASE Len(s) = 0
      <4>1. s = <<>>
        BY <3>1, EmptySeq DEF Words
      <4> QED BY <2>1, <4>1
    <3>2. CASE Len(s) # 0
      BY <1>1, <2>5, <3>2
    <3> QED BY <3>1, <3>2
  <2> QED BY <2>1, <2>4, <2>5, <2>6, ReadWhole DEF ReadsAs
<1>9. CASE \E i \in 1..Len(s) : ClosePass(pass, s, d, i) \/ OpenPass(pass, s, d, i)
  BY <1>5, <1>6, <1>9
<1>10. CASE \E b \in 1..Len(s) : HeldPass(pass, s, d, b)
  BY <1>7, <1>10
<1>11. CASE WholePass(pass, s, d)
  BY <1>8, <1>11
<1> QED BY <1>4, <1>9, <1>10, <1>11

-----------------------------------------------------------------------------
\* What was parsed of s so far.
ParsedOf(p, s, d) ==
  /\ p.buffer \in Words /\ p.side \in Sides /\ p.out \in Seq(Marks)
  /\ \A t \in Words : Reading(s \o t, d) = p.out \o Reading(p.buffer \o t, p.side)

Settled(p) == ParsePass(p.buffer, p.side).rest = p.buffer

\* A pass keeps what was parsed right; it settles or consumes.
LEMMA ParsedNext ==
  ASSUME NEW s \in Words, NEW d \in Sides, NEW p, ParsedOf(p, s, d), NEW q, q = Parsed(p)
  PROVE  ParsedOf(q, s, d) /\ ((Settled(p) /\ q = p) \/ Len(q.buffer) < Len(p.buffer))
<1>1. PICK pass : pass = ParsePass(p.buffer, p.side)
  OBVIOUS
<1>2. PICK buffer : buffer = p.buffer
  OBVIOUS
<1>3. PICK side : side = p.side
  OBVIOUS
<1>4. PICK out : out = p.out
  OBVIOUS
<1>5. buffer \in Words /\ side \in Sides /\ out \in Seq(Marks)
      /\ \A t \in Words : Reading(s \o t, d) = out \o Reading(buffer \o t, side)
  BY <1>2, <1>3, <1>4 DEF ParsedOf
<1>6. /\ pass.emit \in Words /\ pass.rest \in Words /\ pass.side \in Sides
      /\ pass.rest = buffer \/ Len(pass.rest) < Len(buffer)
      /\ ReadsAs(buffer, side, pass.emit, pass.rest, pass.side)
  BY <1>1, <1>2, <1>3, <1>5, PassReads
<1>7. CASE pass.rest = buffer
  <2>1. q = p
    BY <1>1, <1>2, <1>7 DEF Parsed
  <2> QED BY <1>1, <1>2, <1>7, <2>1 DEF Settled
<1>8. CASE pass.rest # buffer
  <2>1. PICK m : m = Marked(pass.emit, side)
    OBVIOUS
  <2>2. q = [buffer |-> pass.rest, side |-> pass.side, out |-> out \o m]
    BY <1>1, <1>2, <1>3, <1>4, <1>8, <2>1 DEF Parsed
  <2>3. q.buffer = pass.rest /\ q.side = pass.side /\ q.out = out \o m
    BY <2>2
  <2>4. m \in Seq(Marks)
    BY <1>5, <1>6, <2>1, MarkedWord
  <2>5. out \o m \in Seq(Marks)
    BY <1>5, <2>4, ConcatProperties
  <2>6. ASSUME NEW t \in Words PROVE Reading(s \o t, d) = (out \o m) \o Reading(pass.rest \o t, pass.side)
    <3>1. PICK z : z = Reading(pass.rest \o t, pass.side)
      OBVIOUS
    <3>2. z \in Seq(Marks)
      <4>1. pass.rest \o t \in Words
        BY <1>6, ConcatProperties DEF Words
      <4> QED BY <1>6, <3>1, <4>1, ReadingMarks
    <3>3. Reading(buffer \o t, side) = m \o z
      BY <1>6, <2>1, <3>1 DEF ReadsAs
    <3>4. Reading(s \o t, d) = out \o (m \o z)
      BY <1>5, <3>3
    <3>5. Associates(out, m, z)
      BY <1>5, <2>4, <3>2, Associate
    <3> QED BY <3>1, <3>4, <3>5 DEF Associates
  <2>7. ParsedOf(q, s, d)
    BY <1>6, <2>3, <2>5, <2>6 DEF ParsedOf
  <2> QED BY <1>2, <1>6, <1>8, <2>3, <2>7
<1> QED BY <1>7, <1>8

\* f parses s pass by pass, as far as len.
ParseUpTo(f, s, d, len) ==
  f = [n \in 0..len |-> IF n = 0 THEN [buffer |-> s, side |-> d, out |-> <<>>] ELSE Parsed(f[n - 1])]

\* The recursion of ParseAll has a solution.
LEMMA ParseExists == ASSUME NEW s, NEW d, NEW len \in Nat PROVE \E f : ParseUpTo(f, s, d, len)
<1>1. PICK start : start = [buffer |-> s, side |-> d, out |-> <<>>]
  OBVIOUS
<1>2. PICK T : T = {k \in Nat : \E f : ParseUpTo(f, s, d, k)}
  OBVIOUS
<1>3. 0 \in T
  <2>1. PICK f : f = [n \in 0..0 |-> start]
    OBVIOUS
  <2>2. \A n \in 0..0 : n = 0
    OBVIOUS
  <2>3. ParseUpTo(f, s, d, 0)
    BY <1>1, <2>1, <2>2 DEF ParseUpTo
  <2> QED BY <1>2, <2>3
<1>4. ASSUME NEW k \in Nat, k \in T PROVE k + 1 \in T
  <2>1. PICK f : ParseUpTo(f, s, d, k)
    BY <1>2, <1>4
  <2>2. \A n \in 0..k : f[n] = IF n = 0 THEN start ELSE Parsed(f[n - 1])
    BY <1>1, <2>1 DEF ParseUpTo
  <2>3. PICK last : last = Parsed(f[k])
    OBVIOUS
  <2>4. PICK h : h = [n \in 0..(k + 1) |-> IF n = k + 1 THEN last ELSE f[n]]
    OBVIOUS
  <2>5. h[k + 1] = last /\ \A n \in 0..k : h[n] = f[n]
    BY <2>4
  <2>6. ASSUME NEW n \in 0..(k + 1) PROVE h[n] = IF n = 0 THEN start ELSE Parsed(h[n - 1])
    <3>1. CASE n = k + 1
      <4>1. n # 0 /\ n - 1 = k /\ k \in 0..k
        BY <3>1
      <4>2. h[n - 1] = f[k]
        BY <2>5, <4>1
      <4> QED BY <2>3, <2>5, <3>1, <4>1, <4>2
    <3>2. CASE n \in 0..k
      <4>1. CASE n = 0
        BY <2>2, <2>5, <3>2, <4>1
      <4>2. CASE n # 0
        <5>1. n - 1 \in 0..k
          BY <3>2, <4>2
        <5> QED BY <2>2, <2>5, <3>2, <4>2, <5>1
      <4> QED BY <4>1, <4>2
    <3> QED BY <3>1, <3>2
  <2>7. h = [n \in 0..(k + 1) |-> h[n]]
    BY <2>4
  <2>8. ParseUpTo(h, s, d, k + 1)
    BY <1>1, <2>6, <2>7 DEF ParseUpTo
  <2> QED BY <1>2, <2>8
<1>5. Nat \subseteq T
  BY <1>3, <1>4, FromZero
<1> QED BY <1>2, <1>5

\* After all the passes s was parsed right, and no tag is left.
LEMMA ParseAllRight ==
  ASSUME NEW s \in Words, NEW d \in Sides, NEW p, p = ParseAll(s, d)
  PROVE  ParsedOf(p, s, d) /\ Reading(p.buffer, p.side) = Marked(p.buffer, p.side)
<1>1. PICK len : len = Len(s)
  OBVIOUS
<1>2. len \in Nat
  BY <1>1, LenProperties DEF Words
<1>3. PICK f : f = CHOOSE g : ParseUpTo(g, s, d, len)
  OBVIOUS
<1>4. ParseUpTo(f, s, d, len)
  BY <1>2, <1>3, ParseExists
<1>5. p = f[len]
  BY <1>1, <1>3 DEF ParseAll, ParseUpTo
<1>6. PICK start : start = [buffer |-> s, side |-> d, out |-> <<>>]
  OBVIOUS
<1>7. f[0] = start /\ \A n \in 1..len : f[n] = Parsed(f[n - 1])
  <2>1. \A n \in 0..len : f[n] = IF n = 0 THEN start ELSE Parsed(f[n - 1])
    BY <1>4, <1>6 DEF ParseUpTo
  <2>2. 0 \in 0..len /\ \A n \in 1..len : n \in 0..len /\ n # 0
    BY <1>2
  <2> QED BY <2>1, <2>2
<1>8. PICK T : T = {n \in Nat : n <= len => ParsedOf(f[n], s, d) /\ (Settled(f[n]) \/ Len(f[n].buffer) <= len - n)}
  OBVIOUS
<1>9. 0 \in T
  <2>1. start.buffer = s /\ start.side = d /\ start.out = <<>>
    BY <1>6
  <2>2. ASSUME NEW t \in Words PROVE Reading(s \o t, d) = <<>> \o Reading(s \o t, d)
    <3>1. PICK z : z = Reading(s \o t, d)
      OBVIOUS
    <3>2. z \in Seq(Marks)
      <4>1. s \o t \in Words
        BY ConcatProperties DEF Words
      <4> QED BY <3>1, <4>1, ReadingMarks
    <3>3. <<>> \o z = z
      BY <3>2, ConcatEmptySeq
    <3> QED BY <3>1, <3>3
  <2>3. ParsedOf(start, s, d)
    <3>1. <<>> \in Seq(Marks)
      OBVIOUS
    <3> QED BY <2>1, <2>2, <3>1 DEF ParsedOf
  <2>4. Len(start.buffer) <= len - 0
    BY <1>1, <1>2, <2>1
  <2> QED BY <1>7, <1>8, <2>3, <2>4
<1>10. ASSUME NEW n \in Nat, n \in T PROVE n + 1 \in T
  <2>1. SUFFICES ASSUME n + 1 <= len
                 PROVE  ParsedOf(f[n + 1], s, d) /\ (Settled(f[n + 1]) \/ Len(f[n + 1].buffer) <= len - (n + 1))
    BY <1>8
  <2>2. n <= len /\ n + 1 \in 1..len /\ (n + 1) - 1 = n
    BY <1>2, <2>1
  <2>3. PICK a : a = f[n]
    OBVIOUS
  <2>4. PICK b : b = f[n + 1]
    OBVIOUS
  <2>5. ParsedOf(a, s, d) /\ (Settled(a) \/ Len(a.buffer) <= len - n)
    BY <1>8, <1>10, <2>2, <2>3
  <2>6. b = Parsed(a)
    BY <1>7, <2>2, <2>3, <2>4
  <2>7. ParsedOf(b, s, d) /\ ((Settled(a) /\ b = a) \/ Len(b.buffer) < Len(a.buffer))
    BY <2>5, <2>6, ParsedNext
  <2>8. Settled(b) \/ Len(b.buffer) <= len - (n + 1)
    <3>1. CASE Settled(a)
      <4>1. b = a
        BY <2>6, <3>1 DEF Parsed, Settled
      <4> QED BY <3>1, <4>1
    <3>2. CASE ~Settled(a)
      <4>1. Len(b.buffer) < Len(a.buffer) /\ Len(a.buffer) <= len - n
        BY <2>5, <2>7, <3>2
      <4>2. Len(b.buffer) \in Nat /\ Len(a.buffer) \in Nat
        BY <2>5, <2>7, LenProperties DEF ParsedOf, Words
      <4> QED BY <1>2, <4>1, <4>2
    <3> QED BY <3>1, <3>2
  <2> QED BY <2>4, <2>7, <2>8
<1>11. Nat \subseteq T
  BY <1>9, <1>10, FromZero
<1>12. ParsedOf(p, s, d) /\ (Settled(p) \/ Len(p.buffer) <= len - len)
  BY <1>2, <1>5, <1>8, <1>11
<1>13. PICK buffer : buffer = p.buffer
  OBVIOUS
<1>14. PICK side : side = p.side
  OBVIOUS
<1>15. buffer \in Words /\ side \in Sides
  BY <1>12, <1>13, <1>14 DEF ParsedOf
<1>16. PICK pass : pass = ParsePass(buffer, side)
  OBVIOUS
<1>17. /\ pass.rest = buffer \/ Len(pass.rest) < Len(buffer)
       /\ pass.rest = buffer => Reading(buffer, side) = Marked(buffer, side)
       /\ pass.rest \in Words
  BY <1>15, <1>16, PassReads
<1>18. pass.rest = buffer
  <2>1. CASE Settled(p)
    BY <1>13, <1>14, <1>16, <2>1 DEF Settled
  <2>2. CASE Len(buffer) <= len - len
    <3>1. Len(buffer) \in Nat /\ Len(pass.rest) \in Nat
      BY <1>15, <1>17, LenProperties DEF Words
    <3>2. ~(Len(pass.rest) < Len(buffer))
      BY <1>2, <2>2, <3>1
    <3> QED BY <1>17, <3>2
  <2> QED BY <1>12, <1>13, <2>1, <2>2
<1> QED BY <1>12, <1>13, <1>14, <1>17, <1>18

-----------------------------------------------------------------------------
\* What was fed, whatever follows it, is read as what was emitted and then
\* what follows the buffer; the buffer has no tag.
TagsInv ==
  /\ tkBuffer \in Words /\ tkSide \in Sides /\ tkOut \in Seq(Marks) /\ tkFed \in Words /\ tkFlushed \in BOOLEAN
  /\ ~tkFlushed => /\ \A t \in Words : Reading(tkFed \o t, "text") = tkOut \o Reading(tkBuffer \o t, tkSide)
                   /\ Reading(tkBuffer, tkSide) = Marked(tkBuffer, tkSide)
  /\ tkFlushed => tkOut = Reading(tkFed, "text")

\* A word followed by nothing.
LEMMA NothingFollows == ASSUME NEW s \in Words PROVE s \o <<>> = s /\ <<>> \o s = s /\ <<>> \in Words
  BY ConcatEmptySeq DEF Words

\* Before anything is fed.
LEMMA TagsInit == TKInit => TagsInv
<1> SUFFICES ASSUME TKInit PROVE TagsInv
  OBVIOUS
<1>1. tkBuffer = <<>> /\ tkSide = "text" /\ tkOut = <<>> /\ tkFed = <<>> /\ tkFlushed = FALSE
  BY DEF TKInit
<1>2. PICK none : none = <<>>
  OBVIOUS
<1>3. none \in Words /\ Len(none) = 0 /\ none \in Seq(Marks) /\ "text" \in Sides
  BY <1>2 DEF Words, Sides
<1>4. Reading(none, "text") = <<>>
  BY <1>3, ReadingSteps
<1>5. Marked(none, "text") = <<>>
  <2>1. Marked(none, "text") \in Seq(Marks) /\ Len(Marked(none, "text")) = 0
    BY <1>3, MarkedWord
  <2> QED BY <2>1, EmptySeq
<1>6. ASSUME NEW t \in Words PROVE Reading(none \o t, "text") = none \o Reading(none \o t, "text")
  <2>1. none \o t = t
    BY <1>2, NothingFollows
  <2>2. PICK z : z = Reading(t, "text")
    OBVIOUS
  <2>3. z \in Seq(Marks)
    BY <1>3, <2>2, ReadingMarks
  <2>4. none \o z = z
    BY <1>2, <2>3, ConcatEmptySeq
  <2> QED BY <2>1, <2>2, <2>4
<1> QED BY <1>1, <1>2, <1>3, <1>4, <1>5, <1>6 DEF TagsInv

\* feed parses what the buffer and the chunk are together.
LEMMA FeedKeeps ==
  ASSUME TagsInv, NEW chunk \in Words, Feed(chunk)
  PROVE  TagsInv'
<1>1. PICK word : word = tkBuffer \o chunk
  OBVIOUS
<1>2. PICK p : p = ParseAll(word, tkSide)
  OBVIOUS
<1>3. /\ ~tkFlushed /\ tkFlushed' = tkFlushed
      /\ tkBuffer' = p.buffer /\ tkSide' = p.side
      /\ tkOut' = tkOut \o p.out /\ tkFed' = tkFed \o chunk
  BY <1>1, <1>2 DEF Feed
<1>4. /\ tkBuffer \in Words /\ tkSide \in Sides /\ tkOut \in Seq(Marks) /\ tkFed \in Words /\ tkFlushed \in BOOLEAN
      /\ \A t \in Words : Reading(tkFed \o t, "text") = tkOut \o Reading(tkBuffer \o t, tkSide)
  BY <1>3 DEF TagsInv
<1>5. word \in Words
  BY <1>1, <1>4, ConcatProperties DEF Words
<1>6. ParsedOf(p, word, tkSide) /\ Reading(p.buffer, p.side) = Marked(p.buffer, p.side)
  BY <1>2, <1>4, <1>5, ParseAllRight
<1>7. /\ p.buffer \in Words /\ p.side \in Sides /\ p.out \in Seq(Marks)
      /\ \A t \in Words : Reading(word \o t, tkSide) = p.out \o Reading(p.buffer \o t, p.side)
  BY <1>6 DEF ParsedOf
<1>8. tkFed \o chunk \in Words /\ tkOut \o p.out \in Seq(Marks)
  <2>1. tkFed \o chunk \in Words
    BY <1>4, ConcatProperties DEF Words
  <2>2. PICK out : out = p.out
    OBVIOUS
  <2>3. tkOut \o out \in Seq(Marks)
    BY <1>4, <1>7, <2>2, ConcatProperties
  <2> QED BY <2>1, <2>2, <2>3
<1>9. ASSUME NEW t \in Words
      PROVE  Reading((tkFed \o chunk) \o t, "text") = (tkOut \o p.out) \o Reading(p.buffer \o t, p.side)
  <2>1. PICK more : more = chunk \o t
    OBVIOUS
  <2>2. more \in Words
    BY <2>1, ConcatProperties DEF Words
  <2>3. Associates(tkFed, chunk, t) /\ Associates(tkBuffer, chunk, t)
    BY <1>4, Associate DEF Words
  <2>4. Reading((tkFed \o chunk) \o t, "text") = tkOut \o Reading(tkBuffer \o more, tkSide)
    <3>1. (tkFed \o chunk) \o t = tkFed \o more
      BY <2>1, <2>3 DEF Associates
    <3> QED BY <1>4, <2>2, <3>1
  <2>5. tkBuffer \o more = word \o t
    BY <1>1, <2>1, <2>3 DEF Associates
  <2>6. PICK z : z = Reading(p.buffer \o t, p.side)
    OBVIOUS
  <2>7. z \in Seq(Marks)
    <3>1. p.buffer \o t \in Words
      BY <1>7, ConcatProperties DEF Words
    <3> QED BY <1>7, <2>6, <3>1, ReadingMarks
  <2>8. PICK out : out = p.out
    OBVIOUS
  <2>9. Associates(tkOut, out, z)
    BY <1>4, <1>7, <2>7, <2>8, Associate
  <2>10. Reading(word \o t, tkSide) = out \o z
    BY <1>7, <2>6, <2>8
  <2> QED BY <2>4, <2>5, <2>6, <2>8, <2>9, <2>10 DEF Associates
<1> QED BY <1>3, <1>4, <1>6, <1>7, <1>8, <1>9 DEF TagsInv

\* flush adds what was held back as it stands.
LEMMA FlushKeeps == ASSUME TagsInv, Flush PROVE TagsInv'
<1>1. /\ ~tkFlushed /\ tkFlushed' = TRUE /\ tkBuffer' = <<>> /\ tkOut' = tkOut \o Marked(tkBuffer, tkSide)
      /\ tkSide' = tkSide /\ tkFed' = tkFed
  BY DEF Flush
<1>2. /\ tkBuffer \in Words /\ tkSide \in Sides /\ tkOut \in Seq(Marks) /\ tkFed \in Words
      /\ \A t \in Words : Reading(tkFed \o t, "text") = tkOut \o Reading(tkBuffer \o t, tkSide)
      /\ Reading(tkBuffer, tkSide) = Marked(tkBuffer, tkSide)
  BY <1>1 DEF TagsInv
<1>3. PICK none : none = <<>>
  OBVIOUS
<1>4. none \in Words /\ tkFed \o none = tkFed /\ tkBuffer \o none = tkBuffer
  BY <1>2, <1>3, NothingFollows
<1>5. Reading(tkFed, "text") = tkOut \o Marked(tkBuffer, tkSide)
  <2>1. Reading(tkFed \o none, "text") = tkOut \o Reading(tkBuffer \o none, tkSide)
    BY <1>2, <1>4
  <2> QED BY <1>2, <1>4, <2>1
<1>6. tkOut \o Marked(tkBuffer, tkSide) \in Seq(Marks)
  <2>1. PICK m : m = Marked(tkBuffer, tkSide)
    OBVIOUS
  <2>2. m \in Seq(Marks)
    BY <1>2, <2>1, MarkedWord
  <2>3. tkOut \o m \in Seq(Marks)
    BY <1>2, <2>2, ConcatProperties
  <2> QED BY <2>1, <2>3
<1> QED BY <1>1, <1>2, <1>3, <1>4, <1>5, <1>6 DEF TagsInv

\* A step keeps what was emitted in step with what was fed.
LEMMA TagsStep == TagsInv /\ [TKNext]_tkVars => TagsInv'
<1> SUFFICES ASSUME TagsInv, [TKNext]_tkVars PROVE TagsInv'
  OBVIOUS
<1>1. CASE Flush
  BY <1>1, FlushKeeps
<1>2. CASE \E n \in 1..MaxChunk : \E chunk \in [1..n -> Alphabet] : Feed(chunk)
  <2>1. PICK n \in 1..MaxChunk : \E chunk \in [1..n -> Alphabet] : Feed(chunk)
    BY <1>2
  <2>2. PICK chunk \in [1..n -> Alphabet] : Feed(chunk)
    BY <2>1
  <2>3. chunk \in Words
    BY <2>2, TagBounds DEF Words
  <2> QED BY <2>2, <2>3, FeedKeeps
<1>3. CASE UNCHANGED tkVars
  BY <1>3 DEF tkVars, TagsInv
<1> QED BY <1>1, <1>2, <1>3 DEF TKNext

\* Nothing is missed at a boundary: what was emitted and what flush would add
\* are what was fed, read as a whole.
LEMMA TagsRight == TagsInv => ChunkingInvisible
<1> SUFFICES ASSUME TagsInv PROVE ChunkingInvisible
  OBVIOUS
<1>1. tkBuffer \in Words /\ tkSide \in Sides /\ tkOut \in Seq(Marks) /\ tkFed \in Words
  BY DEF TagsInv
<1>2. PICK none : none = <<>>
  OBVIOUS
<1>3. none \in Words /\ tkFed \o none = tkFed /\ tkBuffer \o none = tkBuffer
  BY <1>1, <1>2, NothingFollows
<1>4. CASE tkFlushed
  <2>1. tkOut \o none = tkOut
    BY <1>1, <1>2, ConcatEmptySeq
  <2>2. tkOut = Reading(tkFed, "text")
    BY <1>4 DEF TagsInv
  <2> QED BY <1>2, <1>4, <2>1, <2>2 DEF ChunkingInvisible
<1>5. CASE ~tkFlushed
  <2>1. Reading(tkFed \o none, "text") = tkOut \o Reading(tkBuffer \o none, tkSide)
    BY <1>3, <1>5 DEF TagsInv
  <2>2. Reading(tkBuffer, tkSide) = Marked(tkBuffer, tkSide)
    BY <1>5 DEF TagsInv
  <2> QED BY <1>3, <1>5, <2>1, <2>2 DEF ChunkingInvisible
<1> QED BY <1>4, <1>5

\* ChunkingInvisible for inputs of any length cut anywhere: however the
\* provider cuts its text, ThinkTagParser emits what it would emit for the
\* text as a whole.
THEOREM TagsChunked == TKSpec => []ChunkingInvisible
<1>1. TKSpec => []TagsInv
  BY TagsInit, TagsStep, PTL DEF TKSpec
<1>2. []TagsInv => []ChunkingInvisible
  BY TagsRight, PTL
<1> QED BY <1>1, <1>2, PTL
=============================================================================
