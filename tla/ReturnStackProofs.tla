-------------------------- MODULE ReturnStackProofs --------------------------
(***************************************************************************)
(* For every set of variables, values and objects, and programs of every   *)
(* length: the frame pointers never dangle, unwind finds its catch frame,  *)
(* cleanups run once, fluid variables are dynamically scoped, and the      *)
(* stack implements UndoLog. All rest on the shape of the stack: a frame's *)
(* cells stay together, so that cutting the stack beneath one frame cuts   *)
(* no other.                                                               *)
(***************************************************************************)
EXTENDS ReturnStackUndoLog, SequenceTheorems, WellFoundedInduction, TLAPS

-----------------------------------------------------------------------------
(* Sequences that share a prefix *)

\* t starts with all of s.
Extends(t, s) == /\ Len(s) <= Len(t)
                 /\ \A i \in 1..Len(s) : t[i] = s[i]

\* Cutting a sequence leaves a prefix of it.
LEMMA CutFacts ==
  ASSUME NEW S, NEW s \in Seq(S), NEW n \in 0..Len(s)
  PROVE  /\ SubSeq(s, 1, n) \in Seq(S)
         /\ Len(SubSeq(s, 1, n)) = n
         /\ Extends(s, SubSeq(s, 1, n))
<1>1. n \in Nat /\ n <= Len(s) /\ Len(s) \in Nat
  BY LenProperties
<1>2. \A i \in 1..n : s[i] \in S
  BY <1>1, ElementOfSeq
<1>3. SubSeq(s, 1, n) = [i \in 1..n |-> s[i]]
  BY <1>1, <1>2, SubSeqProperties
<1>. QED
  BY <1>1, <1>2, <1>3, SubSeqProperties DEF Extends

\* Appending leaves what was there.
LEMMA AppendFacts ==
  ASSUME NEW S, NEW s \in Seq(S), NEW c \in S
  PROVE  /\ Append(s, c) \in Seq(S)
         /\ Len(Append(s, c)) = Len(s) + 1
         /\ Append(s, c)[Len(s) + 1] = c
         /\ Extends(Append(s, c), s)
  BY AppendProperties, LenProperties DEF Extends

\* So does concatenating.
LEMMA ConcatFacts ==
  ASSUME NEW S, NEW s \in Seq(S), NEW t \in Seq(S)
  PROVE  /\ s \o t \in Seq(S)
         /\ Len(s \o t) = Len(s) + Len(t)
         /\ \A i \in 1..Len(t) : (s \o t)[Len(s) + i] = t[i]
         /\ Extends(s \o t, s)
  BY ConcatProperties, LenProperties DEF Extends

-----------------------------------------------------------------------------
(* The shape of the stack *)

\* What lies beneath the link cell at i is one frame, its lowest cell at
\* b + 1. Each kind of frame starts with a kind of cell of its own.
RestoreFrame(s, i, b) ==
  /\ b = i - 4
  /\ s[i-3].kind = "var" /\ s[i-2].kind = "val" /\ s[i-1].kind = "restore"

CleanupFrame(s, i, b) ==
  /\ s[i-1].kind = "cleanup" /\ s[i-1].arg \in {1, 2}
  /\ b = (i - 3) - s[i-1].arg
  /\ s[b+1].kind = "cfa"
  /\ \A k \in (b+2)..(i-2) : s[k].kind = "obj"

RoomFrame(s, i, b) ==
  /\ s[i-1].kind = "unroom" /\ s[i-2].kind = "count" /\ s[i-2].arg \in Nat
  /\ b = (i - 3) - s[i-2].arg
  /\ \A k \in (b+1)..(i-3) : s[k].kind = "local"

FrameAt(s, i, b) ==
  /\ b \in Nat /\ b < i - 1
  /\ i + 1 <= Len(s) /\ s[i+1].kind = "remove"
  /\ RestoreFrame(s, i, b) \/ CleanupFrame(s, i, b) \/ RoomFrame(s, i, b)

\* A catch frame has the cell that throw returns through beneath its link
\* and the return address into catch above it.
CatchAt(s, i) ==
  /\ i >= 2 /\ s[i-1].kind = "ret"
  /\ i + 1 <= Len(s) /\ s[i+1].kind = "incatch"

ShapedAt(s, i) ==
  /\ s[i].kind = "link" => \E b \in Nat : FrameAt(s, i, b)
  /\ s[i].kind = "catch" => CatchAt(s, i)
  /\ s[i].kind = "remove" => i >= 2 /\ s[i-1].kind = "link"
  /\ s[i].kind = "incatch" => i >= 2 /\ s[i-1].kind = "catch"

Shaped(s) == \A i \in 1..Len(s) : ShapedAt(s, i)

\* A frame is still there in any stack that agrees up to its remove cell.
LEMMA FrameKept ==
  ASSUME NEW s, NEW t, Len(t) \in Nat, NEW i \in Nat, NEW b \in Nat,
         FrameAt(s, i, b), i + 1 <= Len(t),
         \A k \in 1..(i+1) : t[k] = s[k]
  PROVE  FrameAt(t, i, b)
<1>1. b < i - 1 /\ t[i+1].kind = "remove" /\ t[i-1] = s[i-1]
  BY DEF FrameAt
<1>2. CASE RestoreFrame(s, i, b)
  <2>1. t[i-2] = s[i-2] /\ t[i-3] = s[i-3]
    BY <1>2 DEF RestoreFrame
  <2>2. RestoreFrame(t, i, b)
    BY <1>1, <1>2, <2>1 DEF RestoreFrame
  <2>. QED  BY <1>1, <2>2 DEF FrameAt
<1>3. CASE CleanupFrame(s, i, b)
  <2>1. t[b+1] = s[b+1]
    BY <1>1
  <2>2. \A k \in (b+2)..(i-2) : t[k] = s[k]
    BY <1>1
  <2>3. CleanupFrame(t, i, b)
    BY <1>1, <1>3, <2>1, <2>2 DEF CleanupFrame
  <2>. QED  BY <1>1, <2>3 DEF FrameAt
<1>4. CASE RoomFrame(s, i, b)
  <2>1. t[i-2] = s[i-2]
    BY <1>1, <1>4 DEF RoomFrame
  <2>2. \A k \in (b+1)..(i-3) : t[k] = s[k]
    BY <1>1
  <2>3. RoomFrame(t, i, b)
    BY <1>1, <1>4, <2>1, <2>2 DEF RoomFrame
  <2>. QED  BY <1>1, <2>3 DEF FrameAt
<1>. QED  BY <1>2, <1>3, <1>4 DEF FrameAt

\* A cut that exposes neither a link nor a catch cell cuts no frame.
LEMMA ShapedCut ==
  ASSUME NEW s \in Seq(Cells), NEW t \in Seq(Cells),
         Shaped(s), Extends(s, t),
         Len(t) # 0 => t[Len(t)].kind \notin {"link", "catch"}
  PROVE  Shaped(t)
<1>. Len(s) \in Nat /\ Len(t) \in Nat
  BY LenProperties
<1>. SUFFICES ASSUME NEW i \in 1..Len(t)
              PROVE  ShapedAt(t, i)
  BY DEF Shaped
<1>1. i \in 1..Len(s) /\ \A k \in 1..i : t[k] = s[k]
  BY DEF Extends
<1>2. t[i].kind \in {"link", "catch"} => i + 1 <= Len(t) /\ t[i+1] = s[i+1]
  BY DEF Extends
<1>3. ASSUME t[i].kind = "link"
      PROVE  \E b \in Nat : FrameAt(t, i, b)
  <2>1. PICK b \in Nat : FrameAt(s, i, b)
    BY <1>1, <1>3 DEF Shaped, ShapedAt
  <2>2. i + 1 <= Len(t) /\ \A k \in 1..(i+1) : t[k] = s[k]
    BY <1>1, <1>2, <1>3
  <2>3. FrameAt(t, i, b)
    BY <2>1, <2>2, FrameKept
  <2>. QED  BY <2>3
<1>4. ASSUME t[i].kind = "catch"
      PROVE  CatchAt(t, i)
  BY <1>1, <1>2, <1>4 DEF Shaped, ShapedAt, CatchAt
<1>5. /\ t[i].kind = "remove" => i >= 2 /\ t[i-1].kind = "link"
      /\ t[i].kind = "incatch" => i >= 2 /\ t[i-1].kind = "catch"
  <2>1. ShapedAt(s, i)
    BY <1>1 DEF Shaped
  <2>2. t[i] = s[i] /\ (i >= 2 => t[i-1] = s[i-1])
    BY <1>1
  <2>. QED  BY <2>1, <2>2 DEF ShapedAt
<1>. QED  BY <1>3, <1>4, <1>5 DEF ShapedAt

\* Pushing cells on top leaves what was shaped shaped.
LEMMA ShapedExtend ==
  ASSUME NEW s \in Seq(Cells), NEW t \in Seq(Cells),
         Shaped(s), Extends(t, s),
         \A i \in (Len(s)+1)..Len(t) : ShapedAt(t, i)
  PROVE  Shaped(t)
<1>. Len(s) \in Nat /\ Len(t) \in Nat
  BY LenProperties
<1>1. ASSUME NEW i \in 1..Len(s)
      PROVE  ShapedAt(t, i)
  <2>1. \A k \in 1..Len(s) : t[k] = s[k]
    BY DEF Extends
  <2>2. ASSUME t[i].kind = "link"
        PROVE  \E b \in Nat : FrameAt(t, i, b)
    <3>1. PICK b \in Nat : FrameAt(s, i, b)
      BY <2>1, <2>2 DEF Shaped, ShapedAt
    <3>2. i + 1 <= Len(s) /\ i + 1 <= Len(t) /\ t[i+1] = s[i+1]
      BY <2>1, <3>1 DEF FrameAt, Extends
    <3>3. \A k \in 1..(i+1) : t[k] = s[k]
      BY <2>1, <3>2
    <3>4. FrameAt(t, i, b)
      BY <3>1, <3>2, <3>3, FrameKept
    <3>. QED  BY <3>4
  <2>3. ASSUME t[i].kind = "catch"
        PROVE  CatchAt(t, i)
    <3>1. CatchAt(s, i)
      BY <2>1, <2>3 DEF Shaped, ShapedAt
    <3>. QED  BY <2>1, <3>1 DEF CatchAt, Extends
  <2>4. /\ t[i].kind = "remove" => i >= 2 /\ t[i-1].kind = "link"
        /\ t[i].kind = "incatch" => i >= 2 /\ t[i-1].kind = "catch"
    <3>1. ShapedAt(s, i)
      BY DEF Shaped
    <3>2. t[i] = s[i] /\ (i >= 2 => t[i-1] = s[i-1])
      BY <2>1
    <3>. QED  BY <3>1, <3>2 DEF ShapedAt
  <2>. QED  BY <2>2, <2>3, <2>4 DEF ShapedAt
<1>2. \A i \in 1..Len(t) : i \in 1..Len(s) \/ i \in (Len(s)+1)..Len(t)
  OBVIOUS
<1>. QED  BY <1>1, <1>2 DEF Shaped

-----------------------------------------------------------------------------
(* The chains through the stack *)

CellsOf(s, kind) == {i \in 1..Len(s) : s[i].kind = kind}

Linked(s, kind, p) ==
  /\ Newest(p, CellsOf(s, kind))
  /\ \A i \in CellsOf(s, kind) :
       Newest(s[i].arg, {j \in CellsOf(s, kind) : j < i})

\* Cutting the stack makes the newest cell below the cut the newest.
LEMMA LinkedCut ==
  ASSUME NEW s \in Seq(Cells), NEW t \in Seq(Cells), NEW kind, NEW p, NEW q,
         Linked(s, kind, p), Extends(s, t),
         Newest(q, {i \in CellsOf(s, kind) : i <= Len(t)})
  PROVE  Linked(t, kind, q)
<1>. Len(s) \in Nat /\ Len(t) \in Nat
  BY LenProperties
<1>1. CellsOf(t, kind) = {i \in CellsOf(s, kind) : i <= Len(t)}
  BY DEF CellsOf, Extends
<1>2. ASSUME NEW i \in CellsOf(t, kind)
      PROVE  Newest(t[i].arg, {j \in CellsOf(t, kind) : j < i})
  <2>1. i \in CellsOf(s, kind) /\ i \in 1..Len(t) /\ t[i] = s[i]
    BY <1>1 DEF CellsOf, Extends
  <2>2. {j \in CellsOf(t, kind) : j < i} = {j \in CellsOf(s, kind) : j < i}
    BY <1>1, <2>1 DEF CellsOf
  <2>. QED  BY <2>1, <2>2 DEF Linked
<1>. QED  BY <1>1, <1>2 DEF Linked

\* Pushing cells of other kinds leaves a chain alone.
LEMMA LinkedSame ==
  ASSUME NEW s \in Seq(Cells), NEW t \in Seq(Cells), NEW kind, NEW p,
         Linked(s, kind, p), Extends(t, s),
         \A i \in (Len(s)+1)..Len(t) : t[i].kind # kind
  PROVE  Linked(t, kind, p)
<1>. Len(s) \in Nat /\ Len(t) \in Nat
  BY LenProperties
<1>1. CellsOf(t, kind) = CellsOf(s, kind)
  BY DEF CellsOf, Extends
<1>2. \A i \in CellsOf(s, kind) : t[i] = s[i]
  BY DEF CellsOf, Extends
<1>. QED  BY <1>1, <1>2 DEF Linked

\* Pushing one cell of a kind that points to the newest makes it the newest.
LEMMA LinkedPush ==
  ASSUME NEW s \in Seq(Cells), NEW t \in Seq(Cells), NEW kind, NEW p,
         Linked(s, kind, p), Extends(t, s),
         NEW j \in (Len(s)+1)..Len(t), t[j].kind = kind, t[j].arg = p,
         \A i \in (Len(s)+1)..Len(t) : t[i].kind = kind => i = j
  PROVE  Linked(t, kind, j)
<1>. Len(s) \in Nat /\ Len(t) \in Nat
  BY LenProperties
<1>1. CellsOf(t, kind) = CellsOf(s, kind) \cup {j}
  BY DEF CellsOf, Extends
<1>2. \A i \in CellsOf(s, kind) : t[i] = s[i] /\ i < j /\ i \in Nat
  BY DEF CellsOf, Extends
<1>3. Newest(j, CellsOf(t, kind))
  BY <1>1, <1>2 DEF Newest
<1>4. ASSUME NEW i \in CellsOf(s, kind)
      PROVE  Newest(t[i].arg, {k \in CellsOf(t, kind) : k < i})
  <2>1. {k \in CellsOf(t, kind) : k < i} = {k \in CellsOf(s, kind) : k < i}
    BY <1>1, <1>2
  <2>. QED  BY <1>2, <2>1 DEF Linked
<1>5. Newest(t[j].arg, {k \in CellsOf(t, kind) : k < j})
  <2>1. {k \in CellsOf(t, kind) : k < j} = CellsOf(s, kind)
    BY <1>1, <1>2
  <2>. QED  BY <2>1 DEF Linked
<1>. QED  BY <1>1, <1>3, <1>4, <1>5 DEF Linked

-----------------------------------------------------------------------------
(* Good stacks, and what keeps them good *)

\* Whatever unwinds has a catch frame beneath it to unwind to.
Caught(s) ==
  \A i \in 1..Len(s) :
    s[i].kind \in {"dead", "inunwind"} =>
      \E j \in 1..Len(s) : j < i /\ s[j].kind = "catch"

Good(s, p, q) ==
  /\ Shaped(s)
  /\ Linked(s, "link", p) /\ Linked(s, "catch", q)
  /\ Caught(s)

\* Chain pointers are null or point into the stack, to a cell of their kind.
LEMMA LinkedRange ==
  ASSUME NEW s \in Seq(Cells), NEW kind, NEW p, Linked(s, kind, p)
  PROVE  /\ p \in 0..Len(s)
         /\ p # 0 => s[p].kind = kind
         /\ \A i \in 1..Len(s) : s[i].kind = kind => i <= p /\ p # 0
<1>. Len(s) \in Nat
  BY LenProperties
<1>. QED  BY DEF Linked, Newest, CellsOf

\* Pushing a return address or a data cell.
LEMMA PushGood ==
  ASSUME NEW s \in Seq(Cells), NEW p, NEW q, Good(s, p, q),
         NEW c \in {Ret, Data, InRemove, Dead, InUnwind},
         c \in {Dead, InUnwind} => q # 0
  PROVE  Append(s, c) \in Seq(Cells) /\ Good(Append(s, c), p, q)
<1>. DEFINE t == Append(s, c)
<1>1. c \in Cells /\ c.kind \in {"ret", "data", "inremove", "dead", "inunwind"}
  BY DEF Ret, Data, InRemove, Dead, InUnwind, Cell, Cells, Plain
<1>2. /\ t \in Seq(Cells) /\ Len(t) = Len(s) + 1 /\ t[Len(s) + 1] = c
      /\ Extends(t, s) /\ Len(s) \in Nat
  BY <1>1, AppendFacts, LenProperties
<1>. HIDE DEF t
<1>3. \A i \in (Len(s)+1)..Len(t) : t[i] = c
  BY <1>2
<1>4. Shaped(t)
  <2>1. \A i \in (Len(s)+1)..Len(t) : ShapedAt(t, i)
    BY <1>1, <1>3 DEF ShapedAt
  <2>. QED  BY <1>2, <2>1, ShapedExtend DEF Good
<1>5. Linked(t, "link", p) /\ Linked(t, "catch", q)
  BY <1>1, <1>2, <1>3, LinkedSame DEF Good
<1>6. ASSUME NEW i \in 1..Len(t), t[i].kind \in {"dead", "inunwind"}
      PROVE  \E j \in 1..Len(t) : j < i /\ t[j].kind = "catch"
  <2>1. CASE i \in 1..Len(s)
    <3>1. PICK j \in 1..Len(s) : j < i /\ s[j].kind = "catch"
      BY <1>2, <1>6, <2>1 DEF Good, Caught, Extends
    <3>2. j \in 1..Len(t) /\ t[j].kind = "catch"
      BY <1>2, <3>1 DEF Extends
    <3>. QED  BY <3>1, <3>2
  <2>2. CASE i = Len(s) + 1
    <3>1. q # 0
      BY <1>2, <1>6, <2>2 DEF Ret, Data, InRemove, Cell
    <3>2. q \in 1..Len(s) /\ s[q].kind = "catch"
      BY <1>2, <3>1, LinkedRange DEF Good
    <3>3. q \in 1..Len(t) /\ q < i /\ t[q].kind = "catch"
      BY <1>2, <2>2, <3>2 DEF Extends
    <3>. QED  BY <3>3
  <2>. QED  BY <1>2, <2>1, <2>2
<1>7. Caught(t)
  BY <1>6 DEF Caught
<1>. QED  BY <1>2, <1>4, <1>5, <1>7 DEF Good, t

\* Cutting the stack above a cell that is no link of either chain.
LEMMA CutGood ==
  ASSUME NEW s \in Seq(Cells), NEW p, NEW q, Good(s, p, q),
         NEW n \in 0..Len(s),
         n # 0 => s[n].kind \notin {"link", "catch"},
         NEW p2, Newest(p2, {i \in CellsOf(s, "link") : i <= n}),
         NEW q2, Newest(q2, {i \in CellsOf(s, "catch") : i <= n})
  PROVE  SubSeq(s, 1, n) \in Seq(Cells) /\ Good(SubSeq(s, 1, n), p2, q2)
<1>. DEFINE t == SubSeq(s, 1, n)
<1>1. t \in Seq(Cells) /\ Len(t) = n /\ Extends(s, t) /\ Len(s) \in Nat
  BY CutFacts, LenProperties
<1>. HIDE DEF t
<1>2. Len(t) # 0 => t[Len(t)].kind \notin {"link", "catch"}
  BY <1>1 DEF Extends
<1>3. Shaped(t)
  BY <1>1, <1>2, ShapedCut DEF Good
<1>4. Linked(t, "link", p2) /\ Linked(t, "catch", q2)
  BY <1>1, LinkedCut DEF Good
<1>5. Caught(t)
  BY <1>1 DEF Good, Caught, Extends
<1>. QED  BY <1>1, <1>3, <1>4, <1>5 DEF Good, t
HeldKinds == {"var", "val", "cfa", "obj", "local", "count"}

\* The stack s when LinkFrame has pushed a frame.
WithFrame(s, held, cleanup, p) ==
  s \o held \o <<cleanup, Cell("link", p), Cell("remove", 0)>>

\* The cells that LinkFrame pushes, and where they are.
Framed(t, s, held, cleanup, p, j) ==
  /\ t \in Seq(Cells) /\ Len(t) = j + 1 /\ j \in Nat
  /\ Extends(t, s)
  /\ \A k \in 1..Len(held) : t[Len(s) + k] = held[k]
  /\ t[j-1] = cleanup
  /\ t[j] = Cell("link", p)
  /\ t[j+1] = Cell("remove", 0)

LEMMA FrameCells ==
  ASSUME NEW s \in Seq(Cells), NEW p \in Nat,
         NEW held \in Seq(Cells), NEW cleanup \in Cells
  PROVE  Framed(WithFrame(s, held, cleanup, p), s, held, cleanup, p,
                Len(s) + Len(held) + 2)
<1>. DEFINE t == WithFrame(s, held, cleanup, p)
            j == Len(s) + Len(held) + 2
<1>. DEFINE top == <<cleanup, Cell("link", p), Cell("remove", 0)>>
            mid == s \o held
<1>1. Cell("link", p) \in Cells /\ Cell("remove", 0) \in Cells
  BY DEF Cell, Cells, Plain
<1>2. /\ top \in Seq(Cells) /\ Len(top) = 3
      /\ top[1] = cleanup /\ top[2] = Cell("link", p)
      /\ top[3] = Cell("remove", 0)
  BY <1>1
<1>3. /\ mid \in Seq(Cells) /\ Len(mid) = Len(s) + Len(held)
      /\ \A k \in 1..Len(held) : mid[Len(s) + k] = held[k]
      /\ Extends(mid, s)
  BY ConcatFacts
<1>. HIDE DEF top, mid
<1>4. /\ mid \o top \in Seq(Cells) /\ Len(mid \o top) = Len(mid) + Len(top)
      /\ \A k \in 1..Len(top) : (mid \o top)[Len(mid) + k] = top[k]
      /\ Extends(mid \o top, mid)
  <2>1. mid \in Seq(Cells) /\ top \in Seq(Cells)
    BY <1>2, <1>3
  <2>. QED  BY <2>1, ConcatFacts
<1>5. t = mid \o top
  BY DEF mid, top, WithFrame
<1>. HIDE DEF t
<1>6. Len(s) \in Nat /\ Len(held) \in Nat
  BY LenProperties
<1>7. t \in Seq(Cells) /\ Len(t) = j + 1 /\ j \in Nat
  BY <1>2, <1>3, <1>4, <1>5, <1>6
<1>8. Extends(t, s)
  BY <1>3, <1>4, <1>5, <1>6, <1>7 DEF Extends
<1>9. ASSUME NEW k \in 1..Len(held) PROVE t[Len(s) + k] = held[k]
  BY <1>3, <1>4, <1>5, <1>6 DEF Extends
<1>10. t[j-1] = cleanup /\ t[j] = Cell("link", p) /\ t[j+1] = Cell("remove", 0)
  <2>1. /\ t[Len(mid) + 1] = top[1] /\ t[Len(mid) + 2] = top[2]
        /\ t[Len(mid) + 3] = top[3]
    <3>1. 1 \in 1..Len(top) /\ 2 \in 1..Len(top) /\ 3 \in 1..Len(top)
      BY <1>2
    <3>. QED  BY <1>4, <1>5, <3>1
  <2>2. Len(mid) + 1 = j - 1 /\ Len(mid) + 2 = j /\ Len(mid) + 3 = j + 1
    BY <1>3, <1>6
  <2>. QED  BY <1>2, <2>1, <2>2
<1>. QED  BY <1>7, <1>8, <1>9, <1>10 DEF Framed, t

\* Linking a frame of one of the three shapes.
LEMMA FrameGood ==
  ASSUME NEW s \in Seq(Cells), NEW p \in Nat, NEW q, Good(s, p, q),
         NEW held \in Seq(Cells), NEW cleanup \in Cells,
         \A k \in 1..Len(held) : held[k].kind \in HeldKinds,
         cleanup.kind \in {"restore", "cleanup", "unroom"},
         LET t == WithFrame(s, held, cleanup, p)
             j == Len(s) + Len(held) + 2
         IN  \/ RestoreFrame(t, j, Len(s)) \/ CleanupFrame(t, j, Len(s))
             \/ RoomFrame(t, j, Len(s))
  PROVE  LET t == WithFrame(s, held, cleanup, p)
             j == Len(s) + Len(held) + 2
         IN  t \in Seq(Cells) /\ Good(t, j, q)
<1>. DEFINE t == WithFrame(s, held, cleanup, p)
            j == Len(s) + Len(held) + 2
<1>0. \/ RestoreFrame(t, j, Len(s)) \/ CleanupFrame(t, j, Len(s))
      \/ RoomFrame(t, j, Len(s))
  OBVIOUS
<1>1. /\ t \in Seq(Cells) /\ Len(t) = j + 1 /\ j \in Nat
      /\ Extends(t, s)
      /\ \A k \in 1..Len(held) : t[Len(s) + k] = held[k]
      /\ t[j-1] = cleanup
      /\ t[j] = Cell("link", p)
      /\ t[j+1] = Cell("remove", 0)
  <2>1. Framed(t, s, held, cleanup, p, j)
    BY FrameCells
  <2>. QED  BY <2>1 DEF Framed
<1>2. Len(s) \in Nat /\ Len(held) \in Nat
  BY LenProperties
<1>. HIDE DEF t, j
<1>3. t[j].kind = "link" /\ t[j].arg = p /\ t[j+1].kind = "remove"
  BY <1>1 DEF Cell
<1>11. Len(t) = j + 1 /\ j \in Nat
  BY <1>1
<1>4. ASSUME NEW i \in (Len(s)+1)..Len(t), i # j, i # j + 1
      PROVE  t[i].kind \in HeldKinds \cup {"restore", "cleanup", "unroom"}
  <2>1. CASE i = j - 1
    BY <1>1, <2>1
  <2>2. CASE i < j - 1
    <3>1. i - Len(s) \in 1..Len(held) /\ i = Len(s) + (i - Len(s))
      BY <1>2, <2>2 DEF j
    <3>. QED  BY <1>1, <3>1
  <2>3. i \in Nat /\ j \in Nat /\ i <= j + 1 /\ i # j /\ i # j + 1
    BY <1>2, <1>11, <1>4
  <2>. QED  BY <2>1, <2>2, <2>3
<1>5. ASSUME NEW i \in (Len(s)+1)..Len(t)
      PROVE  /\ t[i].kind = "link" => i = j
             /\ t[i].kind = "remove" => i = j + 1
             /\ t[i].kind \notin {"catch", "incatch", "dead", "inunwind"}
  BY <1>3, <1>4 DEF HeldKinds
<1>6. FrameAt(t, j, Len(s))
  <2>1. Len(s) < j - 1
    BY <1>2 DEF j
  <2>. QED  BY <1>0, <1>1, <1>2, <1>3, <2>1 DEF FrameAt
<1>7. Shaped(t)
  <2>1. j >= 2 /\ t[(j+1)-1].kind = "link"
    BY <1>1, <1>2, <1>3 DEF j
  <2>2. ASSUME NEW i \in (Len(s)+1)..Len(t)
        PROVE  ShapedAt(t, i)
    <3>1. i \in Nat
      BY <1>2
    <3>2. CASE i = j
      <4>1. \E b \in Nat : FrameAt(t, j, b)
        BY <1>2, <1>6
      <4>. QED  BY <1>3, <3>2, <4>1 DEF ShapedAt
    <3>3. CASE i = j + 1
      <4>1. t[i].kind = "remove" /\ i >= 2 /\ t[i-1].kind = "link"
        BY <1>3, <2>1, <1>11, <3>3
      <4>. QED  BY <4>1 DEF ShapedAt
    <3>4. CASE i # j /\ i # j + 1
      <4>1. t[i].kind \notin {"link", "remove", "catch", "incatch"}
        BY <1>5, <3>4
      <4>. QED  BY <4>1 DEF ShapedAt
    <3>. QED  BY <3>2, <3>3, <3>4
  <2>. QED  BY <1>1, <2>2, ShapedExtend DEF Good
<1>8. Linked(t, "link", j)
  <2>1. j \in (Len(s)+1)..Len(t)
    BY <1>1, <1>2 DEF j
  <2>. QED  BY <1>1, <1>3, <1>5, <2>1, LinkedPush DEF Good
<1>9. Linked(t, "catch", q)
  BY <1>1, <1>5, LinkedSame DEF Good
<1>10. Caught(t)
  <2>. SUFFICES ASSUME NEW i \in 1..Len(t), t[i].kind \in {"dead", "inunwind"}
                PROVE  \E k \in 1..Len(t) : k < i /\ t[k].kind = "catch"
    BY DEF Caught
  <2>1. i \in 1..Len(s) /\ s[i].kind \in {"dead", "inunwind"}
    BY <1>1, <1>2, <1>5 DEF Extends
  <2>2. PICK k \in 1..Len(s) : k < i /\ s[k].kind = "catch"
    BY <2>1 DEF Good, Caught
  <2>3. k \in 1..Len(t) /\ t[k].kind = "catch"
    BY <1>1, <1>2, <2>2 DEF Extends
  <2>. QED  BY <2>2, <2>3
<1>. QED  BY <1>1, <1>7, <1>8, <1>9, <1>10 DEF Good, t, j

\* Pushing a catch frame.
LEMMA CatchGood ==
  ASSUME NEW s \in Seq(Cells), NEW p, NEW q \in Nat, Good(s, p, q),
         NEW t, t = s \o <<Ret, Cell("catch", q), InCatch>>
  PROVE  t \in Seq(Cells) /\ Good(t, p, Len(s) + 2)
<1>. DEFINE top == <<Ret, Cell("catch", q), InCatch>>
            n == Len(s)
<1>1. Ret \in Cells /\ Cell("catch", q) \in Cells /\ InCatch \in Cells
  BY DEF Cell, Cells, Plain, Ret, InCatch
<1>2. /\ top \in Seq(Cells) /\ Len(top) = 3
      /\ top[1] = Ret /\ top[2] = Cell("catch", q) /\ top[3] = InCatch
  BY <1>1
<1>3. n \in Nat
  BY LenProperties
<1>. HIDE DEF top
<1>4. /\ t \in Seq(Cells) /\ Len(t) = n + 3 /\ Extends(t, s)
      /\ \A k \in 1..3 : t[n + k] = top[k]
  <2>1. t = s \o top /\ top \in Seq(Cells)
    BY <1>2 DEF top
  <2>2. /\ s \o top \in Seq(Cells) /\ Len(s \o top) = Len(s) + Len(top)
        /\ \A i \in 1..Len(top) : (s \o top)[Len(s) + i] = top[i]
        /\ Extends(s \o top, s)
    BY <2>1, ConcatFacts
  <2>. QED  BY <1>2, <2>1, <2>2
<1>5. /\ t[n+1] = Ret /\ t[n+2] = Cell("catch", q) /\ t[n+3] = InCatch
  BY <1>2, <1>4
<1>6. /\ t[n+1].kind = "ret" /\ t[n+2].kind = "catch" /\ t[n+2].arg = q
      /\ t[n+3].kind = "incatch"
  BY <1>5 DEF Ret, InCatch, Cell
<1>. HIDE DEF n
<1>7. ASSUME NEW i \in (n+1)..Len(t)
      PROVE  i = n+1 \/ i = n+2 \/ i = n+3
  BY <1>3, <1>4
<1>8. Shaped(t)
  <2>1. CatchAt(t, n+2) /\ n+3 >= 2 /\ t[(n+3)-1].kind = "catch"
    <3>1. (n+2)-1 = n+1 /\ (n+2)+1 = n+3 /\ (n+3)-1 = n+2
      BY <1>3
    <3>. QED  BY <1>3, <1>4, <1>6, <3>1 DEF CatchAt
  <2>2. ASSUME NEW i \in (n+1)..Len(t)
        PROVE  /\ t[i].kind # "link" /\ t[i].kind # "remove"
               /\ t[i].kind = "catch" => CatchAt(t, i)
               /\ t[i].kind = "incatch" => i >= 2 /\ t[i-1].kind = "catch"
    BY <1>6, <1>7, <2>1
  <2>3. \A i \in (n+1)..Len(t) : ShapedAt(t, i)
    BY <2>2 DEF ShapedAt
  <2>. QED  BY <1>4, <2>3, ShapedExtend DEF Good, n
<1>9. Linked(t, "link", p)
  <2>1. \A i \in (n+1)..Len(t) : t[i].kind # "link"
    BY <1>6, <1>7
  <2>. QED  BY <1>4, <2>1, LinkedSame DEF Good, n
<1>10. Linked(t, "catch", n + 2)
  <2>1. n + 2 \in (n+1)..Len(t)
    BY <1>3, <1>4
  <2>3. \A i \in (n+1)..Len(t) : t[i].kind = "catch" => i = n + 2
    BY <1>6, <1>7
  <2>2. Linked(s, "catch", q)
    BY DEF Good
  <2>. QED  BY <1>4, <1>6, <2>1, <2>2, <2>3, LinkedPush DEF n
<1>11. Caught(t)
  <2>. SUFFICES ASSUME NEW i \in 1..Len(t), t[i].kind \in {"dead", "inunwind"}
                PROVE  \E k \in 1..Len(t) : k < i /\ t[k].kind = "catch"
    BY DEF Caught
  <2>1. i \in 1..Len(s) /\ s[i].kind \in {"dead", "inunwind"}
    BY <1>3, <1>4, <1>6, <1>7 DEF Extends, n
  <2>2. PICK k \in 1..Len(s) : k < i /\ s[k].kind = "catch"
    BY <2>1 DEF Good, Caught
  <2>3. k \in 1..Len(t) /\ t[k].kind = "catch"
    BY <1>3, <1>4, <2>2 DEF Extends, n
  <2>. QED  BY <2>2, <2>3
<1>. QED  BY <1>4, <1>8, <1>9, <1>10, <1>11 DEF Good, n
\* Beneath the newest frame, if no catch frame is newer, there is a place to
\* cut, and the frame's own link cell says what becomes the newest frame.
LEMMA UnlinkBase ==
  ASSUME NEW s \in Seq(Cells), NEW p \in Nat, NEW q \in Nat, Good(s, p, q),
         p # 0, q < p
  PROVE  \E b \in 0..Len(s) :
           /\ FrameAt(s, p, b)
           /\ b # 0 => s[b].kind \notin {"link", "catch"}
           /\ Newest(s[p].arg, {i \in CellsOf(s, "link") : i <= b})
           /\ Newest(q, {i \in CellsOf(s, "catch") : i <= b})
<1>1. p \in 1..Len(s) /\ s[p].kind = "link" /\ Len(s) \in Nat
  BY LinkedRange, LenProperties DEF Good
<1>2. PICK b \in Nat : FrameAt(s, p, b)
  BY <1>1 DEF Good, Shaped, ShapedAt
<1>3. b < p - 1 /\ b \in 0..Len(s)
  BY <1>1, <1>2 DEF FrameAt
<1>4. ASSUME NEW i \in (b+1)..(p-1)
      PROVE  s[i].kind \notin {"link", "catch", "remove", "incatch"}
  <2>1. CASE RestoreFrame(s, p, b)
    <3>1. i = p - 3 \/ i = p - 2 \/ i = p - 1
      BY <1>1, <2>1 DEF RestoreFrame
    <3>. QED  BY <2>1, <3>1 DEF RestoreFrame
  <2>2. CASE CleanupFrame(s, p, b)
    <3>1. i = b + 1 \/ i \in (b+2)..(p-2) \/ i = p - 1
      BY <1>1, <1>3
    <3>. QED  BY <2>2, <3>1 DEF CleanupFrame
  <2>3. CASE RoomFrame(s, p, b)
    <3>1. i \in (b+1)..(p-3) \/ i = p - 2 \/ i = p - 1
      BY <1>1, <1>3
    <3>. QED  BY <2>3, <3>1 DEF RoomFrame
  <2>. QED  BY <1>2, <2>1, <2>2, <2>3 DEF FrameAt
<1>5. ASSUME b # 0
      PROVE  s[b].kind \notin {"link", "catch"}
  <2>1. b \in 1..Len(s) /\ b + 1 \in (b+1)..(p-1)
    BY <1>3, <1>5
  <2>2. s[b+1].kind \notin {"remove", "incatch"}
    BY <1>4, <2>1
  <2>3. s[b].kind = "link" => s[b+1].kind = "remove"
    BY <2>1 DEF Good, Shaped, ShapedAt, FrameAt
  <2>4. s[b].kind = "catch" => s[b+1].kind = "incatch"
    BY <2>1 DEF Good, Shaped, ShapedAt, CatchAt
  <2>. QED  BY <2>2, <2>3, <2>4
<1>6. Newest(s[p].arg, {i \in CellsOf(s, "link") : i <= b})
  <2>1. Newest(s[p].arg, {i \in CellsOf(s, "link") : i < p})
    BY <1>1 DEF Good, Linked, CellsOf
  <2>2. ASSUME NEW i \in CellsOf(s, "link")
        PROVE  i < p <=> i <= b
    BY <1>1, <1>3, <1>4 DEF CellsOf
  <2>3. {i \in CellsOf(s, "link") : i < p} = {i \in CellsOf(s, "link") : i <= b}
    BY <2>2
  <2>. QED  BY <2>1, <2>3
<1>7. Newest(q, {i \in CellsOf(s, "catch") : i <= b})
  <2>1. Newest(q, CellsOf(s, "catch"))
    BY DEF Good, Linked
  <2>2. ASSUME NEW i \in CellsOf(s, "catch")
        PROVE  i <= b
    <3>1. i <= q /\ i \in 1..Len(s) /\ s[i].kind = "catch"
      BY <2>1 DEF Newest, CellsOf
    <3>. QED  BY <1>1, <1>3, <1>4, <3>1
  <2>3. {i \in CellsOf(s, "catch") : i <= b} = CellsOf(s, "catch")
    BY <2>2
  <2>. QED  BY <2>1, <2>3
<1>. QED  BY <1>2, <1>3, <1>5, <1>6, <1>7

-----------------------------------------------------------------------------
(* The inductive invariant *)

IInv == /\ TypeOK
        /\ Good(rs, fp, cf)
        /\ pc = "unwind" => cf # 0

\* What unlink does to a good stack, whoever calls it.
LEMMA UnlinkGood ==
  ASSUME TypeOK, Good(rs, fp, cf), fp # 0, cf < fp,
         NEW again \in {"exit", "unwind"}, NEW back \in {InRemove, InUnwind},
         back = InUnwind => cf # 0,
         Unlink(again, back)
  PROVE  /\ rs' \in Seq(Cells) /\ fp' \in Nat
         /\ env' \in [Var -> Val] /\ armed' \subseteq Obj
         /\ pc' \in {again, "run"}
         /\ Good(rs', fp', cf)
<1>1. rs \in Seq(Cells) /\ Len(rs) \in Nat /\ fp \in Nat /\ cf \in Nat
  BY LenProperties DEF TypeOK
<1>2. PICK b \in 0..Len(rs) :
        /\ FrameAt(rs, fp, b)
        /\ b # 0 => rs[b].kind \notin {"link", "catch"}
        /\ Newest(rs[fp].arg, {i \in CellsOf(rs, "link") : i <= b})
        /\ Newest(cf, {i \in CellsOf(rs, "catch") : i <= b})
  BY <1>1, UnlinkBase
<1>3. SubSeq(rs, 1, b) \in Seq(Cells) /\ Good(SubSeq(rs, 1, b), rs[fp].arg, cf)
  BY <1>1, <1>2, CutGood
<1>4. fp' = rs[fp].arg /\ rs[fp].arg \in Nat
  <2>1. rs[fp].arg = 0 \/ rs[fp].arg \in 1..Len(rs)
    BY <1>2 DEF Newest, CellsOf
  <2>. QED  BY <1>1, <2>1 DEF Unlink
<1>5. fp \in 1..Len(rs) /\ fp - 1 \in 1..Len(rs) /\ fp - 2 \in 1..Len(rs)
      /\ b < fp - 1
  BY <1>1, <1>2 DEF FrameAt, RestoreFrame, CleanupFrame, RoomFrame
<1>6. CASE UnlinkRestore(again)
  <2>1. RestoreFrame(rs, fp, b)
    BY <1>2, <1>6 DEF UnlinkRestore, Is, FrameAt, CleanupFrame, RoomFrame
  <2>2. rs' = SubSeq(rs, 1, b) /\ pc' = again /\ armed' = armed
    BY <1>6, <2>1 DEF UnlinkRestore, Cut, RestoreFrame
  <2>3. rs[fp - 2].arg \in Val
    <3>1. rs[fp - 2] \in Cells /\ rs[fp - 2].kind = "val"
      BY <1>1, <1>5, <2>1, ElementOfSeq DEF RestoreFrame
    <3>. QED  BY <3>1 DEF Cells, Plain
  <2>4. env' \in [Var -> Val]
    BY <1>6, <2>3 DEF UnlinkRestore, TypeOK
  <2>. QED  BY <1>3, <1>4, <2>2, <2>4 DEF TypeOK
<1>7. CASE UnlinkRoom(again)
  <2>1. RoomFrame(rs, fp, b)
    BY <1>2, <1>7 DEF UnlinkRoom, Is, FrameAt, CleanupFrame, RestoreFrame
  <2>2. /\ rs' = SubSeq(rs, 1, b) /\ pc' = again /\ armed' = armed
        /\ env' = env
    BY <1>7, <2>1 DEF UnlinkRoom, Cut, RoomFrame
  <2>. QED  BY <1>3, <1>4, <2>2 DEF TypeOK
<1>8. CASE UnlinkCleanup(back)
  <2>1. CleanupFrame(rs, fp, b)
    BY <1>2, <1>8 DEF UnlinkCleanup, Is, FrameAt, RoomFrame, RestoreFrame
  <2>2. /\ rs' = Append(SubSeq(rs, 1, b), back) /\ pc' = "run"
        /\ env' = env /\ armed' \subseteq armed
    BY <1>8, <2>1 DEF UnlinkCleanup, Cut, CleanupFrame
  <2>3. back \in {Ret, Data, InRemove, Dead, InUnwind}
        /\ (back \in {Dead, InUnwind} => cf # 0)
    BY DEF InRemove, InUnwind, Dead, Cell
  <2>4. rs' \in Seq(Cells) /\ Good(rs', rs[fp].arg, cf)
    BY <1>3, <2>2, <2>3, PushGood
  <2>. QED  BY <1>4, <2>2, <2>4 DEF TypeOK
<1>. QED  BY <1>6, <1>7, <1>8 DEF Unlink
\* Cutting off one return address, data cell or the like, which belongs to
\* no frame.
LEMMA PopGood ==
  ASSUME TypeOK, Good(rs, fp, cf), rs # <<>>,
         rs[Depth].kind \in {"ret", "data", "inremove", "inunwind"}
  PROVE  SubSeq(rs, 1, Depth - 1) \in Seq(Cells)
         /\ Good(SubSeq(rs, 1, Depth - 1), fp, cf)
<1>1. rs \in Seq(Cells) /\ Depth \in Nat /\ Depth # 0
  BY LenProperties, EmptySeq DEF TypeOK, Depth
<1>2. Depth - 1 # 0 => rs[Depth - 1].kind \notin {"link", "catch"}
  <2>. SUFFICES ASSUME Depth - 1 # 0
                PROVE  rs[Depth - 1].kind \notin {"link", "catch"}
    OBVIOUS
  <2>0. Depth = Len(rs)
    BY DEF Depth
  <2>1. Depth - 1 \in 1..Len(rs) /\ (Depth - 1) + 1 = Depth
    BY <1>1, <2>0
  <2>2. rs[Depth - 1].kind = "link" => rs[Depth].kind = "remove"
    BY <2>1 DEF Good, Shaped, ShapedAt, FrameAt
  <2>3. rs[Depth - 1].kind = "catch" => rs[Depth].kind = "incatch"
    BY <2>1 DEF Good, Shaped, ShapedAt, CatchAt
  <2>. QED  BY <2>2, <2>3
<1>3. ASSUME NEW kind \in {"link", "catch"}
      PROVE  {i \in CellsOf(rs, kind) : i <= Depth - 1} = CellsOf(rs, kind)
  BY <1>1 DEF CellsOf, Depth
<1>4. /\ Newest(fp, {i \in CellsOf(rs, "link") : i <= Depth - 1})
      /\ Newest(cf, {i \in CellsOf(rs, "catch") : i <= Depth - 1})
  BY <1>3 DEF Good, Linked
<1>5. Depth - 1 \in 0..Len(rs)
  BY <1>1 DEF Depth
<1>. QED  BY <1>1, <1>2, <1>4, <1>5, CutGood

\* Dropping a catch frame, with all that is above it, once no frame is.
LEMMA DropCatchGood ==
  ASSUME TypeOK, Good(rs, fp, cf), cf # 0, fp < cf
  PROVE  /\ SubSeq(rs, 1, cf - 2) \in Seq(Cells)
         /\ rs[cf].arg \in Nat
         /\ Good(SubSeq(rs, 1, cf - 2), fp, rs[cf].arg)
<1>1. rs \in Seq(Cells) /\ Len(rs) \in Nat /\ cf \in Nat /\ fp \in Nat
  BY LenProperties DEF TypeOK
<1>2. cf \in 1..Len(rs) /\ rs[cf].kind = "catch"
  BY <1>1, LinkedRange DEF Good
<1>3. cf >= 2 /\ rs[cf - 1].kind = "ret"
  BY <1>2 DEF Good, Shaped, ShapedAt, CatchAt
<1>4. cf - 2 # 0 => rs[cf - 2].kind \notin {"link", "catch"}
  <2>. SUFFICES ASSUME cf - 2 # 0
                PROVE  rs[cf - 2].kind \notin {"link", "catch"}
    OBVIOUS
  <2>1. cf - 2 \in 1..Len(rs) /\ (cf - 2) + 1 = cf - 1
    BY <1>1, <1>2, <1>3
  <2>2. rs[cf - 2].kind = "link" => rs[cf - 1].kind = "remove"
    BY <2>1 DEF Good, Shaped, ShapedAt, FrameAt
  <2>3. rs[cf - 2].kind = "catch" => rs[cf - 1].kind = "incatch"
    BY <2>1 DEF Good, Shaped, ShapedAt, CatchAt
  <2>. QED  BY <1>3, <2>2, <2>3
<1>5. Newest(fp, {i \in CellsOf(rs, "link") : i <= cf - 2})
  <2>1. Newest(fp, CellsOf(rs, "link"))
    BY DEF Good, Linked
  <2>2. ASSUME NEW i \in CellsOf(rs, "link")
        PROVE  i <= cf - 2
    <3>1. i <= fp /\ i \in 1..Len(rs) /\ rs[i].kind = "link"
      BY <2>1 DEF Newest, CellsOf
    <3>. QED  BY <1>1, <1>3, <3>1
  <2>3. {i \in CellsOf(rs, "link") : i <= cf - 2} = CellsOf(rs, "link")
    BY <2>2
  <2>. QED  BY <2>1, <2>3
<1>6. Newest(rs[cf].arg, {i \in CellsOf(rs, "catch") : i <= cf - 2})
  <2>1. Newest(rs[cf].arg, {i \in CellsOf(rs, "catch") : i < cf})
    BY <1>2 DEF Good, Linked, CellsOf
  <2>2. ASSUME NEW i \in CellsOf(rs, "catch")
        PROVE  i < cf <=> i <= cf - 2
    BY <1>1, <1>3 DEF CellsOf
  <2>3. {i \in CellsOf(rs, "catch") : i < cf}
          = {i \in CellsOf(rs, "catch") : i <= cf - 2}
    BY <2>2
  <2>. QED  BY <2>1, <2>3
<1>7. cf - 2 \in 0..Len(rs)
  BY <1>1, <1>2, <1>3
<1>8. rs[cf].arg \in Nat
  BY <1>6 DEF Newest, CellsOf
<1>. QED  BY <1>1, <1>4, <1>5, <1>6, <1>7, <1>8, CutGood

LEMMA InitIInv == Init => IInv
<1>. SUFFICES ASSUME Init PROVE IInv
  OBVIOUS
<1>1. /\ rs = <<Ret>> /\ Ret \in Cells
  BY DEF Init, Ret, Cell, Cells, Plain
<1>2. rs \in Seq(Cells) /\ Len(rs) = 1 /\ rs[1].kind = "ret"
  BY <1>1 DEF Ret, Cell
<1>3. TypeOK
  BY <1>2, MaxWordsAssumption DEF Init, TypeOK
<1>4. Shaped(rs) /\ Caught(rs)
  BY <1>2 DEF Shaped, ShapedAt, Caught
<1>5. CellsOf(rs, "link") = {} /\ CellsOf(rs, "catch") = {}
  BY <1>2 DEF CellsOf
<1>6. Linked(rs, "link", fp) /\ Linked(rs, "catch", cf)
  BY <1>5 DEF Linked, Newest, Init
<1>. QED  BY <1>3, <1>4, <1>6 DEF IInv, Good, Init
\* Each kind of frame that the program may build leaves the stack good.
LEMMA LinkFrameGood ==
  ASSUME TypeOK, Good(rs, fp, cf),
         NEW held \in Seq(Cells), NEW cleanup \in Cells,
         \A k \in 1..Len(held) : held[k].kind \in HeldKinds,
         cleanup.kind \in {"restore", "cleanup", "unroom"},
         LET t == WithFrame(rs, held, cleanup, fp)
             j == Len(rs) + Len(held) + 2
         IN  \/ RestoreFrame(t, j, Len(rs)) \/ CleanupFrame(t, j, Len(rs))
             \/ RoomFrame(t, j, Len(rs)),
         LinkFrame(held, cleanup)
  PROVE  rs' \in Seq(Cells) /\ fp' \in Nat /\ Good(rs', fp', cf)
<1>1. rs \in Seq(Cells) /\ fp \in Nat /\ Len(rs) \in Nat /\ Len(held) \in Nat
  BY LenProperties DEF TypeOK
<1>2. rs' = WithFrame(rs, held, cleanup, fp) /\ fp' = Len(rs) + Len(held) + 2
  BY DEF LinkFrame, WithFrame, Depth
<1>3. /\ WithFrame(rs, held, cleanup, fp) \in Seq(Cells)
      /\ Good(WithFrame(rs, held, cleanup, fp), Len(rs) + Len(held) + 2, cf)
  BY <1>1, FrameGood
<1>. QED  BY <1>1, <1>2, <1>3

LEMMA PreserveGood ==
  ASSUME TypeOK, Good(rs, fp, cf), NEW v \in Var, Preserve(v)
  PROVE  rs' \in Seq(Cells) /\ fp' \in Nat /\ Good(rs', fp', cf)
<1>. DEFINE held == <<Cell("var", v), Cell("val", env[v])>>
            cleanup == Cell("restore", 0)
            t == WithFrame(rs, held, cleanup, fp)
            j == Len(rs) + Len(held) + 2
<1>1. /\ Cell("var", v) \in Cells /\ Cell("val", env[v]) \in Cells
      /\ cleanup \in Cells /\ cleanup.kind = "restore"
  BY DEF Cell, Cells, Plain, TypeOK
<1>2. /\ held \in Seq(Cells) /\ Len(held) = 2
      /\ held[1].kind = "var" /\ held[2].kind = "val"
  BY <1>1 DEF Cell
<1>3. rs \in Seq(Cells) /\ fp \in Nat /\ Len(rs) \in Nat
  BY LenProperties DEF TypeOK
<1>4. LinkFrame(held, cleanup)
  BY DEF Preserve
<1>. HIDE DEF held, cleanup
<1>5. /\ \A k \in 1..Len(held) : t[Len(rs) + k] = held[k]
      /\ t[j-1] = cleanup
  <2>1. /\ rs \in Seq(Cells) /\ fp \in Nat
        /\ held \in Seq(Cells) /\ cleanup \in Cells
    BY <1>1, <1>2, <1>3
  <2>2. Framed(t, rs, held, cleanup, fp, j)
    BY <2>1, FrameCells
  <2>. QED  BY <2>2 DEF Framed
<1>6. /\ t[Len(rs) + 1].kind = "var" /\ t[Len(rs) + 2].kind = "val"
      /\ t[j-1].kind = "restore"
  BY <1>1, <1>2, <1>5
<1>7. /\ Len(rs) = j - 4 /\ Len(rs) + 1 = j - 3 /\ Len(rs) + 2 = j - 2
  BY <1>2, <1>3
<1>. HIDE DEF t, j
<1>8. RestoreFrame(t, j, Len(rs))
  BY <1>6, <1>7 DEF RestoreFrame
<1>9. \A k \in 1..Len(held) : held[k].kind \in HeldKinds
  BY <1>2 DEF HeldKinds
<1>. QED  BY <1>1, <1>2, <1>4, <1>8, <1>9, LinkFrameGood DEF t, j

LEMMA OnExitGood ==
  ASSUME TypeOK, Good(rs, fp, cf), NEW o \in Obj, NEW n \in {1, 2}, OnExit(o, n)
  PROVE  rs' \in Seq(Cells) /\ fp' \in Nat /\ Good(rs', fp', cf)
<1>. DEFINE objs == [i \in 1..n |-> Cell("obj", o)]
            held == <<Cell("cfa", 0)>> \o objs
            cleanup == Cell("cleanup", n)
            t == WithFrame(rs, held, cleanup, fp)
            j == Len(rs) + Len(held) + 2
<1>1. /\ Cell("cfa", 0) \in Cells /\ Cell("obj", o) \in Cells
      /\ cleanup \in Cells /\ cleanup.kind = "cleanup" /\ cleanup.arg = n
  BY DEF Cell, Cells, Plain
<1>2. /\ objs \in Seq(Cells) /\ Len(objs) = n
      /\ \A i \in 1..n : objs[i].kind = "obj"
  BY <1>1 DEF Cell
<1>3. /\ <<Cell("cfa", 0)>> \in Seq(Cells) /\ Len(<<Cell("cfa", 0)>>) = 1
      /\ <<Cell("cfa", 0)>>[1].kind = "cfa"
  BY <1>1 DEF Cell
<1>4. LinkFrame(held, cleanup)
  BY DEF OnExit
<1>. HIDE DEF objs, cleanup
<1>5. /\ held \in Seq(Cells) /\ Len(held) = n + 1 /\ held[1].kind = "cfa"
      /\ \A k \in 2..(n+1) : held[k].kind = "obj"
  BY <1>2, <1>3, ConcatProperties
<1>6. rs \in Seq(Cells) /\ fp \in Nat /\ Len(rs) \in Nat
  BY LenProperties DEF TypeOK
<1>. HIDE DEF held
<1>7. /\ \A k \in 1..Len(held) : t[Len(rs) + k] = held[k]
      /\ t[j-1] = cleanup
  <2>1. /\ rs \in Seq(Cells) /\ fp \in Nat
        /\ held \in Seq(Cells) /\ cleanup \in Cells
    BY <1>1, <1>5, <1>6
  <2>2. Framed(t, rs, held, cleanup, fp, j)
    BY <2>1, FrameCells
  <2>. QED  BY <2>2 DEF Framed
<1>8. j - 1 = Len(rs) + n + 2 /\ j \in Nat
  BY <1>5, <1>6
<1>. HIDE DEF t, j
<1>9. t[Len(rs) + 1].kind = "cfa" /\ t[j-1].kind = "cleanup" /\ t[j-1].arg = n
  BY <1>1, <1>5, <1>7
<1>10. ASSUME NEW k \in (Len(rs) + 2)..(j - 2)
       PROVE  t[k].kind = "obj"
  <2>1. k - Len(rs) \in 2..(n+1) /\ k = Len(rs) + (k - Len(rs))
    BY <1>6, <1>8
  <2>. QED  BY <1>5, <1>7, <2>1
<1>11. Len(rs) = (j - 3) - n
  BY <1>6, <1>8
<1>12. CleanupFrame(t, j, Len(rs))
  BY <1>9, <1>10, <1>11 DEF CleanupFrame
<1>13. \A k \in 1..Len(held) : held[k].kind \in HeldKinds
  <2>1. \A k \in 1..Len(held) : k = 1 \/ k \in 2..(n+1)
    BY <1>5
  <2>. QED  BY <1>5, <2>1 DEF HeldKinds
<1>. QED  BY <1>1, <1>4, <1>5, <1>12, <1>13, LinkFrameGood DEF t, j

LEMMA RoomGood ==
  ASSUME TypeOK, Good(rs, fp, cf), NEW n \in RoomSize, Room(n)
  PROVE  rs' \in Seq(Cells) /\ fp' \in Nat /\ Good(rs', fp', cf)
<1>. DEFINE locals == [i \in 1..n |-> Cell("local", 0)]
            held == locals \o <<Cell("count", n)>>
            cleanup == Cell("unroom", 0)
            t == WithFrame(rs, held, cleanup, fp)
            j == Len(rs) + Len(held) + 2
<1>0. n \in Nat
  BY RoomAssumption
<1>1. /\ Cell("local", 0) \in Cells /\ Cell("count", n) \in Cells
      /\ cleanup \in Cells /\ cleanup.kind = "unroom"
  BY DEF Cell, Cells, Plain
<1>2. /\ locals \in Seq(Cells) /\ Len(locals) = n
      /\ \A i \in 1..n : locals[i].kind = "local"
  BY <1>0, <1>1 DEF Cell
<1>3. /\ <<Cell("count", n)>> \in Seq(Cells) /\ Len(<<Cell("count", n)>>) = 1
      /\ <<Cell("count", n)>>[1].kind = "count"
      /\ <<Cell("count", n)>>[1].arg = n
  BY <1>1 DEF Cell
<1>4. LinkFrame(held, cleanup)
  BY DEF Room
<1>. HIDE DEF locals, cleanup
<1>5. /\ held \in Seq(Cells) /\ Len(held) = n + 1
      /\ \A k \in 1..n : held[k].kind = "local"
      /\ held[n+1].kind = "count" /\ held[n+1].arg = n
  BY <1>0, <1>2, <1>3, ConcatProperties
<1>6. rs \in Seq(Cells) /\ fp \in Nat /\ Len(rs) \in Nat
  BY LenProperties DEF TypeOK
<1>. HIDE DEF held
<1>7. /\ \A k \in 1..Len(held) : t[Len(rs) + k] = held[k]
      /\ t[j-1] = cleanup
  <2>1. /\ rs \in Seq(Cells) /\ fp \in Nat
        /\ held \in Seq(Cells) /\ cleanup \in Cells
    BY <1>1, <1>5, <1>6
  <2>2. Framed(t, rs, held, cleanup, fp, j)
    BY <2>1, FrameCells
  <2>. QED  BY <2>2 DEF Framed
<1>8. j - 1 = Len(rs) + n + 2 /\ j \in Nat
  BY <1>0, <1>5, <1>6
<1>. HIDE DEF t, j
<1>9. t[j-2].kind = "count" /\ t[j-2].arg = n /\ t[j-1].kind = "unroom"
  <2>1. j - 2 = Len(rs) + (n + 1) /\ n + 1 \in 1..Len(held)
    BY <1>0, <1>5, <1>6, <1>8
  <2>. QED  BY <1>1, <1>5, <1>7, <2>1
<1>10. ASSUME NEW k \in (Len(rs) + 1)..(j - 3)
       PROVE  t[k].kind = "local"
  <2>1. k - Len(rs) \in 1..n /\ k = Len(rs) + (k - Len(rs))
    BY <1>0, <1>6, <1>8
  <2>2. k - Len(rs) \in 1..Len(held)
    BY <1>0, <1>5, <2>1
  <2>. QED  BY <1>5, <1>7, <2>1, <2>2
<1>11. Len(rs) = (j - 3) - n
  BY <1>0, <1>6, <1>8
<1>12. RoomFrame(t, j, Len(rs))
  BY <1>0, <1>9, <1>10, <1>11 DEF RoomFrame
<1>13. \A k \in 1..Len(held) : held[k].kind \in HeldKinds
  <2>1. \A k \in 1..Len(held) : k = n + 1 \/ k \in 1..n
    BY <1>0, <1>5
  <2>. QED  BY <1>5, <2>1 DEF HeldKinds
<1>. QED  BY <1>1, <1>4, <1>5, <1>12, <1>13, LinkFrameGood DEF t, j
\* When a frame's remove is on top, that frame is the newest and no catch
\* frame is newer.
LEMMA RemoveOnTop ==
  ASSUME TypeOK, Good(rs, fp, cf), Is(Depth, "remove")
  PROVE  fp # 0 /\ cf < fp
<1>1. rs \in Seq(Cells) /\ Depth = Len(rs) /\ Len(rs) \in Nat
      /\ fp \in Nat /\ cf \in Nat
  BY LenProperties DEF TypeOK, Depth
<1>2. /\ Depth \in 1..Len(rs) /\ rs[Depth].kind = "remove"
      /\ Depth >= 2 /\ rs[Depth - 1].kind = "link"
  BY <1>1 DEF Is, Good, Shaped, ShapedAt
<1>3. fp # 0 /\ Depth - 1 <= fp
  BY <1>1, <1>2, LinkedRange DEF Good
<1>4. cf \in 0..Len(rs) /\ (cf # 0 => rs[cf].kind = "catch")
  BY <1>1, LinkedRange DEF Good
<1>5. cf # Depth /\ cf # Depth - 1
  BY <1>1, <1>2, <1>4
<1>. QED  BY <1>1, <1>2, <1>3, <1>4, <1>5

\* When the return address into catch is on top, the newest catch frame is
\* just beneath it, and no frame is newer.
LEMMA InCatchOnTop ==
  ASSUME TypeOK, Good(rs, fp, cf), Is(Depth, "incatch")
  PROVE  cf # 0 /\ fp < cf /\ cf = Depth - 1
<1>1. rs \in Seq(Cells) /\ Depth = Len(rs) /\ Len(rs) \in Nat
      /\ fp \in Nat /\ cf \in Nat
  BY LenProperties DEF TypeOK, Depth
<1>2. /\ Depth \in 1..Len(rs) /\ rs[Depth].kind = "incatch"
      /\ Depth >= 2 /\ rs[Depth - 1].kind = "catch"
  BY <1>1 DEF Is, Good, Shaped, ShapedAt
<1>3. cf # 0 /\ Depth - 1 <= cf
  BY <1>1, <1>2, LinkedRange DEF Good
<1>4. cf \in 0..Len(rs) /\ rs[cf].kind = "catch"
  BY <1>1, <1>3, LinkedRange DEF Good
<1>5. fp \in 0..Len(rs) /\ (fp # 0 => rs[fp].kind = "link")
  BY <1>1, LinkedRange DEF Good
<1>6. cf = Depth - 1
  BY <1>1, <1>2, <1>3, <1>4
<1>7. fp # Depth /\ fp # Depth - 1
  BY <1>1, <1>2, <1>5
<1>. QED  BY <1>1, <1>2, <1>3, <1>5, <1>6, <1>7

LEMMA NextIInv == IInv /\ [Next]_vars => IInv'
<1>. SUFFICES ASSUME IInv, [Next]_vars PROVE IInv'
  OBVIOUS
<1>1. /\ TypeOK /\ Good(rs, fp, cf) /\ (pc = "unwind" => cf # 0)
      /\ rs \in Seq(Cells) /\ fp \in Nat /\ cf \in Nat
      /\ env \in [Var -> Val] /\ armed \subseteq Obj
      /\ unwinding \in BOOLEAN /\ fuel \in Nat
  BY DEF IInv, TypeOK
<1>2. ASSUME Word PROVE fuel' \in Nat
  BY <1>1, <1>2 DEF Word
<1>3. CASE Call
  <2>1. Ret \notin {Dead, InUnwind}
    BY DEF Ret, Dead, InUnwind, Cell
  <2>2. rs' \in Seq(Cells) /\ Good(rs', fp, cf)
    BY <1>1, <1>3, <2>1, PushGood DEF Call
  <2>. QED  BY <1>1, <1>2, <1>3, <2>2 DEF Call, Word, IInv, TypeOK
<1>4. CASE PushData
  <2>1. Data \notin {Dead, InUnwind}
    BY DEF Data, Dead, InUnwind, Cell
  <2>2. rs' \in Seq(Cells) /\ Good(rs', fp, cf)
    BY <1>1, <1>4, <2>1, PushGood DEF PushData
  <2>. QED  BY <1>1, <1>2, <1>4, <2>2 DEF PushData, Word, IInv, TypeOK
<1>5. CASE PopData
  <2>1. rs' = SubSeq(rs, 1, Depth - 1) /\ rs # <<>> /\ rs[Depth].kind = "data"
    BY <1>5 DEF PopData, Cut, Is, Depth
  <2>. QED  BY <1>1, <1>5, <2>1, PopGood DEF PopData, IInv, TypeOK
<1>6. ASSUME NEW v \in Var, NEW x \in Val, Assign(v, x)
      PROVE  IInv'
  BY <1>1, <1>2, <1>6 DEF Assign, Word, IInv, TypeOK
<1>7. ASSUME NEW v \in Var, Preserve(v)
      PROVE  IInv'
  <2>1. rs' \in Seq(Cells) /\ fp' \in Nat /\ Good(rs', fp', cf)
    BY <1>1, <1>7, PreserveGood
  <2>. QED  BY <1>1, <1>2, <1>7, <2>1 DEF Preserve, Word, IInv, TypeOK
<1>8. ASSUME NEW o \in Obj, NEW n \in {1, 2}, OnExit(o, n)
      PROVE  IInv'
  <2>1. rs' \in Seq(Cells) /\ fp' \in Nat /\ Good(rs', fp', cf)
    BY <1>1, <1>8, OnExitGood
  <2>. QED  BY <1>1, <1>2, <1>8, <2>1 DEF OnExit, Word, IInv, TypeOK
<1>9. ASSUME NEW n \in RoomSize, Room(n)
      PROVE  IInv'
  <2>1. rs' \in Seq(Cells) /\ fp' \in Nat /\ Good(rs', fp', cf)
    BY <1>1, <1>9, RoomGood
  <2>. QED  BY <1>1, <1>2, <1>9, <2>1 DEF Room, Word, IInv, TypeOK
<1>10. CASE Catch
  <2>1. rs' \in Seq(Cells) /\ Good(rs', fp, Len(rs) + 2)
    BY <1>1, <1>10, CatchGood DEF Catch
  <2>2. cf' = Len(rs) + 2 /\ cf' \in Nat
    BY <1>1, <1>10, LenProperties DEF Catch, Depth
  <2>. QED  BY <1>1, <1>2, <1>10, <2>1, <2>2 DEF Catch, Word, IInv, TypeOK
<1>11. CASE Throw
  BY <1>1, <1>2, <1>11, PushGood DEF Throw, Word, IInv, TypeOK
<1>12. CASE ThrowUncaught
  BY <1>1, <1>2, <1>12 DEF ThrowUncaught, Word, IInv, TypeOK
<1>13. CASE Unwind
  <2>1. PICK j \in 1..Len(rs) : rs[j].kind = "catch"
    BY <1>1, <1>13 DEF Unwind, Is, Depth, Good, Caught
  <2>2. cf # 0
    BY <1>1, <2>1, LinkedRange DEF Good
  <2>. QED  BY <1>1, <1>13, <2>2 DEF Unwind, IInv, TypeOK
<1>14. CASE ExitToCaller
  <2>1. rs' = SubSeq(rs, 1, Depth - 1) /\ rs # <<>> /\ rs[Depth].kind = "ret"
    BY <1>14 DEF ExitToCaller, Cut, Is, Depth
  <2>. QED  BY <1>1, <1>14, <2>1, PopGood DEF ExitToCaller, IInv, TypeOK
<1>15. CASE ExitToRemove
  <2>1. fp # 0 /\ cf < fp
    BY <1>1, <1>15, RemoveOnTop DEF ExitToRemove
  <2>2. InRemove # InUnwind
    BY DEF InRemove, InUnwind, Cell
  <2>3. /\ rs' \in Seq(Cells) /\ fp' \in Nat
        /\ env' \in [Var -> Val] /\ armed' \subseteq Obj
        /\ pc' \in {"exit", "run"}
        /\ Good(rs', fp', cf)
    BY <1>1, <1>15, <2>1, <2>2, UnlinkGood DEF ExitToRemove
  <2>. QED  BY <1>1, <1>15, <2>3 DEF ExitToRemove, IInv, TypeOK
<1>16. CASE ExitToCatch
  <2>1. cf # 0 /\ fp < cf /\ cf = Depth - 1 /\ Depth \in Nat
    BY <1>1, <1>16, InCatchOnTop, LenProperties DEF ExitToCatch, Depth
  <2>2. Depth - 3 = cf - 2
    BY <2>1
  <2>3. rs' = SubSeq(rs, 1, cf - 2) /\ cf' = rs[cf].arg
    BY <1>16, <2>1, <2>2 DEF ExitToCatch, Cut
  <2>4. rs' \in Seq(Cells) /\ cf' \in Nat /\ Good(rs', fp, cf')
    BY <1>1, <2>1, <2>3, DropCatchGood
  <2>. QED  BY <1>1, <1>16, <2>4 DEF ExitToCatch, IInv, TypeOK
<1>17. CASE ExitToUnlink
  <2>1. /\ rs' = SubSeq(rs, 1, Depth - 1) /\ rs # <<>>
        /\ rs[Depth].kind \in {"inremove", "inunwind"}
    BY <1>17 DEF ExitToUnlink, Cut, Is, Depth
  <2>2. rs' \in Seq(Cells) /\ Good(rs', fp, cf)
    BY <1>1, <2>1, PopGood
  <2>3. ASSUME pc' = "unwind" PROVE cf # 0
    <3>1. Depth \in 1..Len(rs) /\ rs[Depth].kind = "inunwind"
      BY <1>17, <2>3 DEF ExitToUnlink, Is, Depth
    <3>2. PICK j \in 1..Len(rs) : rs[j].kind = "catch"
      BY <1>1, <3>1 DEF Good, Caught
    <3>. QED  BY <1>1, <3>2, LinkedRange DEF Good
  <2>. QED  BY <1>1, <1>17, <2>2, <2>3 DEF ExitToUnlink, IInv, TypeOK
<1>18. CASE UnwindFrame
  <2>1. fp # 0 /\ cf < fp /\ cf # 0
    BY <1>1, <1>18 DEF UnwindFrame, FramesToUnwind
  <2>2. /\ rs' \in Seq(Cells) /\ fp' \in Nat
        /\ env' \in [Var -> Val] /\ armed' \subseteq Obj
        /\ pc' \in {"unwind", "run"}
        /\ Good(rs', fp', cf)
    BY <1>1, <1>18, <2>1, UnlinkGood DEF UnwindFrame
  <2>. QED  BY <1>1, <1>18, <2>1, <2>2 DEF UnwindFrame, IInv, TypeOK
<1>19. CASE UnwindDone
  <2>1. cf # 0
    BY <1>1, <1>19 DEF UnwindDone
  <2>2. fp # cf
    BY <1>1, <2>1, LinkedRange DEF Good
  <2>3. fp < cf
    BY <1>1, <1>19, <2>1, <2>2 DEF UnwindDone, FramesToUnwind
  <2>4. rs' \in Seq(Cells) /\ cf' \in Nat /\ Good(rs', fp, cf')
    BY <1>1, <1>19, <2>1, <2>3, DropCatchGood DEF UnwindDone, Cut
  <2>. QED  BY <1>1, <1>19, <2>4 DEF UnwindDone, IInv, TypeOK
<1>20. CASE UNCHANGED vars
  BY <1>1, <1>20 DEF vars, IInv, TypeOK
<1>. QED
  BY <1>3, <1>4, <1>5, <1>6, <1>7, <1>8, <1>9, <1>10, <1>11, <1>12, <1>13,
     <1>14, <1>15, <1>16, <1>17, <1>18, <1>19, <1>20
  DEF Next, Program, Machine, Stopped

THEOREM Inductive == Spec => []IInv
<1>. QED  BY InitIInv, NextIInv, PTL DEF Spec

-----------------------------------------------------------------------------

\* Type correctness.
THEOREM TypeCorrect == Spec => []TypeOK
<1>1. IInv => TypeOK
  BY DEF IInv
<1>. QED  BY <1>1, Inductive, PTL

\* link, unlink, catch, throw and unwind never leave fp or cf dangling, and
\* the chains through them reach every frame that is still on the stack.
THEOREM FramePointersCorrect == Spec => []FramePointers
<1>1. IInv => FramePointers
  BY DEF IInv, Good, Linked, CellsOf, FramePointers, Chained, OfKind, Depth
<1>. QED  BY <1>1, Inductive, PTL

\* unwind always finds the catch frame of the throw that it cleans up after.
THEOREM UnwindHasCatchCorrect == Spec => []UnwindHasCatch
<1>1. IInv => UnwindHasCatch
  BY DEF IInv, Good, Caught, UnwindHasCatch, OfKind, Depth
<1>. QED  BY <1>1, Inductive, PTL

-----------------------------------------------------------------------------
(* The frames that hold an object *)

PendingOf(s, o) == {i \in CellsOf(s, "link") : /\ s[i-1].kind = "cleanup"
                                               /\ s[i-2].arg = o}

\* Two stacks that start alike have the same frames below a point where
\* both are long enough.
LEMMA PendingShared ==
  ASSUME NEW s \in Seq(Cells), NEW t \in Seq(Cells), Shaped(s),
         Extends(t, s), NEW o, NEW i \in 1..Len(s)
  PROVE  i \in PendingOf(s, o) <=> i \in PendingOf(t, o)
<1>. Len(s) \in Nat /\ Len(t) \in Nat
  BY LenProperties
<1>1. i \in 1..Len(t) /\ t[i] = s[i]
  BY DEF Extends
<1>2. CASE s[i].kind = "link"
  <2>1. PICK b \in Nat : FrameAt(s, i, b)
    BY <1>2 DEF Shaped, ShapedAt
  <2>2. b < i - 1
    BY <2>1 DEF FrameAt
  <2>3. i >= 3
    <3>1. RestoreFrame(s, i, b) => i >= 3
      BY DEF RestoreFrame
    <3>2. CleanupFrame(s, i, b) => i >= 3
      BY DEF CleanupFrame
    <3>3. RoomFrame(s, i, b) => i >= 3
      BY DEF RoomFrame
    <3>. QED  BY <2>1, <3>1, <3>2, <3>3 DEF FrameAt
  <2>4. t[i-1] = s[i-1] /\ t[i-2] = s[i-2]
    <3>1. i - 1 \in 1..Len(s) /\ i - 2 \in 1..Len(s)
      BY <2>3
    <3>. QED  BY <3>1 DEF Extends
  <2>. QED  BY <1>1, <2>4 DEF PendingOf, CellsOf
<1>3. CASE s[i].kind # "link"
  BY <1>1, <1>3 DEF PendingOf, CellsOf
<1>. QED  BY <1>2, <1>3

\* Pushing or cutting off what holds no link moves no frame.
LEMMA PendingSame ==
  ASSUME NEW s \in Seq(Cells), NEW t \in Seq(Cells), NEW p, NEW q, NEW r,
         Good(s, p, q), Good(t, p, r), Extends(t, s), NEW o
  PROVE  PendingOf(s, o) = PendingOf(t, o)
<1>1. /\ Len(s) \in Nat /\ Len(t) \in Nat /\ Len(s) <= Len(t)
      /\ p \in 0..Len(s)
  BY LenProperties, LinkedRange DEF Good, Extends
<1>2. \A i \in PendingOf(t, o) : i \in 1..Len(t) /\ i <= p
  BY LinkedRange DEF Good, PendingOf, CellsOf
<1>3. \A i \in PendingOf(t, o) : i \in 1..Len(s)
  BY <1>1, <1>2
<1>4. \A i \in PendingOf(s, o) : i \in 1..Len(s)
  BY DEF PendingOf, CellsOf
<1>5. \A i \in 1..Len(s) : i \in PendingOf(s, o) <=> i \in PendingOf(t, o)
  BY PendingShared DEF Good
<1>. QED  BY <1>3, <1>4, <1>5

\* The newest frame is all that a stack has over what is beneath it.
LEMMA PendingPushed ==
  ASSUME NEW s \in Seq(Cells), NEW t \in Seq(Cells), NEW p, NEW j \in Nat, NEW q, NEW r,
         Good(s, p, q), Good(t, j, r), Extends(t, s),
         j > Len(s), t[j].arg = p, NEW o
  PROVE  PendingOf(s, o) = PendingOf(t, o) \ {j}
<1>1. /\ Len(s) \in Nat /\ Len(t) \in Nat /\ Len(s) <= Len(t)
      /\ p \in 0..Len(s) /\ j \in 1..Len(t) /\ t[j].kind = "link"
  <2>1. Len(s) \in Nat /\ Len(t) \in Nat /\ Len(s) <= Len(t)
    BY LenProperties DEF Extends
  <2>2. p \in 0..Len(s) /\ j \in 0..Len(t) /\ (j # 0 => t[j].kind = "link")
    BY LinkedRange DEF Good
  <2>. QED  BY <2>1, <2>2
<1>2. Newest(p, {i \in CellsOf(t, "link") : i < j})
  BY <1>1 DEF Good, Linked, CellsOf
<1>3. ASSUME NEW i \in PendingOf(t, o), i # j
      PROVE  i \in 1..Len(s)
  <2>1. i \in CellsOf(t, "link") /\ i \in 1..Len(t) /\ i <= j
    BY <1>1, LinkedRange DEF Good, PendingOf, CellsOf
  <2>2. i < j
    BY <1>1, <1>3, <2>1
  <2>3. i <= p
    BY <1>2, <2>1, <2>2 DEF Newest
  <2>. QED  BY <1>1, <2>1, <2>3
<1>4. \A i \in PendingOf(s, o) : i \in 1..Len(s) /\ i # j
  BY <1>1 DEF PendingOf, CellsOf
<1>. QED  BY <1>3, <1>4, PendingShared DEF Good

\* Unlinking drops the newest frame, and with it the object it holds.
LEMMA PendingUnlink ==
  ASSUME TypeOK, Good(rs, fp, cf), fp # 0, cf < fp, CleanupPendingOnce,
         NEW again \in {"exit", "unwind"}, NEW back \in {InRemove, InUnwind},
         back = InUnwind => cf # 0,
         Unlink(again, back)
  PROVE  CleanupPendingOnce'
<1>1. rs \in Seq(Cells) /\ Len(rs) \in Nat /\ fp \in Nat /\ cf \in Nat
  BY LenProperties DEF TypeOK
<1>2. PICK b \in 0..Len(rs) :
        /\ FrameAt(rs, fp, b)
        /\ b # 0 => rs[b].kind \notin {"link", "catch"}
        /\ Newest(rs[fp].arg, {i \in CellsOf(rs, "link") : i <= b})
        /\ Newest(cf, {i \in CellsOf(rs, "catch") : i <= b})
  BY <1>1, UnlinkBase
<1>. DEFINE low == SubSeq(rs, 1, b)
            p == rs[fp].arg
<1>3. /\ low \in Seq(Cells) /\ Len(low) = b /\ Extends(rs, low)
      /\ Good(low, p, cf)
  BY <1>1, <1>2, CutGood, CutFacts
<1>4. b < fp - 1 /\ b \in Nat /\ fp \in 1..Len(rs) /\ rs[fp].kind = "link"
  BY <1>1, <1>2, LinkedRange DEF FrameAt, Good
<1>. HIDE DEF low, p
<1>5. ASSUME NEW o PROVE PendingOf(low, o) = PendingOf(rs, o) \ {fp}
  <2>1. fp > Len(low) /\ rs[fp].arg = p
    BY <1>3, <1>4 DEF p
  <2>. QED  BY <1>1, <1>3, <2>1, PendingPushed
<1>6. ASSUME NEW o PROVE Pending(o) = PendingOf(rs, o) /\ Pending(o)' = PendingOf(rs', o)
  BY DEF Pending, PendingOf, OfKind, CellsOf, Depth
<1>7. CASE UnlinkRestore(again)
  <2>1. RestoreFrame(rs, fp, b)
    BY <1>2, <1>7 DEF UnlinkRestore, Is, FrameAt, CleanupFrame, RoomFrame
  <2>2. rs' = low /\ armed' = armed /\ rs[fp-1].kind # "cleanup"
    BY <1>7, <2>1 DEF UnlinkRestore, Cut, RestoreFrame, low
  <2>3. \A o : fp \notin PendingOf(rs, o)
    BY <2>2 DEF PendingOf
  <2>. QED  BY <1>5, <1>6, <2>2, <2>3 DEF CleanupPendingOnce
<1>8. CASE UnlinkRoom(again)
  <2>1. RoomFrame(rs, fp, b)
    BY <1>2, <1>8 DEF UnlinkRoom, Is, FrameAt, CleanupFrame, RestoreFrame
  <2>2. rs' = low /\ armed' = armed /\ rs[fp-1].kind # "cleanup"
    BY <1>8, <2>1 DEF UnlinkRoom, Cut, RoomFrame, low
  <2>3. \A o : fp \notin PendingOf(rs, o)
    BY <2>2 DEF PendingOf
  <2>. QED  BY <1>5, <1>6, <2>2, <2>3 DEF CleanupPendingOnce
<1>9. CASE UnlinkCleanup(back)
  <2>1. CleanupFrame(rs, fp, b)
    BY <1>2, <1>9 DEF UnlinkCleanup, Is, FrameAt, RoomFrame, RestoreFrame
  <2>2. /\ rs' = Append(low, back) /\ armed' = armed \ {rs[fp-2].arg}
        /\ rs[fp-1].kind = "cleanup"
    BY <1>9, <2>1 DEF UnlinkCleanup, Cut, CleanupFrame, low
  <2>3. back \in {Ret, Data, InRemove, Dead, InUnwind}
        /\ (back \in {Dead, InUnwind} => cf # 0) /\ back \in Cells
    BY DEF InRemove, InUnwind, Dead, Cell, Cells, Plain
  <2>4. rs' \in Seq(Cells) /\ Good(rs', p, cf) /\ Extends(rs', low)
    BY <1>3, <2>2, <2>3, PushGood, AppendFacts
  <2>5. ASSUME NEW o PROVE Pending(o)' = Pending(o) \ {fp}
    <3>1. PendingOf(low, o) = PendingOf(rs', o)
      BY <1>3, <2>4, PendingSame
    <3>. QED  BY <1>5, <1>6, <3>1
  <2>6. ASSUME NEW o PROVE fp \in Pending(o) <=> o = rs[fp-2].arg
    BY <1>4, <1>6, <2>2 DEF PendingOf, CellsOf
  <2>7. ASSUME NEW o \in Obj
        PROVE  IF o \in armed' THEN \E i \in Pending(o)' : Pending(o)' = {i}
                               ELSE Pending(o)' = {}
    <3>1. CASE o = rs[fp-2].arg
      <4>1. Pending(o) = {fp}
        BY <2>6, <3>1 DEF CleanupPendingOnce
      <4>. QED  BY <2>2, <2>5, <3>1, <4>1
    <3>2. CASE o # rs[fp-2].arg
      <4>1. Pending(o)' = Pending(o) /\ (o \in armed' <=> o \in armed)
        BY <2>2, <2>5, <2>6, <3>2
      <4>. QED  BY <4>1 DEF CleanupPendingOnce
    <3>. QED  BY <3>1, <3>2
  <2>. QED  BY <2>7 DEF CleanupPendingOnce
<1>. QED  BY <1>7, <1>8, <1>9 DEF Unlink

\* Linking a frame adds that frame, and nothing else, to those that may hold
\* an object.
LEMMA PendingLinked ==
  ASSUME TypeOK, Good(rs, fp, cf), Good(rs', fp', cf), rs' \in Seq(Cells),
         NEW held \in Seq(Cells), NEW cleanup \in Cells, Len(held) # 0,
         LinkFrame(held, cleanup)
  PROVE  /\ \A o : Pending(o) = Pending(o)' \ {fp'}
         /\ \A o : fp' \in Pending(o)' <=> /\ cleanup.kind = "cleanup"
                                           /\ held[Len(held)].arg = o
<1>1. rs \in Seq(Cells) /\ fp \in Nat /\ Len(rs) \in Nat /\ Len(held) \in Nat
  BY LenProperties DEF TypeOK
<1>2. rs' = WithFrame(rs, held, cleanup, fp) /\ fp' = Len(rs) + Len(held) + 2
  BY DEF LinkFrame, WithFrame, Depth
<1>3. Framed(rs', rs, held, cleanup, fp, fp')
  BY <1>1, <1>2, FrameCells
<1>4. /\ Extends(rs', rs) /\ fp' \in 1..Len(rs') /\ fp' > Len(rs)
      /\ rs'[fp'-1] = cleanup /\ rs'[fp'].arg = fp /\ rs'[fp'].kind = "link"
      /\ rs'[fp'-2] = held[Len(held)]
  <2>1. fp' - 2 = Len(rs) + Len(held) /\ Len(held) \in 1..Len(held)
    BY <1>1, <1>2
  <2>2. rs'[fp'-2] = held[Len(held)]
    BY <1>3, <2>1 DEF Framed
  <2>. QED  BY <1>1, <1>2, <1>3, <2>2 DEF Framed, Cell
<1>5. ASSUME NEW o PROVE Pending(o) = PendingOf(rs, o) /\ Pending(o)' = PendingOf(rs', o)
  BY DEF Pending, PendingOf, OfKind, CellsOf, Depth
<1>6. ASSUME NEW o PROVE Pending(o) = Pending(o)' \ {fp'}
  <2>1. fp' \in Nat
    BY <1>1, <1>2
  <2>2. PendingOf(rs, o) = PendingOf(rs', o) \ {fp'}
    BY <1>1, <1>4, <2>1, PendingPushed
  <2>. QED  BY <1>5, <2>2
<1>7. ASSUME NEW o PROVE fp' \in Pending(o)' <=> cleanup.kind = "cleanup" /\ held[Len(held)].arg = o
  BY <1>4, <1>5 DEF PendingOf, CellsOf
<1>. QED  BY <1>6, <1>7

\* Where no frame is linked or unlinked, what is registered stays as it is.
LEMMA PendingStays ==
  ASSUME TypeOK, Good(rs, fp, cf), rs' \in Seq(Cells), Good(rs', fp, cf'),
         Extends(rs', rs) \/ Extends(rs, rs'), armed' = armed, CleanupPendingOnce
  PROVE  CleanupPendingOnce'
<1>1. ASSUME NEW o PROVE PendingOf(rs, o) = PendingOf(rs', o)
  BY PendingSame DEF TypeOK
<1>2. ASSUME NEW o PROVE Pending(o) = PendingOf(rs, o) /\ Pending(o)' = PendingOf(rs', o)
  BY DEF Pending, PendingOf, OfKind, CellsOf, Depth
<1>. QED  BY <1>1, <1>2 DEF CleanupPendingOnce

\* Every step keeps it, on a stack in order before and after.
LEMMA CleanupStep == IInv /\ IInv' /\ CleanupPendingOnce /\ [Next]_vars => CleanupPendingOnce'
<1>. SUFFICES ASSUME IInv, IInv', CleanupPendingOnce, [Next]_vars
              PROVE  CleanupPendingOnce'
  OBVIOUS
<1>1. /\ TypeOK /\ Good(rs, fp, cf) /\ rs \in Seq(Cells) /\ fp \in Nat /\ cf \in Nat
      /\ rs' \in Seq(Cells) /\ Good(rs', fp', cf') /\ Len(rs) \in Nat /\ Len(rs') \in Nat
      /\ (pc = "unwind" => cf # 0)
  BY LenProperties DEF IInv, TypeOK
<1>2. CASE Call \/ PushData \/ Throw
  <2>1. \E c \in {Ret, Data, Dead} : rs' = Append(rs, c)
    BY <1>2 DEF Call, PushData, Throw
  <2>2. {Ret, Data, Dead} \subseteq Cells
    BY DEF Ret, Data, Dead, Cell, Cells, Plain
  <2>3. Extends(rs', rs)
    BY <1>1, <2>1, <2>2, AppendFacts
  <2>4. fp' = fp /\ armed' = armed
    BY <1>2 DEF Call, PushData, Throw
  <2>. QED  BY <1>1, <2>3, <2>4, PendingStays
<1>3. CASE Catch
  <2>1. /\ rs' = rs \o <<Ret, Cell("catch", cf), InCatch>> /\ fp' = fp /\ armed' = armed
        /\ <<Ret, Cell("catch", cf), InCatch>> \in Seq(Cells)
    BY <1>1, <1>3 DEF Catch, Cell, Cells, Plain, Ret, InCatch
  <2>2. Extends(rs', rs)
    BY <1>1, <2>1, ConcatFacts
  <2>. QED  BY <1>1, <2>1, <2>2, PendingStays
<1>4. CASE PopData \/ ExitToCaller \/ ExitToCatch \/ ExitToUnlink \/ UnwindDone
  <2>1. /\ \E n \in Int : n <= Len(rs) /\ rs' = SubSeq(rs, 1, n)
        /\ fp' = fp /\ armed' = armed
    BY <1>1, <1>4, LinkedRange
    DEF PopData, ExitToCaller, ExitToCatch, ExitToUnlink, UnwindDone, Cut, Depth, Good
  <2>2. PICK n \in Int : n <= Len(rs) /\ rs' = SubSeq(rs, 1, n)
    BY <2>1
  <2>3. CASE n >= 0
    <3>1. n \in 0..Len(rs)
      BY <1>1, <2>2, <2>3
    <3>2. Extends(rs, rs')
      BY <1>1, <2>2, <3>1, CutFacts
    <3>. QED  BY <1>1, <2>1, <3>2, PendingStays
  <2>4. CASE n < 0
    <3>1. Len(rs') = 0
      BY <1>1, <2>2, <2>4
    <3>2. Extends(rs, rs')
      BY <1>1, <3>1 DEF Extends
    <3>. QED  BY <1>1, <2>1, <3>2, PendingStays
  <2>. QED  BY <2>2, <2>3, <2>4
<1>5. CASE \/ \E v \in Var, x \in Val : Assign(v, x)
           \/ ThrowUncaught \/ Unwind \/ UNCHANGED vars
  <2>1. rs' = rs /\ armed' = armed
    BY <1>5 DEF Assign, ThrowUncaught, Unwind, vars
  <2>. QED  BY <2>1 DEF CleanupPendingOnce, Pending, OfKind, Depth
<1>6. ASSUME NEW v \in Var, Preserve(v)
      PROVE  CleanupPendingOnce'
  <2>. DEFINE held == <<Cell("var", v), Cell("val", env[v])>>
  <2>1. /\ held \in Seq(Cells) /\ Len(held) # 0 /\ Cell("restore", 0) \in Cells
        /\ Cell("restore", 0).kind # "cleanup"
    BY <1>1 DEF TypeOK, Cell, Cells, Plain
  <2>2. LinkFrame(held, Cell("restore", 0)) /\ armed' = armed /\ cf' = cf
    BY <1>6 DEF Preserve
  <2>. HIDE DEF held
  <2>3. \A o : Pending(o) = Pending(o)' \ {fp'} /\ fp' \notin Pending(o)'
    BY <1>1, <2>1, <2>2, PendingLinked
  <2>. QED  BY <2>2, <2>3 DEF CleanupPendingOnce
<1>7. ASSUME NEW n \in RoomSize, Room(n)
      PROVE  CleanupPendingOnce'
  <2>. DEFINE locals == [i \in 1..n |-> Cell("local", 0)]
              count == <<Cell("count", n)>>
  <2>1. /\ locals \in Seq(Cells) /\ Len(locals) \in Nat
        /\ count \in Seq(Cells) /\ Len(count) = 1
        /\ Cell("unroom", 0) \in Cells /\ Cell("unroom", 0).kind # "cleanup"
    BY RoomAssumption DEF Cell, Cells, Plain
  <2>2. LinkFrame(locals \o count, Cell("unroom", 0)) /\ armed' = armed /\ cf' = cf
    BY <1>7 DEF Room
  <2>. HIDE DEF locals, count
  <2>3. locals \o count \in Seq(Cells) /\ Len(locals \o count) # 0
    BY <2>1, ConcatFacts
  <2>4. \A o : Pending(o) = Pending(o)' \ {fp'} /\ fp' \notin Pending(o)'
    BY <1>1, <2>1, <2>2, <2>3, PendingLinked
  <2>. QED  BY <2>2, <2>4 DEF CleanupPendingOnce
<1>8. ASSUME NEW o \in Obj, NEW n \in {1, 2}, OnExit(o, n)
      PROVE  CleanupPendingOnce'
  <2>. DEFINE objs == [i \in 1..n |-> Cell("obj", o)]
              cfa == <<Cell("cfa", 0)>>
  <2>1. /\ objs \in Seq(Cells) /\ Len(objs) = n /\ objs[n].arg = o
        /\ cfa \in Seq(Cells) /\ Len(cfa) = 1
        /\ Cell("cleanup", n) \in Cells /\ Cell("cleanup", n).kind = "cleanup"
    BY DEF Cell, Cells, Plain
  <2>2. /\ LinkFrame(cfa \o objs, Cell("cleanup", n)) /\ cf' = cf
        /\ o \notin armed /\ armed' = armed \cup {o}
    BY <1>8 DEF OnExit
  <2>. HIDE DEF objs, cfa
  <2>3. /\ cfa \o objs \in Seq(Cells) /\ Len(cfa \o objs) = n + 1
        /\ (cfa \o objs)[n + 1].arg = o
    <3>1. /\ cfa \o objs \in Seq(Cells) /\ Len(cfa \o objs) = Len(cfa) + Len(objs)
          /\ \A i \in 1..Len(objs) : (cfa \o objs)[Len(cfa) + i] = objs[i]
      BY <2>1, ConcatFacts
    <3>2. n \in 1..Len(objs) /\ Len(cfa) + n = n + 1
      BY <2>1
    <3>. QED  BY <2>1, <3>1, <3>2
  <2>4. \A p : /\ Pending(p) = Pending(p)' \ {fp'}
               /\ fp' \in Pending(p)' <=> p = o
    <3>. DEFINE held == cfa \o objs
    <3>1. /\ held \in Seq(Cells) /\ Len(held) # 0 /\ held[Len(held)].arg = o
          /\ LinkFrame(held, Cell("cleanup", n))
      BY <2>2, <2>3
    <3>2. Good(rs', fp', cf)
      BY <1>1, <2>2
    <3>. HIDE DEF held
    <3>3. /\ \A p : Pending(p) = Pending(p)' \ {fp'}
          /\ \A p : fp' \in Pending(p)' <=> /\ Cell("cleanup", n).kind = "cleanup"
                                            /\ held[Len(held)].arg = p
      BY <1>1, <2>1, <3>1, <3>2, PendingLinked
    <3>. QED  BY <2>1, <3>1, <3>3
  <2>5. ASSUME NEW p \in Obj
        PROVE  IF p \in armed' THEN \E i \in Pending(p)' : Pending(p)' = {i}
                               ELSE Pending(p)' = {}
    <3>1. CASE p = o
      <4>1. Pending(o) = {}
        BY <2>2 DEF CleanupPendingOnce
      <4>2. Pending(o)' = {fp'}
        BY <2>4, <4>1
      <4>. QED  BY <2>2, <3>1, <4>2
    <3>2. CASE p # o
      <4>1. Pending(p)' = Pending(p) /\ (p \in armed' <=> p \in armed)
        BY <2>2, <2>4, <3>2
      <4>. QED  BY <4>1 DEF CleanupPendingOnce
    <3>. QED  BY <3>1, <3>2
  <2>. QED  BY <2>5 DEF CleanupPendingOnce
<1>9. CASE ExitToRemove
  <2>1. fp # 0 /\ cf < fp
    BY <1>1, <1>9, RemoveOnTop DEF ExitToRemove
  <2>2. InRemove # InUnwind
    BY DEF InRemove, InUnwind, Cell
  <2>. QED  BY <1>1, <1>9, <2>1, <2>2, PendingUnlink DEF ExitToRemove
<1>10. CASE UnwindFrame
  <2>1. fp # 0 /\ cf < fp /\ cf # 0
    BY <1>1, <1>10 DEF UnwindFrame, FramesToUnwind
  <2>. QED  BY <1>1, <1>10, <2>1, PendingUnlink DEF UnwindFrame
<1>. QED  BY <1>2, <1>3, <1>4, <1>5, <1>6, <1>7, <1>8, <1>9, <1>10
          DEF Next, Program, Machine, Stopped

\* For programs of every length: an object registered with on-exit or
\* on-exit2 is held by exactly one frame until its cleanup begins, however
\* returns, throws and unwinds remove the frames; cleanup never runs twice.
THEOREM CleanupPendingOnceCorrect == Spec => []CleanupPendingOnce
<1>1. Init => CleanupPendingOnce
  <2>. SUFFICES ASSUME Init PROVE CleanupPendingOnce
    OBVIOUS
  <2>1. rs = <<Ret>> /\ rs[1].kind = "ret" /\ Len(rs) = 1 /\ armed = {}
    BY DEF Init, Ret, Cell
  <2>2. OfKind("link") = {}
    BY <2>1 DEF OfKind, Depth
  <2>. QED  BY <2>1, <2>2 DEF CleanupPendingOnce, Pending
<1>. QED  BY <1>1, CleanupStep, Inductive, PTL DEF Spec

-----------------------------------------------------------------------------
(* Dynamic scope *)

BoundAt(s, v, c) == {i \in CellsOf(s, "var") : i > c /\ s[i].arg = v}

\* The value that v has when everything above c is gone from stack s.
Under(s, e, v, c) ==
  IF BoundAt(s, v, c) = {} THEN e[v] ELSE s[Smallest(BoundAt(s, v, c)) + 1].arg

\* A variable's cell is always the lowest of a frame of preserve.
VarsFramed(s) ==
  \A i \in 1..Len(s) : s[i].kind = "var" =>
    /\ i + 3 <= Len(s)
    /\ s[i+1].kind = "val" /\ s[i+2].kind = "restore" /\ s[i+3].kind = "link"

\* A nonempty set of numbers has a smallest one.
LEMMA SmallestIn ==
  ASSUME NEW S, S \subseteq Nat, S # {}
  PROVE  Smallest(S) \in S
<1>. DEFINE R == OpToRel(<, Nat)
<1>1. IsWellFoundedOn(R, Nat)
  BY NatLessThanWellFounded
<1>2. \A m \in Nat, n \in Nat : <<n, m>> \in R <=> n < m
  BY DEF OpToRel
<1>. HIDE DEF R
<1>3. PICK m \in S : \A n \in S : <<n, m>> \notin R
  BY <1>1, WFMin
<1>4. ASSUME NEW n \in S PROVE m <= n
  <2>1. m \in Nat /\ n \in Nat
    OBVIOUS
  <2>2. ~(n < m)
    BY <1>2, <1>3, <2>1
  <2>. QED  BY <2>1, <2>2
<1>. QED  BY <1>4 DEF Smallest

\* What is bound above all others does not change the lowest binding.
LEMMA SmallestKept ==
  ASSUME NEW S, NEW T, NEW j \in Nat, S \subseteq Nat, T = S \cup {j}, S # {},
         \A i \in S : i < j
  PROVE  Smallest(S) = Smallest(T)
<1>. DEFINE P(m) == m \in S /\ \A n \in S : m <= n
            Q(m) == m \in T /\ \A n \in T : m <= n
<1>1. ASSUME NEW m, P(m) PROVE Q(m)
  <2>1. m \in Nat /\ m < j
    BY <1>1
  <2>2. \A n \in T : n \in S \/ n = j
    OBVIOUS
  <2>. QED  BY <1>1, <2>1, <2>2
<1>2. ASSUME NEW m, Q(m) PROVE P(m)
  <2>1. PICK i \in S : i \in Nat /\ i < j
    OBVIOUS
  <2>2. m <= i /\ (m \in S \/ m = j) /\ \A n \in S : m <= n
    BY <1>2, <2>1
  <2>3. m # j
    BY <2>1, <2>2
  <2>. QED  BY <2>2, <2>3
<1>3. Smallest(S) = (CHOOSE m : P(m)) /\ Smallest(T) = (CHOOSE m : Q(m))
  BY DEF Smallest
<1>4. \A m : P(m) <=> Q(m)
  BY <1>1, <1>2
<1>. HIDE DEF P, Q
<1>5. (CHOOSE m : P(m)) = (CHOOSE m : Q(m))
  BY <1>4
<1>. QED  BY <1>3, <1>5

\* Of one binding, that one is the lowest.
LEMMA SmallestOfOne ==
  ASSUME NEW j \in Nat
  PROVE  Smallest({j}) = j
<1>1. \E m \in {j} : \A n \in {j} : m <= n
  OBVIOUS
<1>. QED  BY <1>1 DEF Smallest

\* The newest frame of t, at j, lies above all of s, and those beneath it
\* are those of s.
OneFrameMore(s, t, j) ==
  /\ s \in Seq(Cells) /\ t \in Seq(Cells) /\ j \in Nat /\ j > Len(s)
  /\ \E q, r : Good(s, t[j].arg, q) /\ Good(t, j, r)
  /\ Extends(t, s) /\ VarsFramed(s) /\ VarsFramed(t)

\* The newest frame is all that may bind a variable over what is beneath it.
LEMMA BoundPushed ==
  ASSUME NEW s, NEW t, NEW j, OneFrameMore(s, t, j), NEW v, NEW c
  PROVE  /\ BoundAt(s, v, c) = BoundAt(t, v, c) \ {j - 3}
         /\ \A i \in BoundAt(s, v, c) : i \in Nat /\ i + 1 <= Len(s) /\ t[i+1] = s[i+1]
<1>. DEFINE p == t[j].arg
<1>0. PICK q, r :
        /\ s \in Seq(Cells) /\ t \in Seq(Cells) /\ j \in Nat
        /\ Good(s, p, q) /\ Good(t, j, r) /\ Extends(t, s)
        /\ VarsFramed(s) /\ VarsFramed(t) /\ j > Len(s) /\ t[j].arg = p
  BY DEF OneFrameMore
<1>. HIDE DEF p
<1>. USE <1>0
<1>1. /\ Len(s) \in Nat /\ Len(t) \in Nat /\ Len(s) <= Len(t)
      /\ p \in 0..Len(s) /\ j \in 1..Len(t) /\ t[j].kind = "link"
  <2>1. Len(s) \in Nat /\ Len(t) \in Nat /\ Len(s) <= Len(t)
    BY LenProperties DEF Extends
  <2>2. p \in 0..Len(s) /\ j \in 0..Len(t) /\ (j # 0 => t[j].kind = "link")
    BY LinkedRange DEF Good
  <2>. QED  BY <2>1, <2>2
<1>2. Newest(p, {i \in CellsOf(t, "link") : i < j})
  BY <1>1 DEF Good, Linked, CellsOf
<1>3. ASSUME NEW i \in BoundAt(t, v, c), i # j - 3
      PROVE  i \in 1..Len(s)
  <2>1. i \in 1..Len(t) /\ t[i].kind = "var"
    BY DEF BoundAt, CellsOf
  <2>2. i + 3 \in 1..Len(t) /\ t[i+3].kind = "link"
    <3>1. i + 3 <= Len(t) /\ t[i+3].kind = "link"
      BY <2>1 DEF VarsFramed
    <3>. QED  BY <1>1, <2>1, <3>1
  <2>3. i + 3 <= j
    <3>1. Linked(t, "link", j)
      BY DEF Good
    <3>2. \A k \in 1..Len(t) : t[k].kind = "link" => k <= j
      BY <3>1, LinkedRange
    <3>. QED  BY <2>2, <3>2
  <2>4. i + 3 < j
    BY <1>1, <1>3, <2>1, <2>3
  <2>5. i + 3 <= p
    BY <1>2, <2>2, <2>4 DEF Newest, CellsOf
  <2>. QED  BY <1>1, <2>1, <2>5
<1>4. ASSUME NEW i \in BoundAt(s, v, c)
      PROVE  i \in 1..Len(s) /\ i + 3 <= Len(s) /\ i # j - 3
  <2>1. i \in 1..Len(s) /\ s[i].kind = "var"
    BY DEF BoundAt, CellsOf
  <2>2. i + 3 <= Len(s)
    BY <2>1 DEF VarsFramed
  <2>. QED  BY <1>1, <2>1, <2>2
<1>5. ASSUME NEW i \in 1..Len(s)
      PROVE  i \in BoundAt(s, v, c) <=> i \in BoundAt(t, v, c)
  BY <1>1 DEF BoundAt, CellsOf, Extends
<1>6. BoundAt(s, v, c) = BoundAt(t, v, c) \ {j - 3}
  BY <1>3, <1>4, <1>5
<1>7. ASSUME NEW i \in BoundAt(s, v, c)
      PROVE  i \in Nat /\ i + 1 <= Len(s) /\ t[i+1] = s[i+1]
  <2>1. i + 1 \in 1..Len(s)
    BY <1>1, <1>4
  <2>. QED  BY <1>4, <2>1 DEF Extends
<1>. QED  BY <1>6, <1>7

\* Pushing or cutting off what holds no link binds and frees nothing.
LEMMA UnderSame ==
  ASSUME NEW s \in Seq(Cells), NEW t \in Seq(Cells), NEW p, NEW q, NEW r,
         Good(s, p, q), Good(t, p, r), Extends(t, s), VarsFramed(s), VarsFramed(t),
         NEW v, NEW c, NEW e
  PROVE  BoundAt(s, v, c) = BoundAt(t, v, c) /\ Under(s, e, v, c) = Under(t, e, v, c)
<1>1. /\ Len(s) \in Nat /\ Len(t) \in Nat /\ Len(s) <= Len(t)
      /\ p \in 0..Len(s)
  BY LenProperties, LinkedRange DEF Good, Extends
<1>2. ASSUME NEW i \in BoundAt(t, v, c)
      PROVE  i \in 1..Len(s)
  <2>1. i \in 1..Len(t) /\ t[i].kind = "var"
    BY DEF BoundAt, CellsOf
  <2>2. i + 3 \in 1..Len(t) /\ t[i+3].kind = "link"
    BY <1>1, <2>1 DEF VarsFramed
  <2>3. i + 3 <= p
    BY <2>2, LinkedRange DEF Good
  <2>. QED  BY <1>1, <2>1, <2>3
<1>3. \A i \in BoundAt(s, v, c) : i \in 1..Len(s)
  BY DEF BoundAt, CellsOf
<1>4. ASSUME NEW i \in 1..Len(s)
      PROVE  i \in BoundAt(s, v, c) <=> i \in BoundAt(t, v, c)
  BY <1>1 DEF BoundAt, CellsOf, Extends
<1>5. BoundAt(s, v, c) = BoundAt(t, v, c)
  BY <1>2, <1>3, <1>4
<1>6. ASSUME NEW i \in BoundAt(s, v, c) PROVE t[i+1] = s[i+1]
  <2>1. i \in 1..Len(s) /\ s[i].kind = "var"
    BY DEF BoundAt, CellsOf
  <2>2. i + 1 \in 1..Len(s)
    BY <1>1, <2>1 DEF VarsFramed
  <2>. QED  BY <2>2 DEF Extends
<1>7. CASE BoundAt(s, v, c) = {}
  BY <1>5, <1>7 DEF Under
<1>8. CASE BoundAt(s, v, c) # {}
  <2>. DEFINE B == BoundAt(s, v, c)
  <2>1. Smallest(B) \in B
    BY <1>3, <1>8, SmallestIn
  <2>. QED  BY <1>5, <1>6, <1>8, <2>1 DEF Under
<1>. QED  BY <1>5, <1>7, <1>8

\* Pushing cells that are no variables leaves every variable in its frame.
LEMMA VarsPush ==
  ASSUME NEW s \in Seq(Cells), NEW t \in Seq(Cells), VarsFramed(s), Extends(t, s),
         \A i \in (Len(s)+1)..Len(t) : t[i].kind # "var"
  PROVE  VarsFramed(t)
<1>. Len(s) \in Nat /\ Len(t) \in Nat
  BY LenProperties
<1>. SUFFICES ASSUME NEW i \in 1..Len(t), t[i].kind = "var"
              PROVE  /\ i + 3 <= Len(t) /\ t[i+1].kind = "val"
                     /\ t[i+2].kind = "restore" /\ t[i+3].kind = "link"
  BY DEF VarsFramed
<1>1. i \in 1..Len(s) /\ t[i] = s[i]
  BY DEF Extends
<1>2. /\ i + 3 <= Len(s) /\ s[i+1].kind = "val"
      /\ s[i+2].kind = "restore" /\ s[i+3].kind = "link"
  BY <1>1 DEF VarsFramed
<1>3. i + 1 \in 1..Len(s) /\ i + 2 \in 1..Len(s) /\ i + 3 \in 1..Len(s) /\ Len(s) <= Len(t)
  BY <1>1, <1>2 DEF Extends
<1>. QED  BY <1>2, <1>3 DEF Extends

\* So does a cut beneath a cell that is in no variable's frame, or is its
\* lowest.
LEMMA VarsCut ==
  ASSUME NEW s \in Seq(Cells), NEW n \in 0..Len(s), VarsFramed(s),
         n # Len(s) => s[n+1].kind \notin {"val", "restore", "link"}
  PROVE  VarsFramed(SubSeq(s, 1, n))
<1>. DEFINE t == SubSeq(s, 1, n)
<1>1. t \in Seq(Cells) /\ Len(t) = n /\ Extends(s, t) /\ Len(s) \in Nat
  BY CutFacts, LenProperties
<1>. HIDE DEF t
<1>2. ASSUME NEW i \in 1..n, t[i].kind = "var"
      PROVE  /\ i + 3 <= n /\ t[i+1].kind = "val"
             /\ t[i+2].kind = "restore" /\ t[i+3].kind = "link"
  <2>1. t[i] = s[i] /\ i \in 1..Len(s)
    BY <1>1 DEF Extends
  <2>2. /\ i + 3 <= Len(s) /\ s[i+1].kind = "val"
        /\ s[i+2].kind = "restore" /\ s[i+3].kind = "link"
    BY <1>2, <2>1 DEF VarsFramed
  <2>3. n # i /\ n # i + 1 /\ n # i + 2
    BY <1>1, <2>2
  <2>4. i + 3 <= n
    BY <1>1, <2>3
  <2>5. i + 1 \in 1..n /\ i + 2 \in 1..n /\ i + 3 \in 1..n
    BY <2>4
  <2>. QED  BY <1>1, <2>2, <2>4, <2>5 DEF Extends
<1>. QED  BY <1>1, <1>2 DEF VarsFramed, t

\* Unlinking removes a variable's frame whole, or none.
LEMMA VarsUnlink ==
  ASSUME TypeOK, Good(rs, fp, cf), VarsFramed(rs), fp # 0, cf < fp,
         NEW again \in {"exit", "unwind"}, NEW back \in {InRemove, InUnwind},
         back = InUnwind => cf # 0,
         Unlink(again, back)
  PROVE  \E b \in 0..Len(rs) :
           LET low == SubSeq(rs, 1, b)
           IN  /\ low \in Seq(Cells) /\ Len(low) = b /\ Extends(rs, low)
               /\ Good(low, rs[fp].arg, cf) /\ VarsFramed(low) /\ b < fp - 1
               /\ fp \in 1..Len(rs) /\ fp >= 3
               /\ \/ /\ RestoreFrame(rs, fp, b) /\ rs' = low
                     /\ env' = [env EXCEPT ![rs[fp-3].arg] = rs[fp-2].arg]
                  \/ /\ rs[fp-1].kind # "restore" /\ env' = env
                     /\ rs' = low \/ rs' = Append(low, back)
<1>1. rs \in Seq(Cells) /\ Len(rs) \in Nat /\ fp \in Nat /\ cf \in Nat
  BY LenProperties DEF TypeOK
<1>2. PICK b \in 0..Len(rs) :
        /\ FrameAt(rs, fp, b)
        /\ b # 0 => rs[b].kind \notin {"link", "catch"}
        /\ Newest(rs[fp].arg, {i \in CellsOf(rs, "link") : i <= b})
        /\ Newest(cf, {i \in CellsOf(rs, "catch") : i <= b})
  BY <1>1, UnlinkBase
<1>. DEFINE low == SubSeq(rs, 1, b)
<1>3. /\ low \in Seq(Cells) /\ Len(low) = b /\ Extends(rs, low)
      /\ Good(low, rs[fp].arg, cf)
  BY <1>1, <1>2, CutGood, CutFacts
<1>4. b < fp - 1 /\ b \in Nat /\ fp \in 1..Len(rs) /\ fp >= 3
  <2>1. b < fp - 1 /\ b \in Nat /\ fp \in 1..Len(rs)
    BY <1>1, <1>2, LinkedRange DEF FrameAt, Good
  <2>2. fp >= 3
    BY <1>2, <2>1 DEF FrameAt, RestoreFrame, CleanupFrame, RoomFrame
  <2>. QED  BY <2>1, <2>2
<1>5. rs[b+1].kind \notin {"val", "restore", "link"}
  <2>1. CASE RestoreFrame(rs, fp, b)
    BY <1>4, <2>1 DEF RestoreFrame
  <2>2. CASE CleanupFrame(rs, fp, b)
    BY <2>2 DEF CleanupFrame
  <2>3. CASE RoomFrame(rs, fp, b)
    <3>1. CASE b + 1 <= fp - 3
      BY <1>1, <1>4, <2>3, <3>1 DEF RoomFrame
    <3>2. CASE b + 1 > fp - 3
      <4>1. b + 1 = fp - 2
        BY <1>1, <1>4, <2>3, <3>2 DEF RoomFrame
      <4>. QED  BY <2>3, <4>1 DEF RoomFrame
    <3>. QED  BY <1>1, <1>4, <3>1, <3>2
  <2>. QED  BY <1>2, <2>1, <2>2, <2>3 DEF FrameAt
<1>6. VarsFramed(low)
  BY <1>1, <1>5, VarsCut
<1>7. CASE UnlinkRestore(again)
  <2>1. RestoreFrame(rs, fp, b)
    BY <1>2, <1>7 DEF UnlinkRestore, Is, FrameAt, CleanupFrame, RoomFrame
  <2>2. rs' = low /\ env' = [env EXCEPT ![rs[fp-3].arg] = rs[fp-2].arg]
    BY <1>7, <2>1 DEF UnlinkRestore, Cut, RestoreFrame
  <2>. QED  BY <1>3, <1>4, <1>6, <2>1, <2>2
<1>8. CASE UnlinkRoom(again)
  <2>1. RoomFrame(rs, fp, b)
    BY <1>2, <1>8 DEF UnlinkRoom, Is, FrameAt, CleanupFrame, RestoreFrame
  <2>2. rs' = low /\ env' = env /\ rs[fp-1].kind # "restore"
    BY <1>8, <2>1 DEF UnlinkRoom, Cut, RoomFrame
  <2>. QED  BY <1>3, <1>4, <1>6, <2>2
<1>9. CASE UnlinkCleanup(back)
  <2>1. CleanupFrame(rs, fp, b)
    BY <1>2, <1>9 DEF UnlinkCleanup, Is, FrameAt, RoomFrame, RestoreFrame
  <2>2. rs' = Append(low, back) /\ env' = env /\ rs[fp-1].kind # "restore"
    BY <1>9, <2>1 DEF UnlinkCleanup, Cut, CleanupFrame
  <2>. QED  BY <1>3, <1>4, <1>6, <2>2
<1>. QED  BY <1>7, <1>8, <1>9 DEF Unlink

\* Every step keeps variables in their frames.
LEMMA VarsStep == IInv /\ VarsFramed(rs) /\ [Next]_vars => VarsFramed(rs')
<1>. SUFFICES ASSUME IInv, VarsFramed(rs), [Next]_vars
              PROVE  VarsFramed(rs')
  OBVIOUS
<1>1. /\ TypeOK /\ Good(rs, fp, cf) /\ rs \in Seq(Cells) /\ fp \in Nat /\ cf \in Nat
      /\ Len(rs) \in Nat /\ Depth = Len(rs) /\ (pc = "unwind" => cf # 0)
  BY LenProperties DEF IInv, TypeOK, Depth
<1>2. CASE Call \/ PushData \/ Throw
  <2>1. PICK c \in {Ret, Data, Dead} : rs' = Append(rs, c)
    BY <1>2 DEF Call, PushData, Throw
  <2>2. c \in Cells /\ c.kind # "var"
    BY DEF Ret, Data, Dead, Cell, Cells, Plain
  <2>3. /\ rs' \in Seq(Cells) /\ Len(rs') = Len(rs) + 1 /\ rs'[Len(rs) + 1] = c
        /\ Extends(rs', rs)
    BY <1>1, <2>1, <2>2, AppendFacts
  <2>. QED  BY <1>1, <2>2, <2>3, VarsPush
<1>3. CASE Catch
  <2>. DEFINE top == <<Ret, Cell("catch", cf), InCatch>>
  <2>1. /\ top \in Seq(Cells) /\ Len(top) = 3 /\ rs' = rs \o top
        /\ \A i \in 1..3 : top[i].kind # "var"
    BY <1>1, <1>3 DEF Catch, Cell, Cells, Plain, Ret, InCatch
  <2>. HIDE DEF top
  <2>2. /\ rs' \in Seq(Cells) /\ Len(rs') = Len(rs) + 3 /\ Extends(rs', rs)
        /\ \A i \in 1..3 : rs'[Len(rs) + i] = top[i]
    <3>1. /\ rs \o top \in Seq(Cells) /\ Len(rs \o top) = Len(rs) + Len(top)
          /\ \A i \in 1..Len(top) : (rs \o top)[Len(rs) + i] = top[i]
          /\ Extends(rs \o top, rs)
      <4>1. rs \in Seq(Cells) /\ top \in Seq(Cells)
        BY <1>1, <2>1
      <4>. QED  BY <4>1, ConcatFacts
    <3>. QED  BY <2>1, <3>1
  <2>3. ASSUME NEW i \in (Len(rs)+1)..Len(rs') PROVE rs'[i].kind # "var"
    <3>1. i - Len(rs) \in 1..3 /\ Len(rs) + (i - Len(rs)) = i
      BY <1>1, <2>2
    <3>. QED  BY <2>1, <2>2, <3>1
  <2>. QED  BY <1>1, <2>2, <2>3, VarsPush
<1>4. CASE PopData \/ ExitToCaller \/ ExitToUnlink
  <2>1. /\ Depth \in 1..Len(rs) /\ rs' = SubSeq(rs, 1, Depth - 1)
        /\ rs[Depth].kind \in {"data", "ret", "inremove", "inunwind"}
    BY <1>1, <1>4 DEF PopData, ExitToCaller, ExitToUnlink, Cut, Is
  <2>2. Depth - 1 \in 0..Len(rs) /\ (Depth - 1) + 1 = Depth
    BY <1>1, <2>1
  <2>. QED  BY <1>1, <2>1, <2>2, VarsCut
<1>5. CASE ExitToCatch \/ UnwindDone
  <2>1. cf # 0 /\ rs' = SubSeq(rs, 1, cf - 2)
    <3>1. CASE ExitToCatch
      <4>1. cf # 0 /\ Depth - 3 = cf - 2
        BY <1>1, <3>1, InCatchOnTop DEF ExitToCatch
      <4>. QED  BY <3>1, <4>1 DEF ExitToCatch, Cut
    <3>2. CASE UnwindDone
      BY <1>1, <3>2 DEF UnwindDone, Cut
    <3>. QED  BY <1>5, <3>1, <3>2
  <2>2. cf \in 1..Len(rs) /\ rs[cf].kind = "catch"
    BY <1>1, <2>1, LinkedRange DEF Good
  <2>3. cf >= 2 /\ rs[cf - 1].kind = "ret"
    BY <2>2, <1>1 DEF Good, Shaped, ShapedAt, CatchAt
  <2>4. cf - 2 \in 0..Len(rs) /\ (cf - 2) + 1 = cf - 1
    BY <1>1, <2>2, <2>3
  <2>. QED  BY <1>1, <2>1, <2>3, <2>4, VarsCut
<1>6. CASE \/ \E v \in Var, x \in Val : Assign(v, x)
           \/ ThrowUncaught \/ Unwind \/ UNCHANGED vars
  BY <1>6 DEF Assign, ThrowUncaught, Unwind, vars
<1>7. ASSUME NEW v \in Var, Preserve(v)
      PROVE  VarsFramed(rs')
  <2>. DEFINE held == <<Cell("var", v), Cell("val", env[v])>>
              n == Len(rs)
  <2>1. /\ held \in Seq(Cells) /\ Len(held) = 2 /\ Cell("restore", 0) \in Cells
        /\ held[1].kind = "var" /\ held[2].kind = "val"
        /\ Cell("restore", 0).kind = "restore" /\ Cell("link", fp).kind = "link"
        /\ Cell("remove", 0).kind = "remove"
    BY <1>1 DEF TypeOK, Cell, Cells, Plain
  <2>2. rs' = WithFrame(rs, held, Cell("restore", 0), fp)
    BY <1>1, <1>7 DEF Preserve, LinkFrame, WithFrame
  <2>. HIDE DEF held
  <2>3. Framed(rs', rs, held, Cell("restore", 0), fp, n + 4)
    <3>1. Framed(WithFrame(rs, held, Cell("restore", 0), fp), rs, held,
                 Cell("restore", 0), fp, Len(rs) + Len(held) + 2)
      BY <1>1, <2>1, FrameCells
    <3>2. Len(rs) + Len(held) + 2 = n + 4
      BY <1>1, <2>1
    <3>. QED  BY <2>2, <3>1, <3>2
  <2>4. /\ rs' \in Seq(Cells) /\ Len(rs') = n + 5 /\ Extends(rs', rs)
        /\ rs'[n+1].kind = "var" /\ rs'[n+2].kind = "val"
        /\ rs'[n+3].kind = "restore" /\ rs'[n+4].kind = "link"
        /\ rs'[n+5].kind = "remove"
    <3>1. /\ (n + 4) + 1 = n + 5 /\ (n + 4) - 1 = n + 3
          /\ 1 \in 1..Len(held) /\ 2 \in 1..Len(held)
      BY <1>1, <2>1
    <3>. QED  BY <2>1, <2>3, <3>1 DEF Framed
  <2>5. ASSUME NEW i \in 1..Len(rs'), rs'[i].kind = "var"
        PROVE  /\ i + 3 <= Len(rs') /\ rs'[i+1].kind = "val"
               /\ rs'[i+2].kind = "restore" /\ rs'[i+3].kind = "link"
    <3>1. CASE i \in 1..n
      <4>1. /\ i + 3 <= n /\ rs[i+1].kind = "val"
            /\ rs[i+2].kind = "restore" /\ rs[i+3].kind = "link"
        BY <2>4, <2>5, <3>1 DEF VarsFramed, Extends
      <4>2. i + 1 \in 1..n /\ i + 2 \in 1..n /\ i + 3 \in 1..n /\ n <= Len(rs')
        BY <1>1, <2>4, <3>1, <4>1
      <4>. QED  BY <1>1, <2>4, <4>1, <4>2 DEF Extends
    <3>2. CASE i \notin 1..n
      <4>1. i = n + 1
        BY <1>1, <2>4, <2>5, <3>2
      <4>. QED  BY <1>1, <2>4, <4>1
    <3>. QED  BY <3>1, <3>2
  <2>. QED  BY <2>5 DEF VarsFramed
<1>8. CASE \/ \E o \in Obj, n \in {1, 2} : OnExit(o, n)
           \/ \E n \in RoomSize : Room(n)
  <2>1. PICK held \in Seq(Cells), cleanup \in Cells :
          /\ LinkFrame(held, cleanup)
          /\ cleanup.kind # "var" /\ \A k \in 1..Len(held) : held[k].kind # "var"
    <3>1. ASSUME NEW o \in Obj, NEW n \in {1, 2}, OnExit(o, n)
          PROVE  \E held \in Seq(Cells), cleanup \in Cells :
                   /\ LinkFrame(held, cleanup)
                   /\ cleanup.kind # "var" /\ \A k \in 1..Len(held) : held[k].kind # "var"
      <4>. DEFINE objs == [i \in 1..n |-> Cell("obj", o)]
                  cfa == <<Cell("cfa", 0)>>
      <4>1. /\ objs \in Seq(Cells) /\ cfa \in Seq(Cells)
            /\ Len(objs) = n /\ Len(cfa) = 1 /\ n \in Nat
            /\ \A k \in 1..n : objs[k].kind # "var"
            /\ cfa[1].kind # "var"
            /\ Cell("cleanup", n) \in Cells /\ Cell("cleanup", n).kind # "var"
        BY DEF Cell, Cells, Plain
      <4>2. LinkFrame(cfa \o objs, Cell("cleanup", n))
        BY <3>1 DEF OnExit
      <4>. HIDE DEF objs, cfa
      <4>3. /\ cfa \o objs \in Seq(Cells)
            /\ \A k \in 1..Len(cfa \o objs) : (cfa \o objs)[k].kind # "var"
        BY <4>1, ConcatProperties
      <4>. QED  BY <4>1, <4>2, <4>3
    <3>2. ASSUME NEW n \in RoomSize, Room(n)
          PROVE  \E held \in Seq(Cells), cleanup \in Cells :
                   /\ LinkFrame(held, cleanup)
                   /\ cleanup.kind # "var" /\ \A k \in 1..Len(held) : held[k].kind # "var"
      <4>. DEFINE locals == [i \in 1..n |-> Cell("local", 0)]
                  count == <<Cell("count", n)>>
      <4>1. /\ locals \in Seq(Cells) /\ count \in Seq(Cells)
            /\ Len(locals) = n /\ Len(count) = 1 /\ n \in Nat
            /\ \A k \in 1..n : locals[k].kind # "var"
            /\ count[1].kind # "var"
            /\ Cell("unroom", 0) \in Cells /\ Cell("unroom", 0).kind # "var"
        BY RoomAssumption DEF Cell, Cells, Plain
      <4>2. LinkFrame(locals \o count, Cell("unroom", 0))
        BY <3>2 DEF Room
      <4>. HIDE DEF locals, count
      <4>3. /\ locals \o count \in Seq(Cells)
            /\ \A k \in 1..Len(locals \o count) : (locals \o count)[k].kind # "var"
        BY <4>1, ConcatProperties
      <4>. QED  BY <4>1, <4>2, <4>3
    <3>. QED  BY <1>8, <3>1, <3>2
  <2>. DEFINE j == Len(rs) + Len(held) + 2
  <2>2. Framed(rs', rs, held, cleanup, fp, j) /\ Len(held) \in Nat
    BY <1>1, <2>1, FrameCells, LenProperties DEF LinkFrame, WithFrame
  <2>3. ASSUME NEW i \in (Len(rs)+1)..Len(rs') PROVE rs'[i].kind # "var"
    <3>1. \/ i - Len(rs) \in 1..Len(held) /\ Len(rs) + (i - Len(rs)) = i
          \/ i = j - 1 \/ i = j \/ i = j + 1
      BY <1>1, <2>2 DEF Framed
    <3>2. CASE i - Len(rs) \in 1..Len(held) /\ Len(rs) + (i - Len(rs)) = i
      BY <2>1, <2>2, <3>2 DEF Framed
    <3>3. CASE i = j - 1 \/ i = j \/ i = j + 1
      BY <2>1, <2>2, <3>3 DEF Framed, Cell
    <3>. QED  BY <3>1, <3>2, <3>3
  <2>. QED  BY <1>1, <2>2, <2>3, VarsPush DEF Framed
<1>9. CASE ExitToRemove \/ UnwindFrame
  <2>1. PICK again \in {"exit", "unwind"}, back \in {InRemove, InUnwind} :
          /\ Unlink(again, back) /\ fp # 0 /\ cf < fp /\ (back = InUnwind => cf # 0)
    <3>1. CASE ExitToRemove
      <4>1. fp # 0 /\ cf < fp
        BY <1>1, <3>1, RemoveOnTop DEF ExitToRemove
      <4>2. InRemove # InUnwind
        BY DEF InRemove, InUnwind, Cell
      <4>. QED  BY <3>1, <4>1, <4>2 DEF ExitToRemove
    <3>2. CASE UnwindFrame
      BY <1>1, <3>2 DEF UnwindFrame, FramesToUnwind
    <3>. QED  BY <1>9, <3>1, <3>2
  <2>2. PICK b \in 0..Len(rs) :
          /\ SubSeq(rs, 1, b) \in Seq(Cells) /\ VarsFramed(SubSeq(rs, 1, b))
          /\ rs' = SubSeq(rs, 1, b) \/ rs' = Append(SubSeq(rs, 1, b), back)
    BY <1>1, <2>1, VarsUnlink
  <2>. DEFINE low == SubSeq(rs, 1, b)
  <2>3. back \in Cells /\ back.kind # "var"
    BY DEF InRemove, InUnwind, Cell, Cells, Plain
  <2>. HIDE DEF low
  <2>4. /\ Append(low, back) \in Seq(Cells) /\ Len(Append(low, back)) = Len(low) + 1
        /\ Append(low, back)[Len(low) + 1] = back /\ Extends(Append(low, back), low)
        /\ Len(low) \in Nat /\ low \in Seq(Cells) /\ VarsFramed(low)
    <3>1. low \in Seq(Cells) /\ VarsFramed(low)
      BY <2>2 DEF low
    <3>. QED  BY <2>3, <3>1, AppendFacts, LenProperties
  <2>5. VarsFramed(Append(low, back))
    <3>1. \A i \in (Len(low)+1)..Len(Append(low, back)) : i = Len(low) + 1
      BY <2>4
    <3>2. \A i \in (Len(low)+1)..Len(Append(low, back)) : Append(low, back)[i].kind # "var"
      BY <2>3, <2>4, <3>1
    <3>. QED  BY <2>4, <3>2, VarsPush
  <2>. QED  BY <2>2, <2>5 DEF low
<1>. QED  BY <1>2, <1>3, <1>4, <1>5, <1>6, <1>7, <1>8, <1>9
          DEF Next, Program, Machine, Stopped

\* Stack t has at most one binding more than s, at j, above all those of s;
\* it holds the value that v has on s, in e; without it e and f agree on v.
OneMore(s, e, t, f, v, c, j) ==
  /\ j \in Nat
  /\ BoundAt(s, v, c) = BoundAt(t, v, c) \ {j}
  /\ \A i \in BoundAt(s, v, c) : i \in Nat /\ i < j /\ t[i+1] = s[i+1]
  /\ j \in BoundAt(t, v, c) => t[j+1].arg = e[v]
  /\ j \notin BoundAt(t, v, c) => f[v] = e[v]

\* Binding v, or letting go of its newest binding, keeps its value beneath.
LEMMA UnderBound ==
  ASSUME NEW s, NEW t, NEW v, NEW c, NEW j, NEW e, NEW f,
         OneMore(s, e, t, f, v, c, j)
  PROVE  Under(s, e, v, c) = Under(t, f, v, c)
<1>. DEFINE S == BoundAt(s, v, c)
            T == BoundAt(t, v, c)
<1>0. /\ S = T \ {j} /\ j \in Nat
      /\ \A i \in S : i \in Nat /\ i < j /\ t[i+1] = s[i+1]
      /\ j \in T => t[j+1].arg = e[v]
      /\ j \notin T => f[v] = e[v]
      /\ Under(s, e, v, c) = IF S = {} THEN e[v] ELSE s[Smallest(S) + 1].arg
      /\ Under(t, f, v, c) = IF T = {} THEN f[v] ELSE t[Smallest(T) + 1].arg
  BY DEF Under, OneMore
<1>. HIDE DEF S, T
<1>1. CASE S = {} /\ j \in T
  <2>1. T = {j}
    BY <1>0, <1>1
  <2>2. Smallest(T) = j
    BY <1>0, <2>1, SmallestOfOne
  <2>. QED  BY <1>0, <1>1, <2>1, <2>2
<1>2. CASE S = {} /\ j \notin T
  <2>1. T = {}
    BY <1>0, <1>2
  <2>. QED  BY <1>0, <1>2, <2>1
<1>3. CASE S # {}
  <2>1. Smallest(S) \in S
    BY <1>0, <1>3, SmallestIn
  <2>2. Smallest(S) = Smallest(T)
    <3>1. CASE j \in T
      <4>1. T = S \cup {j} /\ S \subseteq Nat /\ \A i \in S : i < j
        BY <1>0, <3>1
      <4>. QED  BY <1>0, <1>3, <4>1, SmallestKept
    <3>2. CASE j \notin T
      BY <1>0, <3>2
    <3>. QED  BY <3>1, <3>2
  <2>3. T # {}
    BY <1>0, <1>3
  <2>. QED  BY <1>0, <1>3, <2>1, <2>2, <2>3
<1>. QED  BY <1>1, <1>2, <1>3

\* What DynamicScope says of one step.
ScopeKept ==
  \A v \in Var : \A c \in {0} \cup StillCaught :
     Outside(v, c)' # Outside(v, c) =>
        Bindings(v, c) = {} /\ \E x \in Val : Assign(v, x)

\* Preserve and unlink keep every value that is not theirs; nothing but an
\* assignment changes any other.
LEMMA ScopeStep ==
  IInv /\ IInv' /\ VarsFramed(rs) /\ VarsFramed(rs') /\ [Next]_vars => ScopeKept
<1>. SUFFICES ASSUME IInv, IInv', VarsFramed(rs), VarsFramed(rs'), [Next]_vars,
                     NEW v \in Var, NEW c \in {0} \cup StillCaught
              PROVE  Outside(v, c)' # Outside(v, c) =>
                       Bindings(v, c) = {} /\ \E x \in Val : Assign(v, x)
  BY DEF ScopeKept
<1>1. /\ TypeOK /\ Good(rs, fp, cf) /\ rs \in Seq(Cells) /\ fp \in Nat /\ cf \in Nat
      /\ Len(rs) \in Nat /\ Depth = Len(rs) /\ (pc = "unwind" => cf # 0)
      /\ rs' \in Seq(Cells) /\ Good(rs', fp', cf') /\ fp' \in Nat /\ Len(rs') \in Nat
      /\ env \in [Var -> Val]
  BY LenProperties DEF IInv, TypeOK, Depth
<1>2. c \in Nat /\ (c # 0 => /\ c \in 1..Len(rs) /\ rs[c].kind = "catch"
                             /\ c \in 1..Len(rs') /\ rs'[c].kind = "catch")
  BY <1>1 DEF StillCaught, OfKind, Depth
<1>3. /\ Bindings(v, c) = BoundAt(rs, v, c)
      /\ Outside(v, c) = Under(rs, env, v, c)
      /\ Outside(v, c)' = Under(rs', env', v, c)
  BY DEF Bindings, Outside, BoundAt, Under, OfKind, CellsOf, Depth
<1>4. SUFFICES ASSUME ~ (\E x \in Val : Assign(v, x) /\ BoundAt(rs, v, c) = {})
               PROVE  Under(rs', env', v, c) = Under(rs, env, v, c)
  BY <1>3
<1>5. ASSUME Extends(rs', rs) \/ Extends(rs, rs'), fp' = fp, env' = env
      PROVE  Under(rs', env', v, c) = Under(rs, env, v, c)
  <2>1. Good(rs', fp, cf')
    BY <1>1, <1>5
  <2>2. CASE Extends(rs', rs)
    BY <1>1, <1>5, <2>1, <2>2, UnderSame
  <2>3. CASE Extends(rs, rs')
    BY <1>1, <1>5, <2>1, <2>3, UnderSame
  <2>. QED  BY <1>5, <2>2, <2>3
<1>6. CASE Call \/ PushData \/ Throw
  <2>1. PICK d \in {Ret, Data, Dead} : rs' = Append(rs, d)
    BY <1>6 DEF Call, PushData, Throw
  <2>2. d \in Cells
    BY DEF Ret, Data, Dead, Cell, Cells, Plain
  <2>3. Extends(rs', rs)
    BY <1>1, <2>1, <2>2, AppendFacts
  <2>. QED  BY <1>5, <1>6, <2>3 DEF Call, PushData, Throw
<1>7. CASE Catch
  <2>1. /\ rs' = rs \o <<Ret, Cell("catch", cf), InCatch>>
        /\ <<Ret, Cell("catch", cf), InCatch>> \in Seq(Cells)
    BY <1>1, <1>7 DEF Catch, Cell, Cells, Plain, Ret, InCatch
  <2>2. Extends(rs', rs)
    BY <1>1, <2>1, ConcatFacts
  <2>. QED  BY <1>5, <1>7, <2>2 DEF Catch
<1>8. CASE PopData \/ ExitToCaller \/ ExitToCatch \/ ExitToUnlink \/ UnwindDone
  <2>1. /\ \E n \in Int : n <= Len(rs) /\ rs' = SubSeq(rs, 1, n)
        /\ fp' = fp /\ env' = env
    BY <1>1, <1>8, LinkedRange
    DEF PopData, ExitToCaller, ExitToCatch, ExitToUnlink, UnwindDone, Cut, Good
  <2>2. PICK n \in Int : n <= Len(rs) /\ rs' = SubSeq(rs, 1, n)
    BY <2>1
  <2>3. Extends(rs, rs')
    <3>1. CASE n >= 0
      <4>1. n \in 0..Len(rs)
        BY <1>1, <2>2, <3>1
      <4>. QED  BY <1>1, <2>2, <4>1, CutFacts
    <3>2. CASE n < 0
      <4>1. Len(rs') = 0
        BY <1>1, <2>2, <3>2
      <4>. QED  BY <1>1, <4>1 DEF Extends
    <3>. QED  BY <2>2, <3>1, <3>2
  <2>. QED  BY <1>5, <2>1, <2>3
<1>9. CASE ThrowUncaught \/ Unwind \/ UNCHANGED vars
  BY <1>9 DEF ThrowUncaught, Unwind, vars
<1>10. ASSUME NEW w \in Var, NEW x \in Val, Assign(w, x)
       PROVE  Under(rs', env', v, c) = Under(rs, env, v, c)
  <2>1. rs' = rs /\ env' = [env EXCEPT ![w] = x]
    BY <1>10 DEF Assign
  <2>2. CASE w = v
    BY <1>4, <1>10, <2>1, <2>2 DEF Under
  <2>3. CASE w # v
    <3>1. env'[v] = env[v]
      BY <1>1, <2>1, <2>3
    <3>. QED  BY <2>1, <3>1 DEF Under
  <2>. QED  BY <2>2, <2>3
<1>11. ASSUME NEW held \in Seq(Cells), NEW cleanup \in Cells, Len(held) # 0,
              LinkFrame(held, cleanup), env' = env, cf' = cf,
              cleanup.kind = "restore" =>
                Len(held) = 2 /\ held[2].arg = env[held[1].arg]
       PROVE  Under(rs', env', v, c) = Under(rs, env, v, c)
  <2>. DEFINE j == fp' - 3
  <2>1. /\ Framed(rs', rs, held, cleanup, fp, fp')
        /\ fp' = Len(rs) + Len(held) + 2 /\ Len(held) \in Nat
    BY <1>1, <1>11, FrameCells, LenProperties DEF LinkFrame, WithFrame
  <2>2. /\ Extends(rs', rs) /\ fp' > Len(rs) /\ rs'[fp'].arg = fp
        /\ rs'[fp'-1] = cleanup /\ j \in Nat /\ j >= Len(rs)
    BY <1>1, <1>11, <2>1 DEF Framed, Cell
  <2>3. Good(rs', fp', cf)
    BY <1>1, <1>11
  <2>4. /\ BoundAt(rs, v, c) = BoundAt(rs', v, c) \ {j}
        /\ \A i \in BoundAt(rs, v, c) : i \in Nat /\ i + 1 <= Len(rs) /\ rs'[i+1] = rs[i+1]
    <3>1. OneFrameMore(rs, rs', fp')
      BY <1>1, <2>2, <2>3 DEF OneFrameMore
    <3>2. /\ BoundAt(rs, v, c) = BoundAt(rs', v, c) \ {fp' - 3}
          /\ \A i \in BoundAt(rs, v, c) : i \in Nat /\ i + 1 <= Len(rs) /\ rs'[i+1] = rs[i+1]
      BY <3>1, BoundPushed
    <3>. QED  BY <3>2
  <2>5. \A i \in BoundAt(rs, v, c) : i \in Nat /\ i < j /\ rs'[i+1] = rs[i+1]
    BY <1>1, <2>2, <2>4
  <2>6. ASSUME j \in BoundAt(rs', v, c)
        PROVE  rs'[j+1].arg = env[v]
    <3>1. j \in 1..Len(rs') /\ rs'[j].kind = "var" /\ rs'[j].arg = v
      BY <2>6 DEF BoundAt, CellsOf
    <3>2. rs'[j+2].kind = "restore" /\ j + 2 = fp' - 1
      <4>1. rs'[j+2].kind = "restore"
        BY <3>1 DEF VarsFramed
      <4>. QED  BY <1>1, <4>1
    <3>3. Len(held) = 2 /\ held[2].arg = env[held[1].arg]
      BY <1>11, <2>2, <3>2
    <3>4. rs'[j] = held[1] /\ rs'[j+1] = held[2]
      <4>1. j = Len(rs) + 1 /\ j + 1 = Len(rs) + 2 /\ 1 \in 1..Len(held) /\ 2 \in 1..Len(held)
        BY <1>1, <2>1, <3>3
      <4>. QED  BY <2>1, <4>1 DEF Framed
    <3>. QED  BY <3>1, <3>3, <3>4
  <2>. HIDE DEF j
  <2>7. OneMore(rs, env, rs', env', v, c, j)
    BY <1>11, <2>2, <2>4, <2>5, <2>6 DEF OneMore
  <2>. QED  BY <2>7, UnderBound
<1>12. ASSUME NEW w \in Var, Preserve(w)
       PROVE  Under(rs', env', v, c) = Under(rs, env, v, c)
  <2>. DEFINE held == <<Cell("var", w), Cell("val", env[w])>>
  <2>1. /\ held \in Seq(Cells) /\ Len(held) = 2 /\ Cell("restore", 0) \in Cells
        /\ held[2].arg = env[held[1].arg]
    BY <1>1 DEF TypeOK, Cell, Cells, Plain
  <2>2. LinkFrame(held, Cell("restore", 0)) /\ env' = env /\ cf' = cf
    BY <1>12 DEF Preserve
  <2>. HIDE DEF held
  <2>. QED  BY <1>11, <2>1, <2>2
<1>13. ASSUME NEW o \in Obj, NEW n \in {1, 2}, OnExit(o, n)
       PROVE  Under(rs', env', v, c) = Under(rs, env, v, c)
  <2>. DEFINE objs == [i \in 1..n |-> Cell("obj", o)]
              cfa == <<Cell("cfa", 0)>>
  <2>1. /\ objs \in Seq(Cells) /\ cfa \in Seq(Cells) /\ Len(objs) = n /\ Len(cfa) = 1
        /\ Cell("cleanup", n) \in Cells /\ Cell("cleanup", n).kind # "restore"
    BY DEF Cell, Cells, Plain
  <2>2. LinkFrame(cfa \o objs, Cell("cleanup", n)) /\ env' = env /\ cf' = cf
    BY <1>13 DEF OnExit
  <2>. HIDE DEF objs, cfa
  <2>3. cfa \o objs \in Seq(Cells) /\ Len(cfa \o objs) # 0
    BY <2>1, ConcatFacts
  <2>. QED  BY <1>11, <2>1, <2>2, <2>3
<1>14. ASSUME NEW n \in RoomSize, Room(n)
       PROVE  Under(rs', env', v, c) = Under(rs, env, v, c)
  <2>. DEFINE locals == [i \in 1..n |-> Cell("local", 0)]
              count == <<Cell("count", n)>>
  <2>1. /\ locals \in Seq(Cells) /\ count \in Seq(Cells)
        /\ Len(locals) \in Nat /\ Len(count) = 1
        /\ Cell("unroom", 0) \in Cells /\ Cell("unroom", 0).kind # "restore"
    BY RoomAssumption DEF Cell, Cells, Plain
  <2>2. LinkFrame(locals \o count, Cell("unroom", 0)) /\ env' = env /\ cf' = cf
    BY <1>14 DEF Room
  <2>. HIDE DEF locals, count
  <2>3. locals \o count \in Seq(Cells) /\ Len(locals \o count) # 0
    BY <2>1, ConcatFacts
  <2>. QED  BY <1>11, <2>1, <2>2, <2>3
<1>15. CASE ExitToRemove \/ UnwindFrame
  <2>1. PICK again \in {"exit", "unwind"}, back \in {InRemove, InUnwind} :
          /\ Unlink(again, back) /\ fp # 0 /\ cf < fp /\ (back = InUnwind => cf # 0)
    <3>1. CASE ExitToRemove
      <4>1. fp # 0 /\ cf < fp
        BY <1>1, <3>1, RemoveOnTop DEF ExitToRemove
      <4>2. InRemove # InUnwind
        BY DEF InRemove, InUnwind, Cell
      <4>. QED  BY <3>1, <4>1, <4>2 DEF ExitToRemove
    <3>2. CASE UnwindFrame
      BY <1>1, <3>2 DEF UnwindFrame, FramesToUnwind
    <3>. QED  BY <1>15, <3>1, <3>2
  <2>2. fp' = rs[fp].arg /\ cf' = cf
    BY <1>15, <2>1 DEF Unlink, ExitToRemove, UnwindFrame
  <2>3. PICK b \in 0..Len(rs) :
           LET low == SubSeq(rs, 1, b)
           IN  /\ low \in Seq(Cells) /\ Len(low) = b /\ Extends(rs, low)
               /\ Good(low, rs[fp].arg, cf) /\ VarsFramed(low) /\ b < fp - 1
               /\ fp \in 1..Len(rs) /\ fp >= 3
               /\ \/ /\ RestoreFrame(rs, fp, b) /\ rs' = low
                     /\ env' = [env EXCEPT ![rs[fp-3].arg] = rs[fp-2].arg]
                  \/ /\ rs[fp-1].kind # "restore" /\ env' = env
                     /\ rs' = low \/ rs' = Append(low, back)
    BY <1>1, <2>1, VarsUnlink
  <2>. DEFINE low == SubSeq(rs, 1, b)
              j == fp - 3
  <2>4. /\ low \in Seq(Cells) /\ Len(low) = b /\ Extends(rs, low)
        /\ Good(low, rs[fp].arg, cf) /\ VarsFramed(low) /\ b < fp - 1
        /\ fp \in 1..Len(rs) /\ j \in Nat /\ b \in Nat
        /\ \/ /\ RestoreFrame(rs, fp, b) /\ rs' = low
              /\ env' = [env EXCEPT ![rs[fp-3].arg] = rs[fp-2].arg]
           \/ /\ rs[fp-1].kind # "restore" /\ env' = env
              /\ rs' = low \/ rs' = Append(low, back)
    BY <1>1, <2>3
  <2>. HIDE DEF low
  <2>5. /\ BoundAt(low, v, c) = BoundAt(rs, v, c) \ {j}
        /\ \A i \in BoundAt(low, v, c) : i \in Nat /\ i + 1 <= Len(low) /\ rs[i+1] = low[i+1]
    <3>1. fp > Len(low)
      BY <1>1, <2>4
    <3>2. OneFrameMore(low, rs, fp)
      BY <1>1, <2>4, <3>1 DEF OneFrameMore
    <3>. QED  BY <3>2, BoundPushed
  <2>6. ASSUME NEW i \in BoundAt(low, v, c)
        PROVE  i \in Nat /\ i < j /\ rs[i+1] = low[i+1]
    <3>1. i # j /\ i \in Nat /\ i + 1 <= b /\ rs[i+1] = low[i+1]
      BY <2>4, <2>5
    <3>. QED  BY <1>1, <2>4, <3>1
  <2>7. /\ j \in BoundAt(rs, v, c) => rs[j+1].arg = env'[v]
        /\ j \notin BoundAt(rs, v, c) => env[v] = env'[v]
    <3>1. j + 1 = fp - 2 /\ j + 2 = fp - 1
      BY <1>1
    <3>2. CASE /\ RestoreFrame(rs, fp, b) /\ rs' = low
               /\ env' = [env EXCEPT ![rs[fp-3].arg] = rs[fp-2].arg]
      <4>1. /\ rs[j].kind = "var" /\ j > c /\ j \in 1..Len(rs)
        <5>1. b = fp - 4 /\ rs[j].kind = "var"
          BY <3>2 DEF RestoreFrame
        <5>2. c <= b
          BY <1>2, <2>4, <3>2
        <5>. QED  BY <1>1, <1>2, <2>4, <5>1, <5>2
      <4>2. j \in BoundAt(rs, v, c) <=> rs[j].arg = v
        BY <4>1 DEF BoundAt, CellsOf
      <4>. QED  BY <1>1, <3>1, <3>2, <4>2
    <3>3. CASE rs[fp-1].kind # "restore" /\ env' = env
      <4>1. j \in 1..Len(rs) => rs[j].kind # "var"
        BY <3>1, <3>3 DEF VarsFramed
      <4>. QED  BY <3>3, <4>1 DEF BoundAt, CellsOf
    <3>. QED  BY <2>4, <3>2, <3>3
  <2>. HIDE DEF j
  <2>8. Under(low, env', v, c) = Under(rs, env, v, c)
    <3>1. OneMore(low, env', rs, env, v, c, j)
      BY <2>4, <2>5, <2>6, <2>7 DEF OneMore
    <3>. QED  BY <3>1, UnderBound
  <2>9. CASE rs' = low
    BY <2>8, <2>9
  <2>10. CASE rs' = Append(low, back)
    <3>1. back \in Cells
      BY DEF InRemove, InUnwind, Cell, Cells, Plain
    <3>2. Extends(rs', low)
      BY <2>4, <2>10, <3>1, AppendFacts
    <3>3. Good(rs', rs[fp].arg, cf)
      BY <1>1, <2>2
    <3>4. Under(low, env', v, c) = Under(rs', env', v, c)
      BY <1>1, <2>4, <3>2, <3>3, UnderSame
    <3>. QED  BY <2>8, <3>4
  <2>. QED  BY <2>4, <2>9, <2>10
<1>. QED  BY <1>6, <1>7, <1>8, <1>9, <1>10, <1>12, <1>13, <1>14, <1>15
          DEF Next, Program, Machine, Stopped

\* For programs of every length, and however frames go: preserve is dynamic
\* scoping. From the value cells being where restore looks for them.
THEOREM DynamicScopeCorrect == Spec => DynamicScope
<1>1. Init => VarsFramed(rs)
  <2>. SUFFICES ASSUME Init PROVE VarsFramed(rs)
    OBVIOUS
  <2>1. rs = <<Ret>> /\ rs[1].kind = "ret" /\ Len(rs) = 1
    BY DEF Init, Ret, Cell
  <2>. QED  BY <2>1 DEF VarsFramed
<1>2. IInv /\ VarsFramed(rs) /\ [Next]_vars => VarsFramed(rs)'
  BY VarsStep
<1>3. Spec => []VarsFramed(rs)
  BY <1>1, <1>2, Inductive, PTL DEF Spec
<1>4. IInv /\ IInv' /\ VarsFramed(rs) /\ VarsFramed(rs)' /\ [Next]_vars => [ScopeKept]_vars
  BY ScopeStep
<1>5. Spec => [][ScopeKept]_vars
  BY <1>3, <1>4, Inductive, PTL DEF Spec
<1>. QED  BY <1>5 DEF DynamicScope, ScopeKept

-----------------------------------------------------------------------------
(* The log of UndoLog, as the return stack holds it *)

\* An entry is made of cells that lie beneath its link.
LEMMA EntryKept ==
  ASSUME NEW s \in Seq(Cells), NEW t, Shaped(s), Extends(t, s), NEW i \in EntriesOf(s)
  PROVE  EntryOf(t, i) = EntryOf(s, i)
<1>1. Len(s) \in Nat /\ i \in 1..Len(s) /\ s[i].kind \in {"link", "catch"}
  BY LenProperties DEF EntriesOf
<1>2. \A k \in 1..i : t[k] = s[k]
  BY <1>1 DEF Extends
<1>3. CASE s[i].kind = "catch"
  BY <1>1, <1>2, <1>3 DEF EntryOf
<1>4. CASE s[i].kind = "link"
  <2>1. PICK b \in Nat : FrameAt(s, i, b)
    BY <1>1, <1>4 DEF Shaped, ShapedAt
  <2>2. b < i - 1
    BY <2>1 DEF FrameAt
  <2>3. CASE RestoreFrame(s, i, b)
    <3>1. i - 3 \in 1..i /\ i - 2 \in 1..i /\ i - 1 \in 1..i /\ i \in 1..i
      BY <1>1, <2>3 DEF RestoreFrame
    <3>. QED  BY <1>2, <1>4, <2>3, <3>1 DEF RestoreFrame, EntryOf
  <2>4. CASE CleanupFrame(s, i, b)
    <3>1. i - 2 \in 1..i /\ i - 1 \in 1..i /\ i \in 1..i
      BY <1>1, <2>4 DEF CleanupFrame
    <3>. QED  BY <1>2, <1>4, <2>4, <3>1 DEF CleanupFrame, EntryOf
  <2>5. CASE RoomFrame(s, i, b)
    <3>1. i - 1 \in 1..i /\ i \in 1..i
      BY <1>1, <2>2
    <3>. QED  BY <1>2, <1>4, <2>5, <3>1 DEF RoomFrame, EntryOf
  <2>. QED  BY <2>1, <2>3, <2>4, <2>5 DEF FrameAt
<1>. QED  BY <1>1, <1>3, <1>4

\* t has the entries of s, and a newer one at j.
OneEntryMore(s, t, j) ==
  /\ EntriesOf(t) = EntriesOf(s) \cup {j}
  /\ \A i \in EntriesOf(s) : i \in Nat /\ i < j /\ EntryOf(t, i) = EntryOf(s, i)

\* Pushing cells with one link among them, or none, logs one entry or none.
LEMMA EntryPushed ==
  ASSUME NEW s \in Seq(Cells), NEW t \in Seq(Cells), Shaped(s), Extends(t, s),
         NEW j \in (Len(s)+1)..Len(t), t[j].kind \in {"link", "catch"},
         \A i \in (Len(s)+1)..Len(t) : t[i].kind \in {"link", "catch"} => i = j
  PROVE  OneEntryMore(s, t, j)
<1>1. Len(s) \in Nat /\ Len(t) \in Nat /\ Len(s) <= Len(t)
  BY LenProperties DEF Extends
<1>2. EntriesOf(t) = EntriesOf(s) \cup {j}
  BY <1>1 DEF EntriesOf, Extends
<1>3. \A i \in EntriesOf(s) : i \in Nat /\ i < j
  BY <1>1 DEF EntriesOf
<1>. QED  BY <1>2, <1>3, EntryKept DEF OneEntryMore

LEMMA LogKept ==
  ASSUME NEW s \in Seq(Cells), NEW t \in Seq(Cells), Shaped(s), Extends(t, s),
         \A i \in (Len(s)+1)..Len(t) : t[i].kind \notin {"link", "catch"}
  PROVE  LogOf(t) = LogOf(s)
<1>1. Len(s) \in Nat /\ Len(t) \in Nat /\ Len(s) <= Len(t)
  BY LenProperties DEF Extends
<1>2. EntriesOf(t) = EntriesOf(s)
  BY <1>1 DEF EntriesOf, Extends
<1>3. \A i \in EntriesOf(s) : EntryOf(t, i) = EntryOf(s, i)
  BY EntryKept
<1>. QED  BY <1>2, <1>3 DEF LogOf

\* Stacks with the same newest frames have the same log.
LEMMA LogSame ==
  ASSUME NEW s \in Seq(Cells), NEW t \in Seq(Cells), NEW p, NEW q,
         Good(s, p, q), Good(t, p, q), Extends(t, s)
  PROVE  LogOf(t) = LogOf(s)
<1>1. /\ Len(s) \in Nat /\ Len(t) \in Nat
      /\ p \in 0..Len(s) /\ q \in 0..Len(s)
  BY LenProperties, LinkedRange DEF Good
<1>2. \A i \in 1..Len(t) : /\ t[i].kind = "link" => i <= p
                           /\ t[i].kind = "catch" => i <= q
  BY LinkedRange DEF Good
<1>3. \A i \in (Len(s)+1)..Len(t) : t[i].kind \notin {"link", "catch"}
  BY <1>1, <1>2
<1>. QED  BY <1>3, LogKept DEF Good

\* What a stack has over one whose newest frame is the one beneath its own.
LEMMA LogLink ==
  ASSUME NEW s \in Seq(Cells), NEW t \in Seq(Cells), NEW p, NEW q, NEW j \in Nat,
         Good(s, p, q), Good(t, j, q), Extends(t, s), j > Len(s), t[j].arg = p
  PROVE  OneEntryMore(s, t, j)
<1>1. /\ Len(s) \in Nat /\ Len(t) \in Nat /\ p \in 0..Len(s) /\ q \in 0..Len(s)
      /\ j \in 0..Len(t) /\ (j # 0 => t[j].kind = "link")
  BY LenProperties, LinkedRange DEF Good
<1>2. j \in (Len(s)+1)..Len(t) /\ j \in 1..Len(t) /\ t[j].kind = "link"
  BY <1>1
<1>3. Newest(p, {i \in CellsOf(t, "link") : i < j})
  BY <1>1, <1>2 DEF Good, Linked, CellsOf
<1>4. \A i \in 1..Len(t) : t[i].kind = "catch" => i <= q
  BY LinkedRange DEF Good
<1>5. ASSUME NEW i \in (Len(s)+1)..Len(t), t[i].kind = "link"
      PROVE  i = j
  <2>1. i \in 1..Len(t) /\ i <= j
    BY <1>1, <1>5, LinkedRange DEF Good
  <2>2. i < j => i <= p
    BY <1>1, <1>3, <1>5, <2>1 DEF Newest, CellsOf
  <2>. QED  BY <1>1, <2>1, <2>2
<1>6. \A i \in (Len(s)+1)..Len(t) : t[i].kind \in {"link", "catch"} => i = j
  BY <1>1, <1>4, <1>5
<1>. QED  BY <1>2, <1>6, EntryPushed DEF Good

\* The same of catch frames.
LEMMA LogCatch ==
  ASSUME NEW s \in Seq(Cells), NEW t \in Seq(Cells), NEW p, NEW q, NEW j \in Nat,
         Good(s, p, q), Good(t, p, j), Extends(t, s), j > Len(s), t[j].arg = q
  PROVE  OneEntryMore(s, t, j)
<1>1. /\ Len(s) \in Nat /\ Len(t) \in Nat /\ p \in 0..Len(s) /\ q \in 0..Len(s)
      /\ j \in 0..Len(t) /\ (j # 0 => t[j].kind = "catch")
  BY LenProperties, LinkedRange DEF Good
<1>2. j \in (Len(s)+1)..Len(t) /\ j \in 1..Len(t) /\ t[j].kind = "catch"
  BY <1>1
<1>3. Newest(q, {i \in CellsOf(t, "catch") : i < j})
  BY <1>1, <1>2 DEF Good, Linked, CellsOf
<1>4. \A i \in 1..Len(t) : t[i].kind = "link" => i <= p
  BY LinkedRange DEF Good
<1>5. ASSUME NEW i \in (Len(s)+1)..Len(t), t[i].kind = "catch"
      PROVE  i = j
  <2>1. i \in 1..Len(t) /\ i <= j
    BY <1>1, <1>5, LinkedRange DEF Good
  <2>2. i < j => i <= q
    BY <1>1, <1>3, <1>5, <2>1 DEF Newest, CellsOf
  <2>. QED  BY <1>1, <2>1, <2>2
<1>6. \A i \in (Len(s)+1)..Len(t) : t[i].kind \in {"link", "catch"} => i = j
  BY <1>1, <1>4, <1>5
<1>. QED  BY <1>2, <1>6, EntryPushed DEF Good
\* A newer entry is an obligation taken on.
LEMMA LogAdded ==
  ASSUME NEW j, OneEntryMore(rs, rs', j), NEW e, EntryOf(rs', j) = e
  PROVE  Log!Add(e)
<1>1. /\ Logged = [i \in EntriesOf(rs) |-> EntryOf(rs, i)]
      /\ Logged' = [i \in EntriesOf(rs') |-> EntryOf(rs', i)]
  BY DEF Logged, LogOf
<1>2. /\ DOMAIN Logged = EntriesOf(rs)
      /\ j \in DOMAIN Logged' /\ \A t \in DOMAIN Logged : t < j
  BY <1>1 DEF OneEntryMore
<1>3. Logged' = [t \in DOMAIN Logged \cup {j} |-> IF t = j THEN e ELSE Logged[t]]
  <2>1. EntriesOf(rs') = DOMAIN Logged \cup {j}
    BY <1>2 DEF OneEntryMore
  <2>2. \A i \in EntriesOf(rs') : EntryOf(rs', i) = IF i = j THEN e ELSE Logged[i]
    BY <1>1, <1>2, <2>1 DEF OneEntryMore
  <2>. QED  BY <1>1, <2>1, <2>2
<1>. QED  BY <1>2, <1>3 DEF Log!Add

\* The log of what is beneath the newest entry is the log without it.
LEMMA LogRemoved ==
  ASSUME NEW low, NEW j \in Nat, OneEntryMore(low, rs, j), LogOf(rs') = LogOf(low)
  PROVE  j \in DOMAIN Logged /\ Logged[j] = EntryOf(rs, j) /\ Log!Remove(j)
<1>1. /\ Logged = [i \in EntriesOf(rs) |-> EntryOf(rs, i)]
      /\ Logged' = [i \in EntriesOf(low) |-> EntryOf(low, i)]
  BY DEF Logged, LogOf
<1>2. /\ DOMAIN Logged = EntriesOf(low) \cup {j} /\ j \notin EntriesOf(low)
      /\ \A t \in DOMAIN Logged : t <= j
  BY <1>1 DEF OneEntryMore
<1>3. Logged' = [t \in DOMAIN Logged \ {j} |-> Logged[t]]
  <2>1. EntriesOf(low) = DOMAIN Logged \ {j}
    BY <1>2
  <2>2. \A i \in EntriesOf(low) : EntryOf(low, i) = Logged[i]
    BY <1>1, <1>2 DEF OneEntryMore
  <2>. QED  BY <1>1, <2>1, <2>2
<1>. QED  BY <1>1, <1>2, <1>3 DEF Log!Remove

\* Linking a frame logs the entry made of the cells beneath its link.
LEMMA LogLinked ==
  ASSUME TypeOK, Good(rs, fp, cf), Good(rs', fp', cf), rs' \in Seq(Cells),
         NEW held \in Seq(Cells), NEW cleanup \in Cells, Len(held) # 0,
         LinkFrame(held, cleanup)
  PROVE  /\ OneEntryMore(rs, rs', fp')
         /\ rs'[fp'].kind = "link" /\ rs'[fp'-1] = cleanup
         /\ rs'[fp'-2] = held[Len(held)]
         /\ Len(held) > 1 => rs'[fp'-3] = held[Len(held) - 1]
<1>1. rs \in Seq(Cells) /\ fp \in Nat /\ cf \in Nat /\ Len(rs) \in Nat /\ Len(held) \in Nat
  BY LenProperties DEF TypeOK
<1>2. rs' = WithFrame(rs, held, cleanup, fp) /\ fp' = Len(rs) + Len(held) + 2
  BY DEF LinkFrame, WithFrame, Depth
<1>3. Framed(rs', rs, held, cleanup, fp, fp')
  BY <1>1, <1>2, FrameCells
<1>4. /\ Extends(rs', rs) /\ fp' \in Nat /\ fp' > Len(rs)
      /\ rs'[fp'-1] = cleanup /\ rs'[fp'].arg = fp /\ rs'[fp'].kind = "link"
  BY <1>1, <1>2, <1>3 DEF Framed, Cell
<1>5. rs'[fp'-2] = held[Len(held)]
  <2>1. fp' - 2 = Len(rs) + Len(held) /\ Len(held) \in 1..Len(held)
    BY <1>1, <1>2
  <2>. QED  BY <1>3, <2>1 DEF Framed
<1>6. ASSUME Len(held) > 1
      PROVE  rs'[fp'-3] = held[Len(held) - 1]
  <2>1. fp' - 3 = Len(rs) + (Len(held) - 1) /\ Len(held) - 1 \in 1..Len(held)
    BY <1>1, <1>2, <1>6
  <2>. QED  BY <1>3, <2>1 DEF Framed
<1>7. OneEntryMore(rs, rs', fp')
  BY <1>1, <1>4, LogLink
<1>. QED  BY <1>4, <1>5, <1>6, <1>7

\* Unlinking discharges the newest obligation, and that one only.
LEMMA LogUnlink ==
  ASSUME TypeOK, Good(rs, fp, cf), fp # 0, cf < fp,
         NEW again \in {"exit", "unwind"}, NEW back \in {InRemove, InUnwind},
         back = InUnwind => cf # 0,
         Unlink(again, back)
  PROVE  Log!Discharge
<1>1. rs \in Seq(Cells) /\ Len(rs) \in Nat /\ fp \in Nat /\ cf \in Nat
  BY LenProperties DEF TypeOK
<1>2. PICK b \in 0..Len(rs) :
        /\ FrameAt(rs, fp, b)
        /\ b # 0 => rs[b].kind \notin {"link", "catch"}
        /\ Newest(rs[fp].arg, {i \in CellsOf(rs, "link") : i <= b})
        /\ Newest(cf, {i \in CellsOf(rs, "catch") : i <= b})
  BY <1>1, UnlinkBase
<1>. DEFINE low == SubSeq(rs, 1, b)
<1>3. /\ low \in Seq(Cells) /\ Len(low) = b /\ Extends(rs, low)
      /\ Good(low, rs[fp].arg, cf)
  BY <1>1, <1>2, CutGood, CutFacts
<1>4. b < fp - 1 /\ b \in Nat /\ fp \in 1..Len(rs) /\ rs[fp].kind = "link"
  BY <1>1, <1>2, LinkedRange DEF FrameAt, Good
<1>. HIDE DEF low
<1>5. OneEntryMore(low, rs, fp)
  <2>1. fp > Len(low)
    BY <1>3, <1>4
  <2>. QED  BY <1>1, <1>3, <2>1, LogLink
<1>6. ASSUME LogOf(rs') = LogOf(low)
      PROVE  fp \in DOMAIN Logged /\ Logged[fp] = EntryOf(rs, fp) /\ Log!Remove(fp)
  BY <1>1, <1>5, <1>6, LogRemoved
<1>7. CASE UnlinkRestore(again)
  <2>1. RestoreFrame(rs, fp, b)
    BY <1>2, <1>7 DEF UnlinkRestore, Is, FrameAt, CleanupFrame, RoomFrame
  <2>2. /\ rs' = low /\ armed' = armed
        /\ env' = [env EXCEPT ![rs[fp - 3].arg] = rs[fp - 2].arg]
    BY <1>7, <2>1 DEF UnlinkRestore, Cut, RestoreFrame, low
  <2>3. EntryOf(rs, fp) = Log!Restore(rs[fp-3].arg, rs[fp-2].arg)
    BY <1>4, <2>1 DEF EntryOf, RestoreFrame, Log!Restore
  <2>4. /\ fp \in DOMAIN Logged /\ Log!Remove(fp) /\ Logged[fp].kind = "restore"
        /\ Logged[fp].var = rs[fp-3].arg /\ Logged[fp].val = rs[fp-2].arg
    <3>1. fp \in DOMAIN Logged /\ Log!Remove(fp) /\ Logged[fp] = EntryOf(rs, fp)
      BY <1>6, <2>2
    <3>. QED  BY <2>3, <3>1 DEF Log!Restore
  <2>5. Logged[fp] # Log!Mark
    BY <2>4 DEF Log!Mark
  <2>6. env' = IF Logged[fp].kind = "restore"
                 THEN [env EXCEPT ![Logged[fp].var] = Logged[fp].val] ELSE env
    BY <2>2, <2>4
  <2>7. armed' = IF Logged[fp].kind = "cleanup" THEN armed \ {Logged[fp].obj} ELSE armed
    BY <2>2, <2>4
  <2>. QED  BY <2>4, <2>5, <2>6, <2>7 DEF Log!Discharge
<1>8. CASE UnlinkRoom(again)
  <2>1. RoomFrame(rs, fp, b)
    BY <1>2, <1>8 DEF UnlinkRoom, Is, FrameAt, CleanupFrame, RestoreFrame
  <2>2. rs' = low /\ armed' = armed /\ env' = env
    BY <1>8, <2>1 DEF UnlinkRoom, Cut, RoomFrame, low
  <2>3. EntryOf(rs, fp) = Log!Unroom
    BY <1>4, <2>1 DEF EntryOf, RoomFrame, Log!Unroom
  <2>. QED  BY <1>6, <2>2, <2>3 DEF Log!Discharge, Log!Unroom, Log!Mark
<1>9. CASE UnlinkCleanup(back)
  <2>1. CleanupFrame(rs, fp, b)
    BY <1>2, <1>9 DEF UnlinkCleanup, Is, FrameAt, RoomFrame, RestoreFrame
  <2>2. /\ rs' = Append(low, back) /\ armed' = armed \ {rs[fp-2].arg} /\ env' = env
    BY <1>9, <2>1 DEF UnlinkCleanup, Cut, CleanupFrame, low
  <2>3. /\ back \in {Ret, Data, InRemove, Dead, InUnwind}
        /\ (back \in {Dead, InUnwind} => cf # 0) /\ back \in Cells
    BY DEF InRemove, InUnwind, Dead, Cell, Cells, Plain
  <2>4. rs' \in Seq(Cells) /\ Good(rs', rs[fp].arg, cf) /\ Extends(rs', low)
    BY <1>3, <2>2, <2>3, PushGood, AppendFacts
  <2>5. LogOf(rs') = LogOf(low)
    BY <1>3, <2>4, LogSame
  <2>6. EntryOf(rs, fp) = Log!Cleanup(rs[fp-2].arg)
    BY <1>4, <2>1 DEF EntryOf, CleanupFrame, Log!Cleanup
  <2>. QED  BY <1>6, <2>2, <2>5, <2>6 DEF Log!Discharge, Log!Cleanup, Log!Mark
<1>. QED  BY <1>7, <1>8, <1>9 DEF Unlink

\* A catch frame goes as the newest entry of the log.
LEMMA LogDropCatch ==
  ASSUME TypeOK, Good(rs, fp, cf), cf # 0, fp < cf, rs' = SubSeq(rs, 1, cf - 2),
         UNCHANGED <<env, armed>>
  PROVE  Log!Leave
<1>1. rs \in Seq(Cells) /\ Len(rs) \in Nat /\ cf \in Nat /\ fp \in Nat
  BY LenProperties DEF TypeOK
<1>2. cf \in 1..Len(rs) /\ rs[cf].kind = "catch"
  BY <1>1, LinkedRange DEF Good
<1>3. cf >= 2
  BY <1>2 DEF Good, Shaped, ShapedAt, CatchAt
<1>4. cf - 2 \in 0..Len(rs)
  BY <1>1, <1>2, <1>3
<1>5. /\ rs' \in Seq(Cells) /\ Len(rs') = cf - 2 /\ Extends(rs, rs')
      /\ Good(rs', fp, rs[cf].arg)
  BY <1>1, <1>4, DropCatchGood, CutFacts
<1>6. cf > Len(rs')
  BY <1>1, <1>5
<1>7. OneEntryMore(rs', rs, cf)
  BY <1>1, <1>5, <1>6, LogCatch
<1>8. cf \in DOMAIN Logged /\ Logged[cf] = EntryOf(rs, cf) /\ Log!Remove(cf)
  BY <1>1, <1>7, LogRemoved
<1>9. EntryOf(rs, cf) = Log!Mark
  BY <1>2 DEF EntryOf, Log!Mark
<1>. QED  BY <1>8, <1>9 DEF Log!Leave
\* Every step of the return stack is a step of UndoLog, or none.
LEMMA LogStep == IInv /\ IInv' /\ [Next]_vars => [Log!Next]_(Log!vars)
<1>. SUFFICES ASSUME IInv, IInv', [Next]_vars
              PROVE  [Log!Next]_(Log!vars)
  OBVIOUS
<1>1. /\ TypeOK /\ Good(rs, fp, cf) /\ rs \in Seq(Cells) /\ fp \in Nat /\ cf \in Nat
      /\ rs' \in Seq(Cells) /\ Good(rs', fp', cf') /\ Len(rs) \in Nat /\ Len(rs') \in Nat
      /\ (pc = "unwind" => cf # 0) /\ env \in [Var -> Val]
  BY LenProperties DEF IInv, TypeOK
<1>2. ASSUME LogOf(rs') = LogOf(rs), UNCHANGED <<env, armed>>
      PROVE  UNCHANGED Log!vars
  BY <1>2 DEF Logged, Log!vars
<1>3. CASE Call \/ PushData \/ Throw
  <2>1. \E c \in {Ret, Data, Dead} : rs' = Append(rs, c)
    BY <1>3 DEF Call, PushData, Throw
  <2>2. {Ret, Data, Dead} \subseteq Cells
    BY DEF Ret, Data, Dead, Cell, Cells, Plain
  <2>3. Extends(rs', rs)
    BY <1>1, <2>1, <2>2, AppendFacts
  <2>4. fp' = fp /\ cf' = cf /\ UNCHANGED <<env, armed>>
    BY <1>3 DEF Call, PushData, Throw
  <2>5. LogOf(rs') = LogOf(rs)
    BY <1>1, <2>3, <2>4, LogSame
  <2>. QED  BY <1>2, <2>4, <2>5
<1>4. CASE PopData \/ ExitToCaller \/ ExitToUnlink
  <2>1. /\ rs' = SubSeq(rs, 1, Len(rs) - 1) /\ Len(rs) # 0
        /\ fp' = fp /\ cf' = cf /\ UNCHANGED <<env, armed>>
    BY <1>1, <1>4 DEF PopData, ExitToCaller, ExitToUnlink, Cut, Depth, Is
  <2>2. Len(rs) - 1 \in 0..Len(rs)
    BY <1>1, <2>1
  <2>3. Extends(rs, rs')
    BY <1>1, <2>1, <2>2, CutFacts
  <2>4. LogOf(rs) = LogOf(rs')
    BY <1>1, <2>1, <2>3, LogSame
  <2>. QED  BY <1>2, <2>1, <2>4
<1>5. CASE ThrowUncaught \/ Unwind \/ UNCHANGED vars
  <2>1. rs' = rs /\ UNCHANGED <<env, armed>>
    BY <1>5 DEF ThrowUncaught, Unwind, vars
  <2>. QED  BY <1>2, <2>1
<1>6. ASSUME NEW v \in Var, NEW x \in Val, Assign(v, x)
      PROVE  Log!Next
  <2>1. Log!Assign(v, x)
    BY <1>6 DEF Assign, Log!Assign, Logged
  <2>. QED  BY <2>1 DEF Log!Next
<1>7. ASSUME NEW v \in Var, Preserve(v)
      PROVE  Log!Next
  <2>. DEFINE held == <<Cell("var", v), Cell("val", env[v])>>
  <2>1. /\ held \in Seq(Cells) /\ Len(held) = 2 /\ Cell("restore", 0) \in Cells
        /\ held[1].arg = v /\ held[2].arg = env[v]
        /\ Cell("restore", 0).kind = "restore"
    BY <1>1 DEF Cell, Cells, Plain
  <2>2. LinkFrame(held, Cell("restore", 0)) /\ UNCHANGED <<cf, env, armed>>
    BY <1>7 DEF Preserve
  <2>. HIDE DEF held
  <2>3. /\ OneEntryMore(rs, rs', fp') /\ rs'[fp'].kind = "link"
        /\ rs'[fp'-1] = Cell("restore", 0)
        /\ rs'[fp'-2] = held[2] /\ rs'[fp'-3] = held[1]
    <3>1. Good(rs', fp', cf) /\ Len(held) # 0 /\ Len(held) > 1 /\ Len(held) - 1 = 1
      BY <1>1, <2>1, <2>2
    <3>. QED  BY <1>1, <2>1, <2>2, <3>1, LogLinked
  <2>4. EntryOf(rs', fp') = Log!Restore(v, env[v])
    BY <2>1, <2>3 DEF EntryOf, Log!Restore
  <2>5. Log!Add(Log!Restore(v, env[v]))
    BY <2>3, <2>4, LogAdded
  <2>6. Log!Preserve(v)
    BY <2>2, <2>5 DEF Log!Preserve
  <2>. QED  BY <2>6 DEF Log!Next
<1>8. ASSUME NEW n \in RoomSize, Room(n)
      PROVE  Log!Next
  <2>. DEFINE locals == [i \in 1..n |-> Cell("local", 0)]
              count == <<Cell("count", n)>>
              held == locals \o count
  <2>1. /\ locals \in Seq(Cells) /\ Len(locals) \in Nat
        /\ count \in Seq(Cells) /\ Len(count) = 1
        /\ Cell("unroom", 0) \in Cells /\ Cell("unroom", 0).kind = "unroom"
    BY RoomAssumption DEF Cell, Cells, Plain
  <2>2. LinkFrame(held, Cell("unroom", 0)) /\ UNCHANGED <<cf, env, armed>>
    BY <1>8 DEF Room
  <2>. HIDE DEF locals, count
  <2>3. held \in Seq(Cells) /\ Len(held) # 0
    BY <2>1, ConcatFacts
  <2>. HIDE DEF held
  <2>4. /\ OneEntryMore(rs, rs', fp') /\ rs'[fp'].kind = "link"
        /\ rs'[fp'-1] = Cell("unroom", 0)
    BY <1>1, <2>1, <2>2, <2>3, LogLinked
  <2>5. EntryOf(rs', fp') = Log!Unroom
    BY <2>1, <2>4 DEF EntryOf, Log!Unroom
  <2>6. Log!Room
    BY <2>2, <2>4, <2>5, LogAdded DEF Log!Room
  <2>. QED  BY <2>6 DEF Log!Next
<1>9. ASSUME NEW o \in Obj, NEW n \in {1, 2}, OnExit(o, n)
      PROVE  Log!Next
  <2>. DEFINE objs == [i \in 1..n |-> Cell("obj", o)]
              cfa == <<Cell("cfa", 0)>>
              held == cfa \o objs
  <2>1. /\ objs \in Seq(Cells) /\ Len(objs) = n /\ objs[n].arg = o
        /\ cfa \in Seq(Cells) /\ Len(cfa) = 1
        /\ Cell("cleanup", n) \in Cells /\ Cell("cleanup", n).kind = "cleanup"
    BY DEF Cell, Cells, Plain
  <2>2. /\ LinkFrame(held, Cell("cleanup", n)) /\ UNCHANGED <<cf, env>>
        /\ o \notin armed /\ armed' = armed \cup {o}
    BY <1>9 DEF OnExit
  <2>. HIDE DEF objs, cfa
  <2>3. held \in Seq(Cells) /\ Len(held) = n + 1 /\ held[n + 1].arg = o
    <3>0. cfa \in Seq(Cells) /\ objs \in Seq(Cells)
      BY <2>1
    <3>1. /\ cfa \o objs \in Seq(Cells) /\ Len(cfa \o objs) = Len(cfa) + Len(objs)
          /\ \A i \in 1..Len(objs) : (cfa \o objs)[Len(cfa) + i] = objs[i]
      BY <3>0, ConcatFacts
    <3>2. n \in 1..Len(objs) /\ Len(cfa) + n = n + 1
      BY <2>1
    <3>. QED  BY <2>1, <3>1, <3>2
  <2>. HIDE DEF held
  <2>4. /\ OneEntryMore(rs, rs', fp') /\ rs'[fp'].kind = "link"
        /\ rs'[fp'-1] = Cell("cleanup", n) /\ rs'[fp'-2] = held[n + 1]
    <3>1. Len(held) # 0
      BY <2>3
    <3>. QED  BY <1>1, <2>1, <2>2, <2>3, <3>1, LogLinked
  <2>5. EntryOf(rs', fp') = Log!Cleanup(o)
    BY <2>1, <2>3, <2>4 DEF EntryOf, Log!Cleanup
  <2>6. Log!OnExit(o)
    BY <2>2, <2>4, <2>5, LogAdded DEF Log!OnExit
  <2>. QED  BY <2>6 DEF Log!Next
<1>10. CASE Catch
  <2>. DEFINE frame == <<Ret, Cell("catch", cf), InCatch>>
  <2>1. /\ rs' = rs \o frame /\ fp' = fp /\ cf' = Len(rs) + 2 /\ UNCHANGED <<env, armed>>
    BY <1>10 DEF Catch, Depth
  <2>2. /\ frame \in Seq(Cells) /\ Len(frame) = 3 /\ frame[2] = Cell("catch", cf)
    BY <1>1 DEF Cell, Cells, Plain, Ret, InCatch
  <2>. HIDE DEF frame
  <2>3. /\ Extends(rs', rs) /\ rs'[cf'] = Cell("catch", cf) /\ cf' > Len(rs) /\ cf' \in Nat
    BY <1>1, <2>1, <2>2, ConcatFacts
  <2>4. rs'[cf'].kind = "catch" /\ rs'[cf'].arg = cf
    BY <2>3 DEF Cell
  <2>5. OneEntryMore(rs, rs', cf')
    BY <1>1, <2>1, <2>3, <2>4, LogCatch
  <2>6. EntryOf(rs', cf') = Log!Mark
    BY <2>4 DEF EntryOf, Log!Mark
  <2>7. Log!Catch
    BY <2>1, <2>5, <2>6, LogAdded DEF Log!Catch
  <2>. QED  BY <2>7 DEF Log!Next
<1>11. CASE ExitToRemove
  <2>1. fp # 0 /\ cf < fp
    BY <1>1, <1>11, RemoveOnTop DEF ExitToRemove
  <2>2. InRemove # InUnwind
    BY DEF InRemove, InUnwind, Cell
  <2>3. Log!Discharge
    BY <1>1, <1>11, <2>1, <2>2, LogUnlink DEF ExitToRemove
  <2>. QED  BY <2>3 DEF Log!Next
<1>12. CASE UnwindFrame
  <2>1. fp # 0 /\ cf < fp /\ cf # 0
    BY <1>1, <1>12 DEF UnwindFrame, FramesToUnwind
  <2>2. Log!Discharge
    BY <1>1, <1>12, <2>1, LogUnlink DEF UnwindFrame
  <2>. QED  BY <2>2 DEF Log!Next
<1>13. CASE ExitToCatch
  <2>1. cf # 0 /\ fp < cf /\ cf = Depth - 1 /\ Depth \in Nat
    BY <1>1, <1>13, InCatchOnTop DEF ExitToCatch, Depth
  <2>2. Depth - 3 = cf - 2
    BY <2>1
  <2>3. rs' = SubSeq(rs, 1, cf - 2) /\ UNCHANGED <<env, armed>>
    BY <1>13, <2>2 DEF ExitToCatch, Cut
  <2>4. Log!Leave
    BY <1>1, <2>1, <2>3, LogDropCatch
  <2>. QED  BY <2>4 DEF Log!Next
<1>14. CASE UnwindDone
  <2>1. cf # 0
    BY <1>1, <1>14 DEF UnwindDone
  <2>2. fp # cf
    BY <1>1, <2>1, LinkedRange DEF Good
  <2>3. fp < cf
    BY <1>1, <1>14, <2>1, <2>2 DEF UnwindDone, FramesToUnwind
  <2>4. rs' = SubSeq(rs, 1, cf - 2) /\ UNCHANGED <<env, armed>>
    BY <1>14 DEF UnwindDone, Cut
  <2>5. Log!Leave
    BY <1>1, <2>1, <2>3, <2>4, LogDropCatch
  <2>. QED  BY <2>5 DEF Log!Next
<1>. QED
  BY <1>3, <1>4, <1>5, <1>6, <1>7, <1>8, <1>9, <1>10, <1>11, <1>12, <1>13, <1>14
  DEF Next, Program, Machine, Stopped

\* The return stack implements UndoLog, whose obligations startup.mu4's words
\* take on: newest first, each exactly once, and no catch is left before them.
THEOREM UndoLogImplemented == Spec => ImplementsUndoLog
<1>1. Init => Log!Init
  <2>. SUFFICES ASSUME Init PROVE Log!Init
    OBVIOUS
  <2>1. rs = <<Ret>> /\ rs[1].kind = "ret" /\ Len(rs) = 1
    BY DEF Init, Ret, Cell
  <2>2. EntriesOf(rs) = {}
    BY <2>1 DEF EntriesOf
  <2>3. Logged = [t \in {} |-> Log!Mark]
    BY <2>2 DEF Logged, LogOf
  <2>. QED  BY <2>3 DEF Init, Log!Init
<1>. QED  BY <1>1, LogStep, Inductive, PTL DEF Spec, ImplementsUndoLog, Log!Spec
==============================================================================
