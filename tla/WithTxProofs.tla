---------------------------- MODULE WithTxProofs ----------------------------
(***************************************************************************)
(* What WithTx keeps for any number of clients, connections, blocks and     *)
(* faults, at any depth: its types, the account of its connections and,     *)
(* while no context ends inside a block, all or nothing: what a block wrote *)
(* is in the store as a whole or not at all, and not at all when its fn     *)
(* failed.                                                                  *)
(***************************************************************************)
EXTENDS WithTx, FiniteSetTheorems, TLAPS

\* A connection in the pool has no transaction, and a stack is never too deep.
PoolClean == \A k \in free : tx[k] = <<>>
Bounded == \A k \in Conn : Len(tx[k]) <= MaxDepth

\* A frame's connection is in use and still has the frame's savepoint.
Held ==
  \A c \in Client : \A i \in 1 .. Depth(c) :
    frames[c][i].conn \notin free /\ frames[c][i].level <= Len(tx[frames[c][i].conn])

\* The frames of one connection are those of one client, and their levels grow.
Grow ==
  \A c \in Client : \A i \in 1 .. Depth(c) : \A j \in 1 .. (i - 1) :
    frames[c][j].conn = frames[c][i].conn => frames[c][j].level < frames[c][i].level
Apart ==
  \A c, d \in Client : c # d =>
    \A i \in 1 .. Depth(c) : \A j \in 1 .. Depth(d) : frames[c][i].conn # frames[d][j].conn

\* A connection in use has the frame that took it from the pool.
Roots(k) == \E c \in Client : \E i \in 1 .. Depth(c) :
              frames[c][i].conn = k /\ frames[c][i].level = 1
Rooted == \A k \in Conn \ free : Roots(k)

Stacks == PoolClean /\ Bounded /\ Held /\ Grow /\ Apart /\ Rooted

\* A client that is past fn has a block to end; one that waits has room for one.
Waits ==
  \A c \in Client :
    /\ pc[c] \in {"ok", "err", "panic"} => frames[c] # <<>>
    /\ pc[c] = "acquire" => Depth(c) < MaxDepth /\ NextBlock(c) \in BlockId

SafeInv == TypeOK /\ Stacks /\ Waits
-----------------------------------------------------------------------------
(* Sequences *)

LEMMA Pushed ==
  ASSUME NEW S, NEW s \in Seq(S), NEW e \in S
  PROVE  /\ Append(s, e) \in Seq(S)
         /\ Len(Append(s, e)) = Len(s) + 1
         /\ \A i \in 1 .. Len(s) : Append(s, e)[i] = s[i]
         /\ Append(s, e)[Len(s) + 1] = e
OBVIOUS

LEMMA Cut ==
  ASSUME NEW S, NEW s \in Seq(S), NEW m \in 0 .. Len(s)
  PROVE  /\ SubSeq(s, 1, m) \in Seq(S)
         /\ Len(SubSeq(s, 1, m)) = m
         /\ \A i \in 1 .. m : SubSeq(s, 1, m)[i] = s[i]
OBVIOUS

LEMMA EmptySeq == ASSUME NEW S, NEW s \in Seq(S) PROVE s = <<>> <=> Len(s) = 0
OBVIOUS

\* What the types say of one client's frames.
LEMMA FrameTypes ==
  ASSUME TypeOK, NEW c \in Client
  PROVE  /\ frames[c] \in Seq(Frame) /\ Depth(c) \in Nat
         /\ \A i \in 1 .. Depth(c) : /\ frames[c][i] \in Frame
                                     /\ frames[c][i].conn \in Conn
                                     /\ frames[c][i].level \in 1 .. MaxDepth
                                     /\ frames[c][i].b \in BlockId
<1>1. frames[c] \in Seq(Frame)
  BY DEF TypeOK
<1>2. Depth(c) \in Nat /\ \A i \in 1 .. Depth(c) : frames[c][i] \in Frame
  BY <1>1 DEF Depth
<1>3. \A f \in Frame : f.conn \in Conn /\ f.level \in 1 .. MaxDepth /\ f.b \in BlockId
  BY DEF Frame
<1>4. QED
  BY <1>1, <1>2, <1>3
-----------------------------------------------------------------------------
(* The three ways in which a step moves frames and connections *)

SameFrames ==
  \A c \in Client :
    /\ Depth(c)' = Depth(c)
    /\ \A i \in 1 .. Depth(c) :
         frames'[c][i].conn = frames[c][i].conn /\ frames'[c][i].level = frames[c][i].level

LEMMA StacksStay ==
  ASSUME TypeOK, Stacks, SameFrames, free' = free,
         \A k \in Conn : Len(tx'[k]) = Len(tx[k]),
         \A k \in free : tx'[k] = tx[k]
  PROVE  Stacks'
<1>1. PoolClean' /\ Bounded'
  BY DEF Stacks, PoolClean, Bounded
<1>2. Held'
  BY FrameTypes DEF Stacks, Held, SameFrames
<1>3. Grow'
  <2>1. \A c \in Client : \A i \in 1 .. Depth(c) : \A j \in 1 .. (i - 1) : j \in 1 .. Depth(c)
    BY FrameTypes
  <2>2. QED
    BY <2>1 DEF Stacks, Grow, SameFrames
<1>4. Apart'
  BY DEF Stacks, Apart, SameFrames
<1>5. Rooted'
  BY DEF Stacks, Rooted, Roots, SameFrames
<1>6. QED
  BY <1>1, <1>2, <1>3, <1>4, <1>5 DEF Stacks

\* Frame f is opened on a free connection, or above all savepoints of its own.
PushFrame(c, f) == frames' = [frames EXCEPT ![c] = Append(@, f)]
Push(c, f) ==
  /\ PushFrame(c, f)
  /\ free' = free \ {f.conn}
  /\ \A k \in Conn \ {f.conn} : tx'[k] = tx[k]
  /\ Len(tx'[f.conn]) = f.level
  /\ \/ f.conn \in free /\ f.level = 1
     \/ /\ f.conn = Top(c).conn /\ frames[c] # <<>>
        /\ f.level = Len(tx[f.conn]) + 1

LEMMA PushFrames ==
  ASSUME TypeOK, NEW c \in Client, NEW f \in Frame, PushFrame(c, f)
  PROVE  /\ Depth(c)' = Depth(c) + 1 /\ frames'[c][Depth(c) + 1] = f
         /\ \A d \in Client : \A i \in 1 .. Depth(d) :
              i \in 1 .. Depth(d)' /\ frames'[d][i] = frames[d][i]
         /\ \A d \in Client : \A i \in 1 .. Depth(d)' :
              \/ i \in 1 .. Depth(d) /\ frames'[d][i] = frames[d][i]
              \/ d = c /\ i = Depth(c) + 1 /\ frames'[d][i] = f
<1>1. /\ Depth(c)' = Depth(c) + 1
      /\ \A i \in 1 .. Depth(c) : frames'[c][i] = frames[c][i]
      /\ frames'[c][Depth(c) + 1] = f
  <2>1. frames'[c] = Append(frames[c], f)
    BY DEF PushFrame, TypeOK
  <2>2. QED
    BY <2>1, Pushed, FrameTypes DEF Depth
<1>2. \A d \in Client \ {c} : frames'[d] = frames[d] /\ Depth(d)' = Depth(d)
  BY DEF PushFrame, Depth, TypeOK
<1>3. \A d \in Client : \A i \in 1 .. Depth(d) :
        i \in 1 .. Depth(d)' /\ frames'[d][i] = frames[d][i]
  BY <1>1, <1>2, FrameTypes
<1>4. \A d \in Client : \A i \in 1 .. Depth(d)' :
        \/ i \in 1 .. Depth(d) /\ frames'[d][i] = frames[d][i]
        \/ d = c /\ i = Depth(c) + 1 /\ frames'[d][i] = f
  BY <1>1, <1>2, FrameTypes
<1>5. QED
  BY <1>1, <1>3, <1>4

LEMMA StacksPush ==
  ASSUME TypeOK, Stacks, NEW c \in Client, NEW f \in Frame, Push(c, f)
  PROVE  Stacks'
<1>1. f.conn \in Conn /\ f.level \in 1 .. MaxDepth /\ MaxDepth \in Nat
  BY WithTxAssumption DEF Frame
<1>2. PushFrame(c, f)
  BY DEF Push
<1>3. Depth(c)' = Depth(c) + 1 /\ frames'[c][Depth(c) + 1] = f
  BY <1>2, PushFrames
<1>4. \A d \in Client : \A i \in 1 .. Depth(d) :
        i \in 1 .. Depth(d)' /\ frames'[d][i] = frames[d][i]
  BY <1>2, PushFrames
<1>5. \A d \in Client : \A i \in 1 .. Depth(d)' :
        \/ i \in 1 .. Depth(d) /\ frames'[d][i] = frames[d][i]
        \/ d = c /\ i = Depth(c) + 1 /\ frames'[d][i] = f
  BY <1>2, PushFrames
<1>6. /\ \A d \in Client \ {c} : \A i \in 1 .. Depth(d) : frames[d][i].conn # f.conn
      /\ \A i \in 1 .. Depth(c) : frames[c][i].conn = f.conn => frames[c][i].level < f.level
  <2>1. CASE f.conn \in free
    BY <2>1 DEF Stacks, Held
  <2>2. CASE f.conn = Top(c).conn /\ frames[c] # <<>> /\ f.level = Len(tx[f.conn]) + 1
    <3>1. Depth(c) \in 1 .. Depth(c) /\ frames[c][Depth(c)].conn = f.conn
      BY <2>2, FrameTypes, EmptySeq DEF Top, Depth
    <3>2. \A d \in Client \ {c} : \A i \in 1 .. Depth(d) : frames[d][i].conn # f.conn
      BY <3>1 DEF Stacks, Apart
    <3>3. Len(tx[f.conn]) \in Nat
      BY <1>1 DEF TypeOK
    <3>4. \A i \in 1 .. Depth(c) : frames[c][i].conn = f.conn => frames[c][i].level < f.level
      <4>1. \A i \in 1 .. Depth(c) : frames[c][i].level <= Len(tx[frames[c][i].conn])
        BY DEF Stacks, Held
      <4>2. \A i \in 1 .. Depth(c) : frames[c][i].level \in 1 .. MaxDepth
        BY FrameTypes
      <4>3. QED
        BY <1>1, <2>2, <3>3, <4>1, <4>2
    <3>5. QED
      BY <3>2, <3>4
  <2>3. QED
    BY <2>1, <2>2 DEF Push
<1>7. \A k \in Conn : Len(tx[k]) <= Len(tx'[k])
  <2>1. \A k \in Conn : Len(tx[k]) \in Nat
    BY DEF TypeOK
  <2>2. CASE f.conn \in free
    <3>1. Len(tx[f.conn]) = 0
      BY <2>2 DEF Stacks, PoolClean
    <3>2. QED
      BY <1>1, <2>1, <3>1 DEF Push
  <2>3. CASE f.level = Len(tx[f.conn]) + 1
    BY <1>1, <2>1, <2>3 DEF Push
  <2>4. QED
    BY <2>2, <2>3 DEF Push
<1>8. PoolClean' /\ Bounded'
  <2>1. free \subseteq Conn
    BY DEF TypeOK
  <2>2. PoolClean'
    BY <2>1 DEF Push, Stacks, PoolClean
  <2>3. Bounded'
    BY <1>1 DEF Push, Stacks, Bounded
  <2>4. QED
    BY <2>2, <2>3
<1>9. Held'
  <2>1. \A d \in Client : \A i \in 1 .. Depth(d) :
          frames[d][i].conn \notin free' /\ frames[d][i].level <= Len(tx'[frames[d][i].conn])
    <3> SUFFICES ASSUME NEW d \in Client, NEW i \in 1 .. Depth(d)
                 PROVE  /\ frames[d][i].conn \notin free'
                        /\ frames[d][i].level <= Len(tx'[frames[d][i].conn])
      OBVIOUS
    <3> DEFINE g == frames[d][i]
    <3>1. /\ g.conn \in Conn /\ g.level \in 1 .. MaxDepth
          /\ g.conn \notin free /\ g.level <= Len(tx[g.conn])
      BY FrameTypes DEF Stacks, Held
    <3>2. Len(tx[g.conn]) <= Len(tx'[g.conn]) /\ Len(tx[g.conn]) \in Nat
      BY <1>7, <3>1 DEF TypeOK
    <3>3. Len(tx'[g.conn]) \in Nat
      <4>1. CASE g.conn = f.conn
        BY <1>1, <4>1 DEF Push
      <4>2. CASE g.conn # f.conn
        BY <3>1, <3>2, <4>2 DEF Push
      <4>3. QED
        BY <4>1, <4>2
    <3>4. g.conn \notin free'
      BY <3>1 DEF Push
    <3>5. g.level <= Len(tx'[g.conn])
      <4>1. g.level \in Nat /\ g.level <= Len(tx[g.conn])
        BY <1>1, <3>1
      <4>2. QED
        BY <3>2, <3>3, <4>1
    <3>6. QED
      BY <3>4, <3>5
  <2>2. f.conn \notin free' /\ f.level <= Len(tx'[f.conn])
    BY <1>1 DEF Push
  <2>3. QED
    BY <1>5, <2>1, <2>2 DEF Held
<1>10. Grow'
  <2> SUFFICES ASSUME NEW d \in Client, NEW i \in 1 .. Depth(d)', NEW j \in 1 .. (i - 1),
                      frames'[d][j].conn = frames'[d][i].conn
               PROVE  frames'[d][j].level < frames'[d][i].level
    BY DEF Grow
  <2>1. j \in 1 .. Depth(d) /\ frames'[d][j] = frames[d][j]
    BY <1>3, <1>4, <1>5, FrameTypes
  <2>2. CASE i \in 1 .. Depth(d) /\ frames'[d][i] = frames[d][i]
    BY <2>1, <2>2 DEF Stacks, Grow
  <2>3. CASE d = c /\ frames'[d][i] = f
    BY <1>6, <2>1, <2>3
  <2>4. QED
    BY <1>5, <2>2, <2>3
<1>11. Apart'
  BY <1>5, <1>6 DEF Stacks, Apart
<1>12. Rooted'
  <2> SUFFICES ASSUME NEW k \in Conn \ free' PROVE Roots(k)'
    BY DEF Rooted
  <2>1. CASE k \in free
    <3>1. k = f.conn
      BY <2>1 DEF Push
    <3>2. ~(f.conn = Top(c).conn /\ frames[c] # <<>>)
      <4> SUFFICES ASSUME frames[c] # <<>> PROVE f.conn # Top(c).conn
        OBVIOUS
      <4>1. Depth(c) \in 1 .. Depth(c)
        BY FrameTypes, EmptySeq DEF Depth
      <4>2. QED
        BY <2>1, <3>1, <4>1 DEF Stacks, Held, Top
    <3>3. f.level = 1
      BY <3>2 DEF Push
    <3>4. Depth(c) + 1 \in 1 .. Depth(c)'
      BY <1>3, FrameTypes
    <3>5. QED
      BY <1>3, <3>1, <3>3, <3>4 DEF Roots
  <2>2. CASE k \notin free
    BY <1>4, <2>2 DEF Stacks, Rooted, Roots
  <2>3. QED
    BY <2>1, <2>2
<1>13. QED
  BY <1>8, <1>9, <1>10, <1>11, <1>12 DEF Stacks

\* The innermost frame ends; its connection goes back, or keeps the levels below.
DropConn(c) ==
  /\ \A k \in Conn \ {Top(c).conn} : tx'[k] = tx[k]
  /\ \/ /\ Top(c).level = 1
        /\ free' = free \cup {Top(c).conn}
        /\ tx'[Top(c).conn] = <<>>
     \/ /\ Top(c).level > 1
        /\ free' = free
        /\ Len(tx'[Top(c).conn]) \in (Top(c).level - 1) .. MaxDepth
Drop(c) == frames[c] # <<>> /\ Pop(c) /\ DropConn(c)

LEMMA PopFrames ==
  ASSUME TypeOK, Stacks, NEW c \in Client, frames[c] # <<>>, Pop(c)
  PROVE  /\ \A d \in Client : Depth(d)' \in Nat
         /\ \A d \in Client : \A i \in 1 .. Depth(d)' :
              /\ i \in 1 .. Depth(d) /\ frames'[d][i] = frames[d][i]
              /\ d = c => i \in 1 .. (Depth(c) - 1)
              /\ frames'[d][i].conn = Top(c).conn =>
                   d = c /\ frames'[d][i].level < Top(c).level
         /\ \A d \in Client : \A i \in 1 .. Depth(d) :
              \/ i \in 1 .. Depth(d)' /\ frames'[d][i] = frames[d][i]
              \/ d = c /\ i = Depth(c)
<1>1. Depth(c) \in Nat \ {0} /\ Depth(c) \in 1 .. Depth(c) /\ Top(c) = frames[c][Depth(c)]
  BY EmptySeq, FrameTypes DEF Depth, Top
<1>2. Depth(c)' = Depth(c) - 1 /\ \A i \in 1 .. (Depth(c) - 1) : frames'[c][i] = frames[c][i]
  <2>1. frames'[c] = SubSeq(frames[c], 1, Depth(c) - 1)
    BY DEF Pop, TypeOK
  <2>2. Depth(c) - 1 \in 0 .. Len(frames[c]) /\ frames[c] \in Seq(Frame)
    BY <1>1, FrameTypes DEF Depth
  <2>3. QED
    BY <2>1, <2>2, Cut DEF Depth
<1>3. \A d \in Client \ {c} : frames'[d] = frames[d] /\ Depth(d)' = Depth(d)
  BY DEF Pop, Depth, TypeOK
<1>4. \A d \in Client : \A i \in 1 .. Depth(d)' :
        i \in 1 .. Depth(d) /\ frames'[d][i] = frames[d][i] /\ (d = c => i \in 1 .. (Depth(c) - 1))
  BY <1>1, <1>2, <1>3, FrameTypes
<1>5. \A d \in Client : \A i \in 1 .. Depth(d)' :
        frames'[d][i].conn = Top(c).conn => d = c /\ frames'[d][i].level < Top(c).level
  BY <1>1, <1>4 DEF Stacks, Grow, Apart
<1>6. QED
  BY <1>1, <1>2, <1>3, <1>4, <1>5, FrameTypes

LEMMA StacksDrop ==
  ASSUME TypeOK, Stacks, NEW c \in Client, Drop(c)
  PROVE  Stacks'
<1> DEFINE f == Top(c)
<1>1. Depth(c) \in Nat \ {0} /\ Depth(c) \in 1 .. Depth(c) /\ f = frames[c][Depth(c)]
  BY EmptySeq, FrameTypes DEF Drop, Depth, Top
<1>2. f.conn \in Conn /\ f.level \in 1 .. MaxDepth /\ f.conn \notin free /\ MaxDepth \in Nat
  BY <1>1, FrameTypes, WithTxAssumption DEF Stacks, Held
<1>3. \A d \in Client : Depth(d)' \in Nat
  BY PopFrames DEF Drop
<1>4. \A d \in Client : \A i \in 1 .. Depth(d)' :
        i \in 1 .. Depth(d) /\ frames'[d][i] = frames[d][i] /\ (d = c => i \in 1 .. (Depth(c) - 1))
  BY PopFrames DEF Drop
<1>5. \A d \in Client : \A i \in 1 .. Depth(d) :
        \/ i \in 1 .. Depth(d)' /\ frames'[d][i] = frames[d][i]
        \/ d = c /\ i = Depth(c)
  BY PopFrames DEF Drop
<1>6. \A d \in Client : \A i \in 1 .. Depth(d)' :
        frames'[d][i].conn = f.conn => frames'[d][i].level < f.level
  BY PopFrames DEF Drop
<1>7. /\ \A k \in Conn \ {f.conn} : tx'[k] = tx[k]
      /\ \/ f.level = 1 /\ free' = free \cup {f.conn} /\ tx'[f.conn] = <<>>
         \/ f.level > 1 /\ free' = free /\ Len(tx'[f.conn]) \in (f.level - 1) .. MaxDepth
  BY DEF Drop, DropConn
<1>8. PoolClean'
  <2>1. \A k \in free : k \in Conn /\ k # f.conn
    BY <1>2 DEF TypeOK
  <2>2. QED
    BY <1>7, <2>1 DEF Stacks, PoolClean
<1>9. Bounded'
  <2>1. Len(tx'[f.conn]) <= MaxDepth
    BY <1>2, <1>7
  <2>2. QED
    BY <1>7, <2>1 DEF Stacks, Bounded
<1>10. Held'
  <2> SUFFICES ASSUME NEW d \in Client, NEW i \in 1 .. Depth(d)'
               PROVE  /\ frames[d][i].conn \notin free'
                      /\ frames[d][i].level <= Len(tx'[frames[d][i].conn])
    BY <1>4 DEF Held
  <2> DEFINE g == frames[d][i]
  <2>1. /\ g.conn \in Conn /\ g.level \in 1 .. MaxDepth
        /\ g.conn \notin free /\ g.level <= Len(tx[g.conn])
    BY <1>4, FrameTypes DEF Stacks, Held
  <2>2. CASE g.conn = f.conn
    <3>1. g.level < f.level
      BY <1>4, <1>6, <2>2
    <3>2. f.level > 1 /\ free' = free /\ Len(tx'[f.conn]) \in (f.level - 1) .. MaxDepth
      BY <1>2, <1>7, <2>1, <3>1
    <3>3. QED
      BY <1>2, <2>1, <2>2, <3>1, <3>2
  <2>3. CASE g.conn # f.conn
    BY <1>7, <2>1, <2>3
  <2>4. QED
    BY <2>2, <2>3
<1>11. Grow'
  <2>1. \A d \in Client : \A i \in 1 .. Depth(d)' : \A j \in 1 .. (i - 1) : j \in 1 .. Depth(d)'
    BY <1>3
  <2>2. QED
    BY <1>4, <2>1 DEF Stacks, Grow
<1>12. Apart'
  BY <1>4 DEF Stacks, Apart
<1>13. Rooted'
  <2> SUFFICES ASSUME NEW k \in Conn \ free' PROVE Roots(k)'
    BY DEF Rooted
  <2>1. k \in Conn \ free
    BY <1>7
  <2>2. PICK d \in Client : \E i \in 1 .. Depth(d) :
               frames[d][i].conn = k /\ frames[d][i].level = 1
    BY <2>1 DEF Stacks, Rooted, Roots
  <2>3. PICK i \in 1 .. Depth(d) : frames[d][i].conn = k /\ frames[d][i].level = 1
    BY <2>2
  <2>4. ~(d = c /\ i = Depth(c))
    BY <1>1, <1>2, <1>7, <2>3
  <2>5. QED
    BY <1>5, <2>3, <2>4 DEF Roots
<1>14. QED
  BY <1>8, <1>9, <1>10, <1>11, <1>12, <1>13 DEF Stacks
-----------------------------------------------------------------------------
(* Types *)

TypeConns ==
  /\ free \subseteq Conn /\ dead \subseteq Conn \ free
  /\ tx \in [Conn -> Seq(SUBSET Mark)]
  /\ failed \in [Conn -> 0 .. MaxDepth]

LEMMA TopFacts ==
  ASSUME TypeOK, Stacks, NEW c \in Client, frames[c] # <<>>
  PROVE  /\ Depth(c) \in Nat \ {0} /\ Depth(c) \in 1 .. Depth(c)
         /\ Top(c) = frames[c][Depth(c)] /\ Top(c) \in Frame
         /\ Top(c).b \in BlockId /\ Top(c).conn \in Conn \ free
         /\ MaxDepth \in Nat /\ Top(c).level \in 1 .. MaxDepth
         /\ tx[Top(c).conn] \in Seq(SUBSET Mark)
         /\ Len(tx[Top(c).conn]) \in Top(c).level .. MaxDepth
<1>1. Depth(c) \in Nat \ {0} /\ Depth(c) \in 1 .. Depth(c) /\ Top(c) = frames[c][Depth(c)]
  BY EmptySeq, FrameTypes DEF Depth, Top
<1>2. /\ Top(c) \in Frame /\ Top(c).b \in BlockId /\ Top(c).conn \in Conn \ free
      /\ MaxDepth \in Nat /\ Top(c).level \in 1 .. MaxDepth
      /\ Top(c).level <= Len(tx[Top(c).conn])
  BY <1>1, FrameTypes, WithTxAssumption DEF Stacks, Held
<1>3. tx[Top(c).conn] \in Seq(SUBSET Mark)
  BY <1>2 DEF TypeOK
<1>4. Len(tx[Top(c).conn]) \in Nat /\ Len(tx[Top(c).conn]) <= MaxDepth
  BY <1>2, <1>3 DEF Stacks, Bounded
<1>5. QED
  BY <1>1, <1>2, <1>3, <1>4

LEMMA ReleaseDrops ==
  ASSUME TypeOK, Stacks, NEW c \in Client, frames[c] # <<>>,
         Top(c).level = 1, Release(Top(c).conn)
  PROVE  TypeConns' /\ DropConn(c)
<1> DEFINE k == Top(c).conn
<1>1. k \in Conn /\ MaxDepth \in Nat
  BY TopFacts
<1>2. tx' = [tx EXCEPT ![k] = <<>>] /\ failed' = [failed EXCEPT ![k] = 0]
      /\ free' = free \cup {k} /\ dead' = dead \ {k}
  BY DEF Release
<1>3. <<>> \in Seq(SUBSET Mark)
  OBVIOUS
<1>4. tx' \in [Conn -> Seq(SUBSET Mark)]
  BY <1>2, <1>3 DEF TypeOK
<1>5. failed' \in [Conn -> 0 .. MaxDepth]
  BY <1>1, <1>2 DEF TypeOK
<1>6. tx'[k] = <<>> /\ \A j \in Conn \ {k} : tx'[j] = tx[j]
  BY <1>1, <1>2 DEF TypeOK
<1>7. free' \subseteq Conn /\ dead' \subseteq Conn \ free'
  BY <1>1, <1>2 DEF TypeOK
<1>8. QED
  BY <1>2, <1>4, <1>5, <1>6, <1>7 DEF TypeConns, DropConn

LEMMA KeepDrops ==
  ASSUME TypeOK, Stacks, NEW c \in Client, frames[c] # <<>>,
         Top(c).level # 1, KeepConns
  PROVE  TypeConns' /\ DropConn(c)
<1>1. TypeConns'
  BY DEF KeepConns, TypeConns, TypeOK
<1>2. Top(c).level > 1 /\ Len(tx[Top(c).conn]) \in (Top(c).level - 1) .. MaxDepth
  BY TopFacts
<1>3. QED
  BY <1>1, <1>2 DEF KeepConns, DropConn

\* The stack of a nested frame's connection is replaced by a shorter one.
LEMMA NestedDrops ==
  ASSUME TypeOK, Stacks, NEW c \in Client, frames[c] # <<>>, Top(c).level # 1,
         NEW s \in Seq(SUBSET Mark), Len(s) = Top(c).level - 1,
         tx' = [tx EXCEPT ![Top(c).conn] = s], free' = free
  PROVE  tx' \in [Conn -> Seq(SUBSET Mark)] /\ DropConn(c)
<1> DEFINE k == Top(c).conn
<1>1. k \in Conn /\ tx \in [Conn -> Seq(SUBSET Mark)]
  BY TopFacts DEF TypeOK
<1>2. /\ tx' \in [Conn -> Seq(SUBSET Mark)]
      /\ tx'[k] = s /\ \A j \in Conn \ {k} : tx'[j] = tx[j]
  BY <1>1
<1>3. Top(c).level > 1 /\ Top(c).level - 1 \in (Top(c).level - 1) .. MaxDepth
  BY TopFacts
<1>4. QED
  BY <1>2, <1>3 DEF DropConn

LEMMA UndoDrops ==
  ASSUME TypeOK, Stacks, NEW c \in Client, frames[c] # <<>>, UndoTop(c)
  PROVE  TypeConns' /\ DropConn(c)
<1> DEFINE f == Top(c)
<1>1. CASE f.level = 1
  BY <1>1, ReleaseDrops DEF UndoTop
<1>2. CASE f.level # 1 /\ ~Reaches(f)
  BY <1>2, KeepDrops DEF UndoTop, KeepConns
<1>3. CASE f.level # 1 /\ Reaches(f)
  <2> DEFINE s == SubSeq(tx[f.conn], 1, f.level - 1)
  <2>1. /\ tx' = [tx EXCEPT ![f.conn] = s]
        /\ failed' = [failed EXCEPT ![f.conn] = IF @ >= f.level THEN 0 ELSE @]
        /\ free' = free /\ dead' = dead
    BY <1>3 DEF UndoTop, TypeOK
  <2>2. f.level - 1 \in 0 .. Len(tx[f.conn]) /\ tx[f.conn] \in Seq(SUBSET Mark)
    BY TopFacts
  <2>3. s \in Seq(SUBSET Mark) /\ Len(s) = f.level - 1
    BY <2>2, Cut
  <2> HIDE DEF s
  <2>4. tx' \in [Conn -> Seq(SUBSET Mark)] /\ DropConn(c)
    BY <1>3, <2>1, <2>3, NestedDrops
  <2>5. failed' \in [Conn -> 0 .. MaxDepth]
    BY <2>1, TopFacts DEF TypeOK
  <2>6. QED
    BY <2>1, <2>4, <2>5 DEF TypeConns, TypeOK
<1>4. QED
  BY <1>1, <1>2, <1>3

LEMMA MergeDrops ==
  ASSUME TypeOK, Stacks, NEW c \in Client, frames[c] # <<>>, Top(c).level # 1,
         tx' = [tx EXCEPT ![Top(c).conn] =
           Append(SubSeq(@, 1, Top(c).level - 2), WritesFrom(Top(c).conn, Top(c).level - 1))],
         UNCHANGED <<free, failed, dead>>
  PROVE  TypeConns' /\ DropConn(c)
<1> DEFINE f == Top(c)
           p == SubSeq(tx[f.conn], 1, f.level - 2)
           w == WritesFrom(f.conn, f.level - 1)
           s == Append(p, w)
<1>1. f.level - 2 \in 0 .. Len(tx[f.conn]) /\ tx[f.conn] \in Seq(SUBSET Mark)
  BY TopFacts
<1>2. p \in Seq(SUBSET Mark) /\ Len(p) = f.level - 2
  BY <1>1, Cut
<1>3. w \in SUBSET Mark
  <2>1. \A i \in (f.level - 1) .. Len(tx[f.conn]) : tx[f.conn][i] \in SUBSET Mark
    BY <1>1, TopFacts
  <2>2. QED
    BY <2>1 DEF WritesFrom
<1>4. tx' = [tx EXCEPT ![f.conn] = s]
  BY DEF TypeOK
<1> HIDE DEF p, w
<1>5. s \in Seq(SUBSET Mark) /\ Len(s) = f.level - 1
  <2>1. Len(s) = Len(p) + 1 /\ s \in Seq(SUBSET Mark)
    BY <1>2, <1>3, Pushed
  <2>2. QED
    BY <1>2, <2>1, TopFacts
<1> HIDE DEF s
<1>6. tx' \in [Conn -> Seq(SUBSET Mark)] /\ DropConn(c)
  BY <1>4, <1>5, NestedDrops
<1>7. QED
  BY <1>6 DEF TypeConns, TypeOK
-----------------------------------------------------------------------------
(* The steps of Next keep SafeInv *)

\* A step of client c that ends at label l keeps Waits.
Alone(c, l) ==
  /\ Goto(c, l)
  /\ \A d \in Client \ {c} : frames'[d] = frames[d] /\ outcome'[d] = outcome[d]

LEMMA WaitsStep ==
  ASSUME TypeOK, Waits, NEW c \in Client, NEW l \in PC, Alone(c, l),
         l \in {"ok", "err", "panic"} => frames'[c] # <<>>,
         l = "acquire" => Depth(c)' < MaxDepth /\ NextBlock(c)' \in BlockId
  PROVE  Waits'
<1>1. pc'[c] = l /\ \A d \in Client \ {c} : pc'[d] = pc[d]
  BY DEF Alone, Goto, TypeOK
<1>2. \A d \in Client \ {c} : Depth(d)' = Depth(d) /\ NextBlock(d)' = NextBlock(d)
  BY DEF Alone, Depth, NextBlock, Used
<1>3. QED
  BY <1>1, <1>2 DEF Waits, Alone

LEMMA StayGoto ==
  ASSUME TypeOK, NEW c \in Client, NEW l, pc[c] = l, pc' = pc
  PROVE  Goto(c, l)
BY DEF Goto, TypeOK

LEMMA GotoType ==
  ASSUME TypeOK, NEW c \in Client, NEW l \in PC, Goto(c, l)
  PROVE  pc' \in [Client -> PC]
BY DEF Goto, TypeOK

LEMMA EndsType ==
  ASSUME TypeOK, NEW c \in Client, NEW b \in BlockId, NEW o \in Outcome, Ends(c, b, o)
  PROVE  /\ outcome' \in [Client -> [BlockId -> Outcome]]
         /\ outcome' = [outcome EXCEPT ![c][b] = o]
         /\ \A d \in Client \ {c} : outcome'[d] = outcome[d]
BY DEF Ends, TypeOK

LEMMA PopType ==
  ASSUME TypeOK, Stacks, NEW c \in Client, frames[c] # <<>>, Pop(c)
  PROVE  /\ frames' \in [Client -> Seq(Frame)]
         /\ \A d \in Client \ {c} : frames'[d] = frames[d]
         /\ Depth(c) > 1 => frames'[c] # <<>>
<1>1. frames' = [frames EXCEPT ![c] = SubSeq(frames[c], 1, Depth(c) - 1)]
  BY DEF Pop, TypeOK
<1>2. Depth(c) - 1 \in 0 .. Len(frames[c]) /\ frames[c] \in Seq(Frame)
  BY TopFacts, FrameTypes DEF Depth
<1> DEFINE s == SubSeq(frames[c], 1, Depth(c) - 1)
<1>3. s \in Seq(Frame) /\ Len(s) = Depth(c) - 1
  BY <1>2, Cut
<1>4. frames' = [frames EXCEPT ![c] = s]
  BY <1>1
<1> HIDE DEF s
<1>5. Depth(c) > 1 => s # <<>>
  BY <1>3, TopFacts, EmptySeq
<1>6. QED
  BY <1>3, <1>4, <1>5 DEF TypeOK

\* A block ends, and its frame with it.
LEMMA EndStep ==
  ASSUME SafeInv, NEW c \in Client, frames[c] # <<>>,
         NEW o \in Outcome, NEW l \in PC,
         l = "run" \/ (l = "panic" /\ Depth(c) > 1),
         Pop(c), Ends(c, Top(c).b, o), Goto(c, l),
         TypeConns', DropConn(c),
         store' \subseteq Mark, written' = written, faults' \in 0 .. MaxFaults
  PROVE  SafeInv'
<1> USE DEF SafeInv
<1>1. Top(c).b \in BlockId
  BY TopFacts
<1>2. TypeOK'
  <2>1. pc' \in [Client -> PC]
    BY GotoType
  <2>2. outcome' \in [Client -> [BlockId -> Outcome]]
    BY <1>1, EndsType
  <2>3. frames' \in [Client -> Seq(Frame)]
    BY PopType
  <2>4. QED
    BY <2>1, <2>2, <2>3 DEF TypeOK, TypeConns
<1>3. Stacks'
  BY StacksDrop DEF Drop
<1>4. Waits'
  <2>1. Alone(c, l)
    BY <1>1, EndsType, PopType DEF Alone
  <2>2. l = "panic" => frames'[c] # <<>>
    BY PopType
  <2>3. QED
    BY <2>1, <2>2, WaitsStep
<1>5. QED
  BY <1>2, <1>3, <1>4

\* A Begin fails.
LEMMA BeginFails ==
  ASSUME SafeInv, NEW c \in Client, NextBlock(c) \in BlockId,
         Ends(c, NextBlock(c), "beginErr"), Goto(c, "run"),
         UNCHANGED <<frames, free, tx, failed, dead, store, written, faults>>
  PROVE  SafeInv'
<1> USE DEF SafeInv
<1>1. "run" \in PC /\ "beginErr" \in Outcome
  BY DEF PC, Outcome
<1>2. TypeOK'
  <2>1. pc' \in [Client -> PC]
    BY <1>1, GotoType
  <2>2. outcome' \in [Client -> [BlockId -> Outcome]]
    BY <1>1, EndsType
  <2>3. QED
    BY <2>1, <2>2 DEF TypeOK
<1>3. Stacks'
  BY StacksStay DEF SameFrames, Depth
<1>4. Waits'
  <2>1. Alone(c, "run")
    BY <1>1, EndsType DEF Alone
  <2>2. QED
    BY <1>1, <2>1, WaitsStep
<1>5. QED
  BY <1>2, <1>3, <1>4

\* Begin succeeds: the new frame.
NewFrame(c, k, l) ==
  [b |-> NextBlock(c), conn |-> k, level |-> l,
   done |-> IF frames[c] = <<>> THEN FALSE ELSE frames[c][Len(frames[c])].done]

LEMMA BeginStep ==
  ASSUME SafeInv, NEW c \in Client, NEW k \in Conn, NEW l \in 1 .. MaxDepth,
         NextBlock(c) \in BlockId, Begun(c, k, l), Goto(c, "run"),
         TypeConns', UNCHANGED <<store, written, faults>>,
         free' = free \ {k}, \A j \in Conn \ {k} : tx'[j] = tx[j], Len(tx'[k]) = l,
         \/ k \in free /\ l = 1
         \/ k = Top(c).conn /\ frames[c] # <<>> /\ l = Len(tx[k]) + 1
  PROVE  SafeInv'
<1> USE DEF SafeInv
<1> DEFINE f == NewFrame(c, k, l)
<1>1. f \in Frame /\ f.conn = k /\ f.level = l
  <2>1. frames[c] # <<>> => frames[c][Len(frames[c])].done \in BOOLEAN
    BY TopFacts DEF Depth, Frame
  <2>2. QED
    BY <2>1 DEF NewFrame, Frame
<1>2. PushFrame(c, f)
  BY DEF PushFrame, Begun, NewFrame, TypeOK
<1> HIDE DEF f
<1>3. "run" \in PC /\ "open" \in Outcome
  BY DEF PC, Outcome
<1>4. TypeOK'
  <2>1. pc' \in [Client -> PC]
    BY <1>3, GotoType
  <2>2. outcome' \in [Client -> [BlockId -> Outcome]]
    BY <1>3, EndsType DEF Begun
  <2>3. frames' \in [Client -> Seq(Frame)]
    BY <1>1, <1>2 DEF PushFrame, TypeOK
  <2>4. QED
    BY <2>1, <2>2, <2>3 DEF TypeOK, TypeConns
<1>5. Stacks'
  <2>1. Push(c, f)
    BY <1>1, <1>2 DEF Push
  <2>2. QED
    BY <1>1, <2>1, StacksPush
<1>6. Waits'
  <2>1. \A d \in Client \ {c} : frames'[d] = frames[d]
    BY <1>2 DEF PushFrame, TypeOK
  <2>2. Alone(c, "run")
    BY <1>3, <2>1, EndsType DEF Alone, Begun
  <2>3. QED
    BY <1>3, <2>2, WaitsStep
<1>7. QED
  BY <1>4, <1>5, <1>6

LEMMA Labels ==
  /\ {"run", "acquire", "ok", "err", "panic", "goexit"} \subseteq PC
  /\ {"open", "ok", "err", "panic", "beginErr", "commitErr"} \subseteq Outcome
BY DEF PC, Outcome

\* Steps that open and close nothing.
LEMMA QuietStep ==
  ASSUME SafeInv, NEW c \in Client, NEW l \in PC, Alone(c, l),
         frames' \in [Client -> Seq(Frame)], SameFrames,
         l \in {"ok", "err", "panic"} => frames[c] # <<>>,
         l = "acquire" => Depth(c) < MaxDepth /\ NextBlock(c) \in BlockId,
         UNCHANGED <<free, store, outcome>>, TypeConns',
         \A k \in Conn : Len(tx'[k]) = Len(tx[k]),
         \A k \in free : tx'[k] = tx[k],
         written' \in [Client -> [BlockId -> SUBSET Mark]], faults' \in 0 .. MaxFaults
  PROVE  SafeInv'
<1> USE DEF SafeInv
<1>1. TypeOK'
  BY GotoType DEF TypeOK, TypeConns, Alone
<1>2. Stacks'
  BY StacksStay
<1>3. Waits'
  <2>1. frames[c] # <<>> => frames'[c] # <<>>
    <3>1. frames[c] \in Seq(Frame) /\ frames'[c] \in Seq(Frame)
      BY FrameTypes
    <3>2. Len(frames'[c]) = Len(frames[c])
      BY DEF SameFrames, Depth
    <3>3. QED
      BY <3>1, <3>2, EmptySeq
  <2>2. Depth(c)' = Depth(c) /\ NextBlock(c)' = NextBlock(c)
    BY DEF SameFrames, NextBlock, Used
  <2>3. QED
    BY <2>1, <2>2, WaitsStep
<1>4. QED
  BY <1>1, <1>2, <1>3

LEMMA SafeQuiet ==
  ASSUME SafeInv, NEW c \in Client,
         CallOnPool(c) \/ FnEnds(c) \/ StatementFails(c) \/ Write(c) \/ CtxEnds(c)
  PROVE  SafeInv'
<1> USE DEF SafeInv
<1> DEFINE f == Top(c)
<1>1. CASE CallOnPool(c)
  <2>1. Alone(c, "acquire") /\ SameFrames /\ TypeConns'
    BY <1>1 DEF CallOnPool, Alone, SameFrames, Depth, TypeConns, TypeOK
  <2>2. QED
    BY <1>1, <2>1, Labels, QuietStep DEF CallOnPool, TypeOK
<1>2. CASE FnEnds(c)
  <2>1. PICK r \in Exits : Goto(c, r)
    BY <1>2 DEF FnEnds
  <2>2. r \in PC /\ r # "acquire"
    BY WithTxAssumption DEF PC
  <2>3. Alone(c, r) /\ SameFrames /\ TypeConns'
    BY <1>2, <2>1 DEF FnEnds, Alone, SameFrames, Depth, TypeConns, TypeOK
  <2>4. QED
    BY <1>2, <2>2, <2>3, QuietStep DEF FnEnds, TypeOK
<1>3. CASE StatementFails(c)
  <2>1. Alone(c, "run") /\ SameFrames
    BY <1>3, StayGoto DEF StatementFails, Alone, SameFrames, Depth
  <2>2. Len(tx[f.conn]) \in 0 .. MaxDepth /\ f.conn \in Conn
    BY <1>3, TopFacts DEF StatementFails
  <2>3. failed' = [failed EXCEPT ![f.conn] = Len(tx[f.conn])]
    BY <1>3 DEF StatementFails
  <2>4. failed' \in [Conn -> 0 .. MaxDepth]
    BY <2>2, <2>3 DEF TypeOK
  <2>5. TypeConns'
    BY <1>3, <2>4 DEF StatementFails, TypeConns, TypeOK
  <2>6. faults' \in 0 .. MaxFaults
    BY <1>3, WithTxAssumption DEF StatementFails, Fault, TypeOK
  <2>7. QED
    BY <1>3, <2>1, <2>5, <2>6, Labels, QuietStep DEF StatementFails, TypeOK
<1>4. CASE Write(c)
  <2> DEFINE m == <<c, f.b, Cardinality(written[c][f.b]) + 1>>
             s == tx[f.conn]
  <2>1. Alone(c, "run") /\ SameFrames
    BY <1>4, StayGoto DEF Write, Alone, SameFrames, Depth
  <2>2. /\ m \in Mark
        /\ tx' = [tx EXCEPT ![f.conn][Len(tx[f.conn])] = @ \cup {m}]
        /\ written' = [written EXCEPT ![c][f.b] = @ \cup {m}]
    BY <1>4 DEF Write
  <2> HIDE DEF m
  <2>3. /\ f.conn \in Conn \ free /\ f.b \in BlockId
        /\ s \in Seq(SUBSET Mark) /\ Len(s) \in 1 .. Len(s)
    BY <1>4, TopFacts DEF Write
  <2>4. tx' = [tx EXCEPT ![f.conn] = [s EXCEPT ![Len(s)] = s[Len(s)] \cup {m}]]
    BY <2>2, <2>3 DEF TypeOK
  <2> DEFINE t == [s EXCEPT ![Len(s)] = s[Len(s)] \cup {m}]
  <2>5. t \in Seq(SUBSET Mark) /\ Len(t) = Len(s)
    BY <2>2, <2>3
  <2> HIDE DEF t, s
  <2>6. /\ tx' \in [Conn -> Seq(SUBSET Mark)]
        /\ tx'[f.conn] = t /\ \A k \in Conn \ {f.conn} : tx'[k] = tx[k]
    BY <2>3, <2>4, <2>5 DEF TypeOK, t
  <2>7. \A k \in Conn : Len(tx'[k]) = Len(tx[k])
    BY <2>3, <2>5, <2>6 DEF s
  <2>8. TypeConns'
    BY <1>4, <2>6 DEF Write, TypeConns, TypeOK
  <2>9. written' \in [Client -> [BlockId -> SUBSET Mark]]
    BY <2>2, <2>3 DEF TypeOK
  <2>10. \A k \in free : tx'[k] = tx[k]
    BY <2>3, <2>6 DEF TypeOK
  <2>11. UNCHANGED <<free, store, outcome, frames, faults>>
    BY <1>4 DEF Write
  <2>12. QED
    BY <2>1, <2>7, <2>8, <2>9, <2>10, <2>11, Labels, QuietStep DEF TypeOK
<1>5. CASE CtxEnds(c)
  <2>1. PICK i \in 1 .. Depth(c) :
          frames' = [frames EXCEPT ![c] =
            [j \in DOMAIN @ |-> IF j >= i THEN [@[j] EXCEPT !.done = TRUE] ELSE @[j]]]
    BY <1>5 DEF CtxEnds
  <2> DEFINE g == frames[c]
             h == [j \in DOMAIN g |-> IF j >= i THEN [g[j] EXCEPT !.done = TRUE] ELSE g[j]]
  <2>2. g \in Seq(Frame) /\ Depth(c) = Len(g) /\ DOMAIN g = 1 .. Len(g) /\ Len(g) \in Nat
    BY FrameTypes DEF Depth
  <2>3. \A j \in 1 .. Len(g) :
          /\ h[j] \in Frame
          /\ h[j].conn = g[j].conn /\ h[j].level = g[j].level
    <3>1. \A r \in Frame : LET q == [r EXCEPT !.done = TRUE]
                             IN  q \in Frame /\ q.conn = r.conn /\ q.level = r.level
      BY DEF Frame
    <3>2. \A j \in 1 .. Len(g) : g[j] \in Frame
      BY <2>2
    <3>3. ASSUME NEW j \in 1 .. Len(g)
          PROVE  h[j] = IF j >= i THEN [g[j] EXCEPT !.done = TRUE] ELSE g[j]
      BY <2>2
    <3> HIDE DEF h, g
    <3>4. QED
      BY <3>1, <3>2, <3>3
  <2>4. h \in Seq(Frame) /\ Len(h) = Len(g)
    <3>1. DOMAIN h = 1 .. Len(g) /\ h = [j \in 1 .. Len(g) |-> h[j]]
      BY <2>2
    <3> HIDE DEF h, g
    <3>2. QED
      BY <2>2, <2>3, <3>1
  <2>5. frames' = [frames EXCEPT ![c] = h]
    BY <2>1 DEF TypeOK
  <2> HIDE DEF h
  <2>6. frames' \in [Client -> Seq(Frame)] /\ frames'[c] = h
        /\ \A d \in Client \ {c} : frames'[d] = frames[d]
    BY <2>4, <2>5 DEF TypeOK
  <2>7. SameFrames
    BY <2>2, <2>3, <2>4, <2>6 DEF SameFrames, Depth
  <2>8. pc[c] \in PC /\ Alone(c, pc[c]) /\ TypeConns'
    BY <1>5, <2>6, StayGoto DEF CtxEnds, Alone, TypeConns, TypeOK
  <2>9. QED
    BY <1>5, <2>6, <2>7, <2>8, QuietStep DEF CtxEnds, Waits, TypeOK
<1>6. QED
  BY <1>1, <1>2, <1>3, <1>4, <1>5

LEMMA SafeBegin ==
  ASSUME SafeInv, NEW c \in Client, Acquire(c) \/ AcquireFails(c) \/ CallOnTx(c)
  PROVE  SafeInv'
<1> USE DEF SafeInv
<1>1. CASE Acquire(c)
  <2>1. PICK k \in free : /\ free' = free \ {k}
                          /\ tx' = [tx EXCEPT ![k] = <<{}>>]
                          /\ Begun(c, k, 1)
    BY <1>1 DEF Acquire
  <2>2. NextBlock(c) \in BlockId /\ 1 \in 1 .. MaxDepth /\ k \in Conn
    BY <1>1, FrameTypes, WithTxAssumption DEF Acquire, Waits, TypeOK
  <2>3. <<{}>> \in Seq(SUBSET Mark) /\ Len(<<{}>>) = 1
    OBVIOUS
  <2>4. /\ tx' \in [Conn -> Seq(SUBSET Mark)] /\ Len(tx'[k]) = 1
        /\ \A j \in Conn \ {k} : tx'[j] = tx[j]
    BY <2>1, <2>2, <2>3 DEF TypeOK
  <2>5. TypeConns'
    BY <1>1, <2>1, <2>4 DEF Acquire, TypeConns, TypeOK
  <2>6. QED
    BY <1>1, <2>1, <2>2, <2>4, <2>5, BeginStep DEF Acquire
<1>2. CASE AcquireFails(c)
  BY <1>2, BeginFails DEF AcquireFails, KeepConns, Waits
<1>3. CASE CallOnTx(c)
  <2> DEFINE f == Top(c)
             k == f.conn
             s == Append(tx[k], {})
  <2>1. Goto(c, "run") /\ NextBlock(c) \in BlockId /\ frames[c] # <<>>
    BY <1>3, StayGoto DEF CallOnTx
  <2>2. CASE Reaches(f) /\ failed[k] = 0 /\ Len(tx[k]) < MaxDepth
    <3>1. tx' = [tx EXCEPT ![k] = s] /\ Begun(c, k, Len(tx[k]) + 1)
      BY <1>3, <2>2 DEF CallOnTx, TypeOK
    <3>2. /\ k \in Conn \ free /\ tx[k] \in Seq(SUBSET Mark)
          /\ Len(tx[k]) + 1 \in 1 .. MaxDepth
      BY <2>1, <2>2, TopFacts
    <3>3. s \in Seq(SUBSET Mark) /\ Len(s) = Len(tx[k]) + 1
      BY <3>2, Pushed
    <3> HIDE DEF s
    <3>4. /\ tx' \in [Conn -> Seq(SUBSET Mark)] /\ Len(tx'[k]) = Len(tx[k]) + 1
          /\ \A j \in Conn \ {k} : tx'[j] = tx[j]
      BY <3>1, <3>2, <3>3 DEF TypeOK
    <3>5. TypeConns' /\ free' = free \ {k}
      BY <1>3, <3>2, <3>4 DEF CallOnTx, TypeConns, TypeOK
    <3>6. QED
      BY <1>3, <2>1, <3>1, <3>2, <3>4, <3>5, BeginStep DEF CallOnTx
  <2>3. CASE ~(Reaches(f) /\ failed[k] = 0 /\ Len(tx[k]) < MaxDepth)
    BY <1>3, <2>1, <2>3, BeginFails DEF CallOnTx
  <2>4. QED
    BY <2>2, <2>3
<1>4. QED
  BY <1>1, <1>2, <1>3

LEMMA CommittedType ==
  ASSUME TypeOK, NEW k \in Conn
  PROVE  WritesFrom(k, 1) \subseteq Mark
<1>1. tx[k] \in Seq(SUBSET Mark)
  BY DEF TypeOK
<1>2. \A i \in 1 .. Len(tx[k]) : tx[k][i] \in SUBSET Mark
  BY <1>1
<1>3. QED
  BY <1>2 DEF WritesFrom

Ending(c) ==
  \/ RollbackOnError(c) \/ RollbackOnPanic(c)
  \/ Commit(c) \/ CommitFails(c) \/ CommitAnswerLost(c)

LEMMA SafeEnd ==
  ASSUME SafeInv, NEW c \in Client, Ending(c)
  PROVE  SafeInv'
<1> USE DEF SafeInv
<1> DEFINE f == Top(c)
<1>1. frames[c] # <<>>
  BY DEF Ending, RollbackOnError, RollbackOnPanic, Commit, CommitFails, CommitAnswerLost, Waits
<1>2. f.conn \in Conn /\ store \subseteq Mark /\ faults \in 0 .. MaxFaults
  BY <1>1, TopFacts DEF TypeOK
<1>3. CASE RollbackOnError(c)
  <2>1. TypeConns' /\ DropConn(c)
    BY <1>1, <1>3, UndoDrops DEF RollbackOnError
  <2>2. QED
    BY <1>1, <1>2, <1>3, <2>1, Labels, EndStep DEF RollbackOnError
<1>4. CASE RollbackOnPanic(c)
  <2>1. TypeConns' /\ DropConn(c)
    BY <1>1, <1>4, UndoDrops DEF RollbackOnPanic
  <2>2. PICK l \in {"run"} \cup (IF Depth(c) > 1 THEN {"panic"} ELSE {}) : Goto(c, l)
    BY <1>4 DEF RollbackOnPanic
  <2>3. l \in PC /\ (l = "run" \/ (l = "panic" /\ Depth(c) > 1))
    BY <2>2, Labels
  <2>4. Ends(c, f.b, "panic") /\ Pop(c) /\ UNCHANGED <<store, written, faults>>
    BY <1>4 DEF RollbackOnPanic
  <2>5. QED
    BY <1>1, <1>2, <2>1, <2>2, <2>3, <2>4, Labels, EndStep
<1>5. CASE Commit(c)
  <2>1. TypeConns' /\ DropConn(c) /\ store' \subseteq Mark
    <3>1. CASE f.level = 1
      <4>1. store' = store \cup WritesFrom(f.conn, 1) /\ Release(f.conn)
        BY <1>5, <3>1 DEF Commit
      <4>2. QED
        BY <1>1, <1>2, <3>1, <4>1, ReleaseDrops, CommittedType
    <3>2. CASE f.level # 1
      BY <1>1, <1>2, <1>5, <3>2, MergeDrops DEF Commit
    <3>3. QED
      BY <3>1, <3>2
  <2>2. Ends(c, f.b, "ok") /\ Pop(c) /\ Goto(c, "run") /\ UNCHANGED <<written, faults>>
    BY <1>5 DEF Commit
  <2>3. QED
    BY <1>1, <1>2, <2>1, <2>2, Labels, EndStep
<1>6. CASE CommitFails(c)
  <2>1. TypeConns' /\ DropConn(c)
    BY <1>1, <1>6, ReleaseDrops, KeepDrops DEF CommitFails
  <2>2. Ends(c, f.b, "commitErr") /\ Pop(c) /\ Goto(c, "run")
        /\ UNCHANGED <<store, written, faults>>
    BY <1>6 DEF CommitFails
  <2>3. QED
    BY <1>1, <1>2, <2>1, <2>2, Labels, EndStep
<1>7. CASE CommitAnswerLost(c)
  <2>1. TypeConns' /\ DropConn(c) /\ store' \subseteq Mark
    BY <1>1, <1>2, <1>7, ReleaseDrops, CommittedType DEF CommitAnswerLost
  <2>2. Ends(c, f.b, "commitErr") /\ Pop(c) /\ Goto(c, "run") /\ UNCHANGED written
    BY <1>7 DEF CommitAnswerLost
  <2>3. faults' \in 0 .. MaxFaults
    BY <1>2, <1>7, WithTxAssumption DEF CommitAnswerLost, Fault
  <2>4. QED
    BY <1>1, <1>2, <2>1, <2>2, <2>3, Labels, EndStep
<1>8. QED
  BY <1>3, <1>4, <1>5, <1>6, <1>7 DEF Ending

LEMMA SafeLost == ASSUME SafeInv, ConnLost PROVE SafeInv'
<1> USE DEF SafeInv
<1>1. TypeOK'
  BY WithTxAssumption DEF ConnLost, Fault, TypeOK
<1>2. Stacks'
  BY StacksStay DEF ConnLost, SameFrames, Depth
<1>3. Waits'
  BY DEF ConnLost, Waits, Depth, NextBlock, Used
<1>4. QED
  BY <1>1, <1>2, <1>3

LEMMA SafeStutter == ASSUME SafeInv, UNCHANGED vars PROVE SafeInv'
<1> USE DEF SafeInv, vars
<1>1. TypeOK'
  BY DEF TypeOK
<1>2. Stacks'
  BY StacksStay DEF SameFrames, Depth
<1>3. Waits'
  BY DEF Waits, Depth, NextBlock, Used
<1>4. QED
  BY <1>1, <1>2, <1>3

LEMMA SafeStep == SafeInv /\ [Next]_vars => SafeInv'
<1> SUFFICES ASSUME SafeInv, [Next]_vars PROVE SafeInv'
  OBVIOUS
<1>1. CASE \E c \in Client : InWithTx(c) \/ InFn(c) \/ AcquireFails(c) \/ CtxEnds(c)
  BY <1>1, SafeQuiet, SafeBegin, SafeEnd DEF InWithTx, InFn, Ending
<1>2. CASE ConnLost
  BY <1>2, SafeLost
<1>3. CASE UNCHANGED vars
  BY <1>3, SafeStutter
<1>4. QED
  BY <1>1, <1>2, <1>3 DEF Next, Finished

LEMMA SafeInit == Init => SafeInv
<1> SUFFICES ASSUME Init PROVE SafeInv
  OBVIOUS
<1>1. \A S : <<>> \in Seq(S) /\ Len(<<>>) = 0
  OBVIOUS
<1>2. TypeOK
  BY <1>1, Labels, WithTxAssumption DEF Init, TypeOK, PC, Outcome
<1>3. \A c \in Client : frames[c] = <<>> /\ Depth(c) = 0
  BY <1>1 DEF Init, Depth
<1>4. Stacks
  <2>1. PoolClean /\ Bounded
    BY <1>1, WithTxAssumption DEF Init, PoolClean, Bounded
  <2>2. Held /\ Grow /\ Apart
    BY <1>3 DEF Held, Grow, Apart
  <2>3. Rooted
    BY DEF Init, Rooted
  <2>4. QED
    BY <2>1, <2>2, <2>3 DEF Stacks
<1>5. Waits
  BY DEF Init, Waits
<1>6. QED
  BY <1>2, <1>4, <1>5 DEF SafeInv

LEMMA SafeAlways == Spec => []SafeInv
BY SafeInit, SafeStep, PTL DEF Spec

\* Every variable keeps its type, and a connection in the pool is never a lost
\* one (core/dbtx.go:49-74), whatever fn does and however contexts end.
THEOREM Types == Spec => []TypeOK
<1>1. SafeInv => TypeOK
  BY DEF SafeInv
<1>2. QED
  BY <1>1, SafeAlways, PTL

\* No exit of WithTx (core/dbtx.go:55-73) leaks a connection, gives it to two
\* clients or puts it back with a transaction open.
THEOREM Accounted == Spec => []ConnectionsAccounted
<1>1. SafeInv => ConnectionsAccounted
  <2> SUFFICES ASSUME SafeInv PROVE ConnectionsAccounted
    OBVIOUS
  <2>1. \A k \in free : tx[k] = <<>>
    BY DEF SafeInv, Stacks, PoolClean
  <2>2. ASSUME NEW k \in Conn \ free
        PROVE  \E c \in Client :
                 /\ \E i \in 1 .. Depth(c) : frames[c][i].conn = k /\ frames[c][i].level = 1
                 /\ \A d \in Client \ {c} : \A i \in 1 .. Depth(d) : frames[d][i].conn # k
    BY DEF SafeInv, Stacks, Rooted, Roots, Apart
  <2>3. QED
    BY <2>1, <2>2 DEF SafeInv, Stacks, Held, ConnectionsAccounted
<1>2. QED
  BY <1>1, SafeAlways, PTL

-----------------------------------------------------------------------------
(* All or nothing *)

\* Every open frame is that of one open block, and every open block has one.
Awake == \A c \in Client : \A i \in 1 .. Depth(c) : ~frames[c][i].done
OwnBlocks ==
  \A c \in Client : \A i \in 1 .. Depth(c) : outcome[c][frames[c][i].b] = "open"
OneFrame ==
  \A c \in Client : \A i, j \in 1 .. Depth(c) : i # j => frames[c][i].b # frames[c][j].b
OpenHaveFrames ==
  \A c \in Client : \A b \in BlockId :
    outcome[c][b] = "open" => \E i \in 1 .. Depth(c) : frames[c][i].b = b
InOrder == \A c \in Client : \E n \in 0 .. MaxBlocks : Used(c) = 1 .. n
BlocksInv == Awake /\ OwnBlocks /\ OneFrame /\ OpenHaveFrames /\ InOrder

\* A savepoint's frame follows the frame of the level below; on a connection
\* that can still commit the last frame is on top of the stack.
Healthy(k) == failed[k] = 0 /\ k \notin dead
Contiguous ==
  \A c \in Client : \A i \in 1 .. Depth(c) : frames[c][i].level > 1 =>
    /\ i > 1 /\ frames[c][i - 1].conn = frames[c][i].conn
    /\ frames[c][i - 1].level = frames[c][i].level - 1
OnTop ==
  \A c \in Client : \A i \in 1 .. Depth(c) :
    /\ \A j \in (i + 1) .. Depth(c) : frames[c][j].conn # frames[c][i].conn
    /\ Healthy(frames[c][i].conn)
    => Len(tx[frames[c][i].conn]) = frames[c][i].level
LevelsInv == Contiguous /\ OnTop

\* What a block wrote carries its name.  The writes of an open block are on its
\* own level of the stack and nowhere else; those of a block that failed are
\* gone, or on a lost connection; those of any block stay together.
Named ==
  \A c \in Client : \A b \in BlockId : \A m \in written[c][b] :
    m[1] = c /\ m[2] = b /\ outcome[c][b] # "none"
Placed ==
  \A k \in Conn : \A l \in 1 .. Len(tx[k]) : \A m \in tx[k][l] :
    /\ OutcomeOf(m) \notin {"none", "beginErr"}
    /\ OutcomeOf(m) \in {"err", "panic"} => k \in dead
    /\ \A i \in 1 .. Depth(m[1]) : frames[m[1]][i].b = m[2] =>
         frames[m[1]][i].conn = k /\ frames[m[1]][i].level = l
Present ==
  \A c \in Client : \A i \in 1 .. Depth(c) :
    written[c][frames[c][i].b] \subseteq tx[frames[c][i].conn][frames[c][i].level]
Together ==
  \A c \in Client : \A b \in BlockId : \A k \in Conn : \A l \in 1 .. Len(tx[k]) :
    written[c][b] \cap tx[k][l] # {} => written[c][b] \subseteq tx[k][l]
Stored ==
  /\ \A m \in store : OutcomeOf(m) \in {"ok", "commitErr"}
  /\ \A c \in Client : \A b \in BlockId :
       written[c][b] \cap store # {} => written[c][b] \subseteq store
WritesInv == Named /\ Placed /\ Present /\ Together /\ Stored

AtomInv == SafeInv /\ BlocksInv /\ LevelsInv /\ WritesInv
-----------------------------------------------------------------------------
(* Blocks are numbered in their order, and nest *)

LEMMA Numbered ==
  ASSUME TypeOK, NEW c \in Client, NEW n \in 0 .. MaxBlocks, Used(c) = 1 .. n
  PROVE  NextBlock(c) = n + 1
<1>1. n \in Nat /\ n - 1 + 1 = n /\ 1 \in Int
  BY WithTxAssumption
<1>2. Cardinality(1 .. n) = IF 1 > n THEN 0 ELSE n - 1 + 1
  BY <1>1, FS_Interval
<1>3. QED
  BY <1>1, <1>2 DEF NextBlock

LEMMA Fresh ==
  ASSUME TypeOK, InOrder, NEW c \in Client, NextBlock(c) \in BlockId
  PROVE  outcome[c][NextBlock(c)] = "none"
<1>1. PICK n \in 0 .. MaxBlocks : Used(c) = 1 .. n
  BY DEF InOrder
<1>2. NextBlock(c) = n + 1 /\ n \in Nat
  BY <1>1, Numbered, WithTxAssumption
<1>3. NextBlock(c) \notin Used(c)
  BY <1>1, <1>2
<1>4. QED
  BY <1>3 DEF Used

\* The outcome of one block is settled.
LEMMA Settled ==
  ASSUME TypeOK, InOrder, NEW c \in Client, NEW b \in BlockId,
         NEW o \in Outcome, o # "none", Ends(c, b, o),
         b = NextBlock(c) \/ outcome[c][b] # "none"
  PROVE  /\ outcome'[c][b] = o
         /\ \A d \in Client : \A e \in BlockId :
              d # c \/ e # b => outcome'[d][e] = outcome[d][e]
         /\ InOrder'
<1>1. /\ outcome'[c][b] = o
      /\ \A d \in Client : \A e \in BlockId : d # c \/ e # b => outcome'[d][e] = outcome[d][e]
  BY DEF Ends, TypeOK
<1>2. ASSUME NEW d \in Client PROVE \E n \in 0 .. MaxBlocks : Used(d)' = 1 .. n
  <2>1. PICK n \in 0 .. MaxBlocks : Used(d) = 1 .. n
    BY DEF InOrder
  <2>2. CASE d # c \/ outcome[c][b] # "none"
    <3>1. Used(d)' = Used(d)
      BY <1>1, <2>2 DEF Used
    <3>2. QED
      BY <2>1, <3>1
  <2>3. CASE d = c /\ b = NextBlock(c)
    <3>1. b = n + 1 /\ n \in Nat
      BY <2>1, <2>3, Numbered, WithTxAssumption
    <3>2. Used(c)' = Used(c) \cup {b}
      BY <1>1 DEF Used
    <3>3. Used(d)' = 1 .. (n + 1)
      BY <2>1, <2>3, <3>1, <3>2
    <3>4. n + 1 \in 0 .. MaxBlocks
      BY <3>1, WithTxAssumption DEF BlockId
    <3>5. QED
      BY <3>3, <3>4
  <2>4. QED
    BY <2>2, <2>3
<1>3. QED
  BY <1>1, <1>2 DEF InOrder

LEMMA BlocksFail ==
  ASSUME SafeInv, BlocksInv, NEW c \in Client, NextBlock(c) \in BlockId,
         Ends(c, NextBlock(c), "beginErr"), frames' = frames
  PROVE  BlocksInv'
<1> DEFINE b == NextBlock(c)
<1>1. outcome[c][b] = "none"
  BY Fresh DEF SafeInv, BlocksInv
<1>2. /\ outcome'[c][b] = "beginErr"
      /\ \A d \in Client : \A e \in BlockId : d # c \/ e # b => outcome'[d][e] = outcome[d][e]
      /\ InOrder'
  BY Labels, Settled DEF SafeInv, BlocksInv, Outcome
<1>3. Awake' /\ OneFrame'
  BY DEF BlocksInv, Awake, OneFrame, Depth
<1>4. OwnBlocks'
  BY <1>1, <1>2, FrameTypes DEF SafeInv, BlocksInv, OwnBlocks, Depth
<1>5. OpenHaveFrames'
  BY <1>1, <1>2 DEF BlocksInv, OpenHaveFrames, Depth
<1>6. QED
  BY <1>2, <1>3, <1>4, <1>5 DEF BlocksInv

LEMMA BlocksBegin ==
  ASSUME SafeInv, BlocksInv, NEW c \in Client, NextBlock(c) \in BlockId,
         NEW k \in Conn, NEW l \in 1 .. MaxDepth, Begun(c, k, l)
  PROVE  /\ BlocksInv'
         /\ NewFrame(c, k, l) \in Frame /\ PushFrame(c, NewFrame(c, k, l))
<1> DEFINE f == NewFrame(c, k, l)
           b == NextBlock(c)
<1>1. f \in Frame /\ f.b = b /\ ~f.done
  <2>1. CASE frames[c] = <<>>
    BY <2>1 DEF NewFrame, Frame
  <2>2. CASE frames[c] # <<>>
    <3>1. frames[c][Len(frames[c])].done = FALSE
      <4>1. Depth(c) \in 1 .. Depth(c) /\ Top(c) \in Frame /\ Top(c) = frames[c][Depth(c)]
        BY <2>2, TopFacts DEF SafeInv
      <4>2. Top(c).done \in BOOLEAN /\ ~Top(c).done
        BY <4>1 DEF BlocksInv, Awake, Frame
      <4>3. QED
        BY <4>1, <4>2 DEF Depth
    <3>2. f = [b |-> b, conn |-> k, level |-> l, done |-> FALSE]
      BY <2>2, <3>1 DEF NewFrame
    <3>3. QED
      BY <3>2 DEF Frame
  <2>3. QED
    BY <2>1, <2>2
<1>2. PushFrame(c, f)
  BY DEF PushFrame, Begun, NewFrame, SafeInv, TypeOK
<1> HIDE DEF f
<1>3. outcome[c][b] = "none"
  BY Fresh DEF SafeInv, BlocksInv
<1>4. /\ outcome'[c][b] = "open"
      /\ \A d \in Client : \A e \in BlockId : d # c \/ e # b => outcome'[d][e] = outcome[d][e]
      /\ InOrder'
  BY Labels, Settled DEF Begun, SafeInv, BlocksInv, Outcome
<1>5. \A d \in Client : \A i \in 1 .. Depth(d) :
        i \in 1 .. Depth(d)' /\ frames'[d][i] = frames[d][i]
  BY <1>1, <1>2, PushFrames DEF SafeInv
<1>6. \A d \in Client : \A i \in 1 .. Depth(d)' :
        \/ /\ i \in 1 .. Depth(d) /\ frames'[d][i] = frames[d][i]
           /\ d = c => frames[d][i].b # b
        \/ d = c /\ i = Depth(c) + 1 /\ frames'[d][i] = f
  BY <1>1, <1>2, <1>3, PushFrames DEF SafeInv, BlocksInv, OwnBlocks
<1>7. Awake'
  BY <1>1, <1>6 DEF BlocksInv, Awake
<1>8. OwnBlocks'
  BY <1>1, <1>4, <1>6, FrameTypes DEF SafeInv, BlocksInv, OwnBlocks
<1>9. OneFrame'
  BY <1>1, <1>6 DEF BlocksInv, OneFrame
<1>10. OpenHaveFrames'
  <2>1. Depth(c) + 1 \in 1 .. Depth(c)' /\ frames'[c][Depth(c) + 1] = f
    BY <1>1, <1>2, PushFrames, FrameTypes DEF SafeInv
  <2>2. QED
    BY <1>1, <1>4, <1>5, <2>1 DEF BlocksInv, OpenHaveFrames
<1>11. QED
  BY <1>1, <1>2, <1>4, <1>7, <1>8, <1>9, <1>10 DEF BlocksInv, f

LEMMA BlocksEnd ==
  ASSUME SafeInv, BlocksInv, NEW c \in Client, frames[c] # <<>>, Pop(c),
         NEW o \in Outcome \ {"none", "open"}, Ends(c, Top(c).b, o)
  PROVE  /\ BlocksInv'
         /\ outcome'[c][Top(c).b] = o
         /\ \A d \in Client : \A e \in BlockId :
              d # c \/ e # Top(c).b => outcome'[d][e] = outcome[d][e]
<1> DEFINE b == Top(c).b
<1>1. Depth(c) \in 1 .. Depth(c) /\ Top(c) = frames[c][Depth(c)] /\ b \in BlockId
  BY TopFacts DEF SafeInv
<1>2. outcome[c][b] = "open"
  BY <1>1 DEF BlocksInv, OwnBlocks
<1>3. /\ outcome'[c][b] = o
      /\ \A d \in Client : \A e \in BlockId : d # c \/ e # b => outcome'[d][e] = outcome[d][e]
      /\ InOrder'
  BY <1>1, <1>2, Settled DEF SafeInv, BlocksInv
<1>4. \A d \in Client : \A i \in 1 .. Depth(d)' :
        /\ i \in 1 .. Depth(d) /\ frames'[d][i] = frames[d][i]
        /\ d = c => frames[d][i].b # b
  BY <1>1, PopFrames, FrameTypes DEF SafeInv, BlocksInv, OneFrame
<1>5. Awake' /\ OneFrame'
  BY <1>4 DEF BlocksInv, Awake, OneFrame
<1>6. OwnBlocks'
  BY <1>3, <1>4, FrameTypes DEF SafeInv, BlocksInv, OwnBlocks
<1>7. OpenHaveFrames'
  BY <1>1, <1>3, PopFrames DEF SafeInv, BlocksInv, OpenHaveFrames
<1>8. QED
  BY <1>3, <1>5, <1>6, <1>7 DEF BlocksInv
-----------------------------------------------------------------------------
(* Levels *)

\* What a step leaves alone on every connection but k; a lost one stays lost.
Elsewhere(k) ==
  \A j \in Conn \ {k} : tx'[j] = tx[j] /\ (j \in dead' <=> j \in dead) /\ failed'[j] = failed[j]

\* The four ends of a frame's part of the stack: it is given up with the
\* connection, cut off, merged into the level below, or left where nothing
\* can be committed any more.
Released(f) == f.level = 1 /\ tx'[f.conn] = <<>>
CutOff(f) ==
  /\ f.level > 1 /\ Len(tx'[f.conn]) = f.level - 1 /\ dead' = dead
  /\ \A i \in 1 .. (f.level - 1) : tx'[f.conn][i] = tx[f.conn][i]
Merged(f) ==
  /\ f.level > 1 /\ Len(tx'[f.conn]) = f.level - 1 /\ dead' = dead /\ f.conn \notin dead
  /\ \A i \in 1 .. (f.level - 2) : tx'[f.conn][i] = tx[f.conn][i]
  /\ tx'[f.conn][f.level - 1] = WritesFrom(f.conn, f.level - 1)
Left(f) ==
  f.level > 1 /\ tx'[f.conn] = tx[f.conn] /\ dead' = dead /\ (f.conn \in dead' \/ failed'[f.conn] # 0)

LEMMA LevelsEnd ==
  ASSUME SafeInv, LevelsInv, NEW c \in Client, frames[c] # <<>>, Pop(c), Elsewhere(Top(c).conn),
         Released(Top(c)) \/ CutOff(Top(c)) \/ Merged(Top(c)) \/ Left(Top(c))
  PROVE  LevelsInv'
<1> DEFINE f == Top(c)
<1>1. /\ Depth(c) \in 1 .. Depth(c) /\ f = frames[c][Depth(c)]
      /\ f.conn \in Conn /\ MaxDepth \in Nat /\ f.level \in 1 .. MaxDepth
  BY TopFacts DEF SafeInv
<1>2. \A d \in Client : \A i \in 1 .. Depth(d)' :
        /\ i \in 1 .. Depth(d) /\ frames'[d][i] = frames[d][i]
        /\ d = c => i \in 1 .. (Depth(c) - 1)
        /\ frames[d][i].conn = f.conn => d = c /\ frames[d][i].level < f.level
        /\ frames[d][i].conn \in Conn /\ frames[d][i].level \in 1 .. MaxDepth
  BY PopFrames, FrameTypes DEF SafeInv
<1>3. \A d \in Client : \A i \in 1 .. Depth(d)' : \A j \in 1 .. (i - 1) : j \in 1 .. Depth(d)'
  BY PopFrames DEF SafeInv
<1>4. Contiguous'
  <2> SUFFICES ASSUME NEW d \in Client, NEW i \in 1 .. Depth(d)', frames'[d][i].level > 1
               PROVE  /\ i > 1 /\ frames'[d][i - 1].conn = frames'[d][i].conn
                      /\ frames'[d][i - 1].level = frames'[d][i].level - 1
    BY DEF Contiguous
  <2>1. i \in 1 .. Depth(d) /\ frames'[d][i] = frames[d][i]
    BY <1>2
  <2>2. /\ i > 1 /\ frames[d][i - 1].conn = frames[d][i].conn
        /\ frames[d][i - 1].level = frames[d][i].level - 1
    BY <2>1 DEF LevelsInv, Contiguous
  <2>3. frames'[d][i - 1] = frames[d][i - 1]
    <3>1. i - 1 \in 1 .. (i - 1)
      BY <2>1, <2>2, FrameTypes DEF SafeInv
    <3>2. QED
      BY <1>2, <1>3, <3>1
  <2>4. QED
    BY <2>1, <2>2, <2>3
<1>5. OnTop'
  <2> SUFFICES ASSUME NEW d \in Client, NEW i \in 1 .. Depth(d)',
                      \A j \in (i + 1) .. Depth(d)' : frames'[d][j].conn # frames'[d][i].conn,
                      frames'[d][i].conn \notin dead', failed'[frames'[d][i].conn] = 0
               PROVE  Len(tx'[frames'[d][i].conn]) = frames'[d][i].level
    BY DEF OnTop, Healthy
  <2> DEFINE g == frames[d][i]
  <2>1. frames'[d][i] = g /\ g.conn \in Conn /\ i \in 1 .. Depth(d) /\ g.level \in 1 .. MaxDepth
    BY <1>2
  <2>2. CASE g.conn # f.conn
    <3>1. tx'[g.conn] = tx[g.conn] /\ Healthy(g.conn)
      BY <2>1, <2>2 DEF Elsewhere, Healthy
    <3>2. ASSUME NEW j \in (i + 1) .. Depth(d) PROVE frames[d][j].conn # g.conn
      <4>1. CASE d = c /\ j = Depth(c)
        BY <1>1, <2>2, <4>1
      <4>2. CASE ~(d = c /\ j = Depth(c))
        <5>1. j \in 1 .. Depth(d)
          BY <2>1, FrameTypes DEF SafeInv
        <5>2. j \in 1 .. Depth(d)' /\ frames'[d][j] = frames[d][j]
          BY <4>2, <5>1, PopFrames DEF SafeInv
        <5>3. j \in (i + 1) .. Depth(d)'
          BY <5>2, <2>1, PopFrames, FrameTypes DEF SafeInv
        <5>4. QED
          BY <2>1, <5>2, <5>3
      <4>3. QED
        BY <4>1, <4>2
    <3>3. QED
      BY <2>1, <3>1, <3>2 DEF LevelsInv, OnTop
  <2>3. CASE g.conn = f.conn
    <3>1. d = c /\ g.level < f.level
      BY <1>2, <2>3
    <3> DEFINE j == Depth(c) - 1
    <3>2. j \in 1 .. j /\ frames[c][j].conn = f.conn /\ frames[c][j].level = f.level - 1
      <4>1. f.level > 1
        BY <1>1, <2>1, <3>1
      <4>2. /\ Depth(c) > 1 /\ frames[c][Depth(c) - 1].conn = f.conn
            /\ frames[c][Depth(c) - 1].level = f.level - 1
        BY <1>1, <4>1 DEF LevelsInv, Contiguous
      <4>3. QED
        BY <4>2, FrameTypes DEF SafeInv
    <3>3. j \in 1 .. Depth(c)' /\ frames'[c][j] = frames[c][j]
      <4>1. j \in 1 .. Depth(c) /\ j # Depth(c)
        BY <3>2, FrameTypes DEF SafeInv
      <4>2. QED
        BY <4>1, PopFrames DEF SafeInv
    <3> HIDE DEF j
    <3>4. j <= i
      <4>1. j \notin (i + 1) .. Depth(c)'
        BY <2>1, <2>3, <3>1, <3>2, <3>3
      <4>2. Depth(c)' \in Nat /\ i \in 1 .. Depth(c)'
        BY <3>1, PopFrames DEF SafeInv
      <4>3. QED
        BY <4>1, <4>2, <3>3
    <3>5. j = i \/ j \in 1 .. (i - 1)
      <4>1. Depth(c)' \in Nat /\ i \in 1 .. Depth(c)'
        BY <3>1, PopFrames DEF SafeInv
      <4>2. QED
        BY <4>1, <3>3, <3>4
    <3>6. f.level - 1 <= g.level
      <4>1. i \in 1 .. Depth(c) /\ frames[c][i].conn = f.conn /\ g = frames[c][i]
        BY <2>1, <2>3, <3>1
      <4>2. CASE j = i
        BY <1>1, <3>2, <4>1, <4>2
      <4>3. CASE j \in 1 .. (i - 1)
        <5>1. frames[c][j].level < frames[c][i].level
          BY <3>2, <4>1, <4>3 DEF SafeInv, Stacks, Grow
        <5>2. QED
          BY <1>1, <2>1, <3>2, <4>1, <5>1
      <4>4. QED
        BY <3>5, <4>2, <4>3
    <3>7. g.level = f.level - 1
      BY <1>1, <2>1, <3>1, <3>6
    <3>8. Len(tx'[f.conn]) = f.level - 1
      BY <1>1, <2>1, <2>3, <3>1 DEF Released, CutOff, Merged, Left
    <3>9. QED
      BY <2>1, <2>3, <3>7, <3>8
  <2>4. QED
    BY <2>2, <2>3
<1>6. QED
  BY <1>4, <1>5 DEF LevelsInv

\* A new frame is on a level of its own, above all others of its connection.
LEMMA LevelsBegin ==
  ASSUME SafeInv, LevelsInv, NEW c \in Client, NEW f \in Frame, PushFrame(c, f),
         Elsewhere(f.conn), Len(tx'[f.conn]) = f.level,
         \/ f.conn \in free /\ f.level = 1
         \/ /\ frames[c] # <<>> /\ f.conn = Top(c).conn
            /\ Healthy(f.conn) /\ f.level = Len(tx[f.conn]) + 1
  PROVE  LevelsInv'
<1>1. f.conn \in Conn /\ f.level \in 1 .. MaxDepth /\ MaxDepth \in Nat
  BY WithTxAssumption DEF Frame
<1>2. \A d \in Client : \A i \in 1 .. Depth(d) :
        i \in 1 .. Depth(d)' /\ frames'[d][i] = frames[d][i]
  BY PushFrames DEF SafeInv
<1>3. \A d \in Client : \A i \in 1 .. Depth(d)' :
        \/ i \in 1 .. Depth(d) /\ frames'[d][i] = frames[d][i]
        \/ d = c /\ i = Depth(c) + 1 /\ frames'[d][i] = f
  BY PushFrames DEF SafeInv
<1>4. Depth(c) \in Nat /\ Depth(c)' = Depth(c) + 1 /\ frames'[c][Depth(c) + 1] = f
  BY PushFrames, FrameTypes DEF SafeInv
<1>5. Contiguous'
  <2> SUFFICES ASSUME NEW d \in Client, NEW i \in 1 .. Depth(d)', frames'[d][i].level > 1
               PROVE  /\ i > 1 /\ frames'[d][i - 1].conn = frames'[d][i].conn
                      /\ frames'[d][i - 1].level = frames'[d][i].level - 1
    BY DEF Contiguous
  <2>1. CASE i \in 1 .. Depth(d) /\ frames'[d][i] = frames[d][i]
    <3>1. /\ i > 1 /\ frames[d][i - 1].conn = frames[d][i].conn
          /\ frames[d][i - 1].level = frames[d][i].level - 1
      BY <2>1 DEF LevelsInv, Contiguous
    <3>2. i - 1 \in 1 .. Depth(d)
      BY <2>1, <3>1, FrameTypes DEF SafeInv
    <3>3. QED
      BY <1>2, <2>1, <3>1, <3>2
  <2>2. CASE d = c /\ i = Depth(c) + 1 /\ frames'[d][i] = f
    <3>1. frames[c] # <<>> /\ f.conn = Top(c).conn
          /\ Healthy(f.conn) /\ f.level = Len(tx[f.conn]) + 1
      BY <2>2
    <3>2. Depth(c) \in 1 .. Depth(c) /\ Top(c) = frames[c][Depth(c)]
      BY <3>1, TopFacts DEF SafeInv
    <3>3. Top(c).level = Len(tx[f.conn])
      <4>1. \A j \in (Depth(c) + 1) .. Depth(c) : FALSE
        BY <1>4
      <4>2. QED
        BY <3>1, <3>2, <4>1 DEF LevelsInv, OnTop
    <3>4. i > 1 /\ i - 1 = Depth(c) /\ frames'[c][i - 1] = Top(c)
      BY <1>2, <1>4, <2>2, <3>2
    <3>5. Top(c).level = f.level - 1
      BY <1>1, <3>1, <3>3, TopFacts DEF SafeInv
    <3>6. QED
      BY <2>2, <3>1, <3>4, <3>5
  <2>3. QED
    BY <1>3, <2>1, <2>2
<1>6. OnTop'
  <2> SUFFICES ASSUME NEW d \in Client, NEW i \in 1 .. Depth(d)',
                      \A j \in (i + 1) .. Depth(d)' : frames'[d][j].conn # frames'[d][i].conn,
                      frames'[d][i].conn \notin dead', failed'[frames'[d][i].conn] = 0
               PROVE  Len(tx'[frames'[d][i].conn]) = frames'[d][i].level
    BY DEF OnTop, Healthy
  <2>1. CASE d = c /\ i = Depth(c) + 1 /\ frames'[d][i] = f
    BY <2>1
  <2>2. CASE i \in 1 .. Depth(d) /\ frames'[d][i] = frames[d][i]
    <3> DEFINE g == frames[d][i]
    <3>1. g.conn \in Conn \ free
      BY <2>2, FrameTypes DEF SafeInv, Stacks, Held
    <3>2. g.conn # f.conn
      <4>1. CASE f.conn \in free
        BY <3>1, <4>1
      <4>2. CASE frames[c] # <<>> /\ f.conn = Top(c).conn
        <5>1. Depth(c) \in 1 .. Depth(c) /\ f.conn = frames[c][Depth(c)].conn
          BY <4>2, TopFacts DEF SafeInv
        <5>2. CASE d # c
          BY <2>2, <5>1, <5>2 DEF SafeInv, Stacks, Apart
        <5>3. CASE d = c
          <6>1. Depth(c) + 1 \in (i + 1) .. Depth(d)'
            BY <1>4, <2>2, <5>3
          <6>2. QED
            BY <1>4, <2>2, <5>3, <6>1
        <5>4. QED
          BY <5>2, <5>3
      <4>3. QED
        BY <4>1, <4>2
    <3>3. tx'[g.conn] = tx[g.conn] /\ Healthy(g.conn)
      BY <2>2, <3>1, <3>2 DEF Elsewhere, Healthy
    <3>4. ASSUME NEW j \in (i + 1) .. Depth(d) PROVE frames[d][j].conn # g.conn
      <4>1. j \in 1 .. Depth(d)
        BY <2>2, FrameTypes DEF SafeInv
      <4>2. j \in (i + 1) .. Depth(d)' /\ frames'[d][j] = frames[d][j]
        BY <1>2, <4>1, FrameTypes, PushFrames DEF SafeInv
      <4>3. QED
        BY <2>2, <4>2
    <3>5. QED
      BY <2>2, <3>3, <3>4 DEF LevelsInv, OnTop
  <2>3. QED
    BY <1>3, <2>1, <2>2
<1>7. QED
  BY <1>5, <1>6 DEF LevelsInv
-----------------------------------------------------------------------------
(* Writes *)

LEMMA MarkTypes == ASSUME NEW m \in Mark PROVE m[1] \in Client /\ m[2] \in BlockId
BY DEF Mark

LEMMA StackTypes ==
  ASSUME TypeOK
  PROVE  /\ \A k \in Conn : tx[k] \in Seq(SUBSET Mark) /\ Len(tx[k]) \in Nat
         /\ \A k \in Conn : \A l \in 1 .. Len(tx[k]) : tx[k][l] \subseteq Mark
<1>1. \A k \in Conn : tx[k] \in Seq(SUBSET Mark)
  BY DEF TypeOK
<1>2. QED
  BY <1>1

LEMMA FrameLevels ==
  ASSUME SafeInv, NEW c \in Client, NEW i \in 1 .. Depth(c)
  PROVE  frames[c][i].conn \in Conn /\ frames[c][i].level \in 1 .. Len(tx[frames[c][i].conn])
<1> DEFINE g == frames[c][i]
<1>1. g.conn \in Conn /\ g.level \in 1 .. MaxDepth /\ MaxDepth \in Nat
  BY FrameTypes, WithTxAssumption DEF SafeInv
<1>2. g.level <= Len(tx[g.conn])
  BY DEF SafeInv, Stacks, Held
<1>3. Len(tx[g.conn]) \in Nat
  BY <1>1, StackTypes DEF SafeInv
<1>4. QED
  BY <1>1, <1>2, <1>3

\* A mark of block b of client c that can be on a stack or in the store.
LEMMA MarkOutcome ==
  ASSUME TypeOK, NEW m \in Mark
  PROVE  OutcomeOf(m) \in Outcome /\ OutcomeOf(m) = outcome[m[1]][m[2]]
BY MarkTypes DEF TypeOK, OutcomeOf

LEMMA WritesFail ==
  ASSUME SafeInv, BlocksInv, WritesInv, NEW c \in Client, NextBlock(c) \in BlockId,
         Ends(c, NextBlock(c), "beginErr"),
         UNCHANGED <<frames, tx, dead, store, written>>
  PROVE  WritesInv'
<1> DEFINE b == NextBlock(c)
<1>1. outcome[c][b] = "none"
  BY Fresh DEF SafeInv, BlocksInv
<1>2. /\ outcome'[c][b] = "beginErr"
      /\ \A d \in Client : \A e \in BlockId : d # c \/ e # b => outcome'[d][e] = outcome[d][e]
  BY Labels, Settled DEF SafeInv, BlocksInv, Outcome
<1>3. \A m \in Mark : OutcomeOf(m) # "none" => OutcomeOf(m)' = OutcomeOf(m)
  BY <1>1, <1>2, MarkTypes DEF OutcomeOf
<1>4. Named'
  BY <1>1, <1>2 DEF WritesInv, Named
<1>5. Placed'
  BY <1>3, StackTypes DEF SafeInv, WritesInv, Placed, Depth
<1>6. Present' /\ Together'
  BY DEF WritesInv, Present, Together, Depth
<1>7. Stored'
  <2>1. store \subseteq Mark
    BY DEF SafeInv, TypeOK
  <2>2. \A m \in store : OutcomeOf(m)' \in {"ok", "commitErr"}
    BY <1>3, <2>1 DEF WritesInv, Stored
  <2>3. QED
    BY <2>2 DEF WritesInv, Stored
<1>8. QED
  BY <1>4, <1>5, <1>6, <1>7 DEF WritesInv

LEMMA WritesBegin ==
  ASSUME SafeInv, BlocksInv, WritesInv, NEW c \in Client, NEW f \in Frame,
         NextBlock(c) = f.b, PushFrame(c, f), Ends(c, f.b, "open"),
         Elsewhere(f.conn), UNCHANGED <<dead, store, written>>,
         Len(tx'[f.conn]) = Len(tx[f.conn]) + 1, f.level = Len(tx[f.conn]) + 1,
         tx'[f.conn][f.level] = {},
         \A l \in 1 .. Len(tx[f.conn]) : tx'[f.conn][l] = tx[f.conn][l]
  PROVE  WritesInv'
<1>1. outcome[c][f.b] = "none" /\ f.b \in BlockId /\ f.conn \in Conn
  BY Fresh DEF SafeInv, BlocksInv, Frame
<1>2. /\ outcome'[c][f.b] = "open"
      /\ \A d \in Client : \A e \in BlockId : d # c \/ e # f.b => outcome'[d][e] = outcome[d][e]
  BY <1>1, Labels, Settled DEF SafeInv, BlocksInv, Outcome
<1>3. \A m \in Mark : OutcomeOf(m) # "none" => OutcomeOf(m)' = OutcomeOf(m) /\ ~(m[1] = c /\ m[2] = f.b)
  BY <1>1, <1>2, MarkTypes DEF OutcomeOf
<1>4. \A d \in Client : \A i \in 1 .. Depth(d)' :
        \/ i \in 1 .. Depth(d) /\ frames'[d][i] = frames[d][i]
        \/ d = c /\ frames'[d][i] = f
  BY PushFrames DEF SafeInv
<1>5. \A k \in Conn : \A l \in 1 .. Len(tx'[k]) :
        \/ l \in 1 .. Len(tx[k]) /\ tx'[k][l] = tx[k][l]
        \/ tx'[k][l] = {}
  <2> SUFFICES ASSUME NEW k \in Conn, NEW l \in 1 .. Len(tx'[k])
               PROVE  \/ l \in 1 .. Len(tx[k]) /\ tx'[k][l] = tx[k][l]
                      \/ tx'[k][l] = {}
    OBVIOUS
  <2>1. CASE k = f.conn
    <3>1. l \in 1 .. Len(tx[k]) \/ l = f.level
      BY <1>1, <2>1, StackTypes DEF SafeInv
    <3>2. QED
      BY <2>1, <3>1
  <2>2. CASE k # f.conn
    BY <2>2 DEF Elsewhere
  <2>3. QED
    BY <2>1, <2>2
<1>6. Named'
  BY <1>1, <1>2 DEF WritesInv, Named
<1>7. Placed'
  <2> SUFFICES ASSUME NEW k \in Conn, NEW l \in 1 .. Len(tx'[k]), NEW m \in tx'[k][l]
               PROVE  /\ OutcomeOf(m)' \notin {"none", "beginErr"}
                      /\ OutcomeOf(m)' \in {"err", "panic"} => k \in dead'
                      /\ \A i \in 1 .. Depth(m[1])' : frames'[m[1]][i].b = m[2] =>
                           frames'[m[1]][i].conn = k /\ frames'[m[1]][i].level = l
    BY DEF Placed
  <2>1. l \in 1 .. Len(tx[k]) /\ m \in tx[k][l] /\ m \in Mark
    BY <1>5, StackTypes DEF SafeInv
  <2>2. OutcomeOf(m) # "none"
    BY <2>1 DEF WritesInv, Placed
  <2>3. OutcomeOf(m)' = OutcomeOf(m) /\ ~(m[1] = c /\ m[2] = f.b) /\ m[1] \in Client
    BY <1>3, <2>1, <2>2, MarkTypes
  <2>4. ASSUME NEW i \in 1 .. Depth(m[1])', frames'[m[1]][i].b = m[2]
        PROVE  frames'[m[1]][i].conn = k /\ frames'[m[1]][i].level = l
    <3>1. i \in 1 .. Depth(m[1]) /\ frames'[m[1]][i] = frames[m[1]][i]
      BY <1>4, <2>3, <2>4
    <3>2. QED
      BY <2>1, <2>4, <3>1 DEF WritesInv, Placed
  <2>5. QED
    BY <2>1, <2>3, <2>4 DEF WritesInv, Placed
<1>8. Present'
  <2> SUFFICES ASSUME NEW d \in Client, NEW i \in 1 .. Depth(d)'
               PROVE  written[d][frames'[d][i].b]
                        \subseteq tx'[frames'[d][i].conn][frames'[d][i].level]
    BY DEF Present
  <2>1. CASE d = c /\ frames'[d][i] = f
    <3>1. written[c][f.b] = {}
      BY <1>1 DEF WritesInv, Named
    <3>2. QED
      BY <2>1, <3>1
  <2>2. CASE i \in 1 .. Depth(d) /\ frames'[d][i] = frames[d][i]
    <3> DEFINE g == frames[d][i]
    <3>1. g.conn \in Conn /\ g.level \in 1 .. Len(tx[g.conn])
      BY <2>2, FrameLevels
    <3>2. tx'[g.conn][g.level] = tx[g.conn][g.level]
      <4>1. CASE g.conn = f.conn
        BY <3>1, <4>1
      <4>2. CASE g.conn # f.conn
        BY <3>1, <4>2 DEF Elsewhere
      <4>3. QED
        BY <4>1, <4>2
    <3>3. QED
      BY <2>2, <3>2 DEF WritesInv, Present
  <2>3. QED
    BY <1>4, <2>1, <2>2
<1>9. Together'
  BY <1>5 DEF WritesInv, Together
<1>10. Stored'
  <2>1. store \subseteq Mark
    BY DEF SafeInv, TypeOK
  <2>2. \A m \in store : OutcomeOf(m)' \in {"ok", "commitErr"}
    BY <1>3, <2>1 DEF WritesInv, Stored
  <2>3. QED
    BY <2>2 DEF WritesInv, Stored
<1>11. QED
  BY <1>6, <1>7, <1>8, <1>9, <1>10 DEF WritesInv

\* Where the sets of the new stacks come from when a block ends.
LEMMA Origins ==
  ASSUME SafeInv, NEW c \in Client, frames[c] # <<>>, Elsewhere(Top(c).conn),
         Released(Top(c)) \/ CutOff(Top(c)) \/ Merged(Top(c)) \/ Left(Top(c)),
         NEW k \in Conn, NEW l \in 1 .. Len(tx'[k])
  PROVE  \/ /\ l \in 1 .. Len(tx[k]) /\ tx'[k][l] = tx[k][l]
            /\ k \in dead => k \in dead'
            /\ k = Top(c).conn => l < Top(c).level \/ Left(Top(c))
         \/ /\ k = Top(c).conn /\ Merged(Top(c)) /\ ~CutOff(Top(c))
            /\ l = Top(c).level - 1 /\ tx'[k][l] = WritesFrom(k, l)
<1> DEFINE f == Top(c)
<1>1. /\ f.level \in 1 .. Len(tx[f.conn]) /\ Len(tx[k]) \in Nat /\ f.level \in Nat
      /\ Len(tx[f.conn]) \in Nat
  BY TopFacts, StackTypes DEF SafeInv
<1>2. CASE k # f.conn
  BY <1>2 DEF Elsewhere
<1>3. CASE k = f.conn /\ Released(f)
  BY <1>3 DEF Released
<1>4. CASE k = f.conn /\ CutOff(f)
  <2>1. l \in 1 .. (f.level - 1)
    BY <1>4 DEF CutOff
  <2>2. l \in 1 .. Len(tx[k]) /\ l < f.level
    BY <1>1, <1>4, <2>1
  <2>3. QED
    BY <1>4, <2>1, <2>2 DEF CutOff
<1>5. CASE k = f.conn /\ Merged(f) /\ ~CutOff(f)
  <2>1. l \in 1 .. (f.level - 2) \/ l = f.level - 1
    BY <1>1, <1>5 DEF Merged
  <2>2. CASE l = f.level - 1
    BY <1>5, <2>2 DEF Merged
  <2>3. CASE l \in 1 .. (f.level - 2)
    <3>1. l \in 1 .. Len(tx[k]) /\ l < f.level
      BY <1>1, <1>5, <2>3
    <3>2. QED
      BY <1>5, <2>3, <3>1 DEF Merged
  <2>4. QED
    BY <2>1, <2>2, <2>3
<1>6. CASE k = f.conn /\ Left(f)
  BY <1>6 DEF Left
<1>7. QED
  BY <1>2, <1>3, <1>4, <1>5, <1>6

LEMMA InWritesFrom ==
  ASSUME SafeInv, NEW k \in Conn, NEW l \in Nat \ {0}
  PROVE  /\ \A m \in WritesFrom(k, l) : \E i \in 1 .. Len(tx[k]) : i >= l /\ m \in tx[k][i]
         /\ \A i \in 1 .. Len(tx[k]) : i >= l => tx[k][i] \subseteq WritesFrom(k, l)
<1>1. Len(tx[k]) \in Nat
  BY StackTypes DEF SafeInv
<1>2. \A i : i \in l .. Len(tx[k]) <=> i \in 1 .. Len(tx[k]) /\ i >= l
  BY <1>1
<1>3. QED
  BY <1>2 DEF WritesFrom

LEMMA PlacedEnd ==
  ASSUME AtomInv, NEW c \in Client, frames[c] # <<>>, Pop(c), Elsewhere(Top(c).conn),
         NEW o \in Outcome \ {"none", "open", "beginErr"}, Ends(c, Top(c).b, o),
         Released(Top(c)) \/ CutOff(Top(c)) \/ Merged(Top(c)) \/ Left(Top(c)),
         o \in {"err", "panic"} =>
           Released(Top(c)) \/ CutOff(Top(c)) \/ (Left(Top(c)) /\ Top(c).conn \in dead)
  PROVE  Placed'
<1> USE DEF AtomInv
<1> DEFINE f == Top(c)
<1>1. /\ Depth(c) \in 1 .. Depth(c) /\ f = frames[c][Depth(c)]
      /\ f.conn \in Conn /\ f.b \in BlockId /\ f.level \in 1 .. Len(tx[f.conn])
      /\ f.level \in Nat
  BY TopFacts DEF SafeInv
<1>2. /\ outcome'[c][f.b] = o
      /\ \A d \in Client : \A e \in BlockId : d # c \/ e # f.b => outcome'[d][e] = outcome[d][e]
  BY BlocksEnd
<1> SUFFICES ASSUME NEW k \in Conn, NEW l \in 1 .. Len(tx'[k]), NEW m \in tx'[k][l]
             PROVE  /\ OutcomeOf(m)' \notin {"none", "beginErr"}
                    /\ OutcomeOf(m)' \in {"err", "panic"} => k \in dead'
                    /\ \A i \in 1 .. Depth(m[1])' : frames'[m[1]][i].b = m[2] =>
                         frames'[m[1]][i].conn = k /\ frames'[m[1]][i].level = l
  BY DEF Placed
<1>3. \E j \in 1 .. Len(tx[k]) :
        /\ m \in tx[k][j]
        /\ \/ /\ j = l /\ (k \in dead => k \in dead')
              /\ k = f.conn => l < f.level \/ Left(f)
           \/ k = f.conn /\ Merged(f) /\ ~CutOff(f) /\ l = f.level - 1 /\ j >= l
  <2>1. CASE /\ l \in 1 .. Len(tx[k]) /\ tx'[k][l] = tx[k][l]
             /\ k \in dead => k \in dead'
             /\ k = f.conn => l < f.level \/ Left(f)
    BY <2>1
  <2>2. CASE /\ k = f.conn /\ Merged(f) /\ ~CutOff(f)
             /\ l = f.level - 1 /\ tx'[k][l] = WritesFrom(k, l)
    <3>1. l \in Nat \ {0}
      BY <1>1, <2>2 DEF Merged
    <3>2. QED
      BY <2>2, <3>1, InWritesFrom
  <2>3. QED
    BY <2>1, <2>2, Origins
<1>4. PICK j \in 1 .. Len(tx[k]) :
        /\ m \in tx[k][j]
        /\ \/ /\ j = l /\ (k \in dead => k \in dead')
              /\ k = f.conn => l < f.level \/ Left(f)
           \/ k = f.conn /\ Merged(f) /\ ~CutOff(f) /\ l = f.level - 1 /\ j >= l
  BY <1>3
<1>5. m[1] \in Client /\ m[2] \in BlockId
  BY <1>4, StackTypes, MarkTypes DEF SafeInv
<1>6. /\ OutcomeOf(m) \notin {"none", "beginErr"}
      /\ OutcomeOf(m) \in {"err", "panic"} => k \in dead
      /\ \A i \in 1 .. Depth(m[1]) : frames[m[1]][i].b = m[2] =>
           frames[m[1]][i].conn = k /\ frames[m[1]][i].level = j
  <2>1. Placed /\ m \in tx[k][j]
    BY <1>4 DEF WritesInv
  <2>2. QED
    BY <2>1 DEF Placed
<1>7. /\ OutcomeOf(m)' \notin {"none", "beginErr"}
      /\ OutcomeOf(m)' \in {"err", "panic"} => k \in dead'
  <2>1. CASE m[1] = c /\ m[2] = f.b
    <3>1. OutcomeOf(m)' = o /\ k = f.conn /\ j = f.level
      BY <1>1, <1>2, <1>6, <2>1 DEF OutcomeOf
    <3>2. o \in {"err", "panic"} => k \in dead'
      <4>1. CASE l = j /\ l < f.level
        BY <1>1, <3>1, <4>1
      <4>2. CASE Left(f)
        BY <1>1, <3>1, <4>2 DEF Left, Released, CutOff
      <4>3. CASE Merged(f) /\ ~CutOff(f)
        BY <3>1, <4>3 DEF Merged, Released
      <4>4. QED
        BY <1>4, <3>1, <4>1, <4>2, <4>3
    <3>3. QED
      BY <3>1, <3>2
  <2>2. CASE ~(m[1] = c /\ m[2] = f.b)
    <3>1. OutcomeOf(m)' = OutcomeOf(m)
      BY <1>2, <1>5, <2>2 DEF OutcomeOf
    <3>2. k \in dead => k \in dead'
      BY <1>4 DEF Merged
    <3>3. QED
      BY <1>6, <3>1, <3>2
  <2>3. QED
    BY <2>1, <2>2
<1>8. ASSUME NEW i \in 1 .. Depth(m[1])', frames'[m[1]][i].b = m[2]
      PROVE  frames'[m[1]][i].conn = k /\ frames'[m[1]][i].level = l
  <2> DEFINE g == frames[m[1]][i]
  <2>1. i \in 1 .. Depth(m[1]) /\ frames'[m[1]][i] = g
        /\ (g.conn = f.conn => g.level < f.level)
    BY <1>5, PopFrames DEF SafeInv
  <2>2. g.conn = k /\ g.level = j
    BY <1>6, <1>8, <2>1
  <2>3. CASE j = l
    BY <2>1, <2>2, <2>3
  <2>4. CASE k = f.conn /\ l = f.level - 1 /\ j >= l
    <3>1. j < f.level /\ j \in Nat
      BY <2>1, <2>2, <2>4
    <3>2. j = l
      BY <1>1, <2>4, <3>1
    <3>3. QED
      BY <2>1, <2>2, <3>2
  <2>5. QED
    BY <1>4, <2>3, <2>4
<1>9. QED
  BY <1>7, <1>8

LEMMA PresentEnd ==
  ASSUME AtomInv, NEW c \in Client, frames[c] # <<>>, Pop(c), Elsewhere(Top(c).conn),
         written' = written,
         Released(Top(c)) \/ CutOff(Top(c)) \/ Merged(Top(c)) \/ Left(Top(c))
  PROVE  Present'
<1> USE DEF AtomInv
<1> DEFINE f == Top(c)
<1>1. f.conn \in Conn /\ f.level \in Nat \ {0}
  BY TopFacts DEF SafeInv
<1> SUFFICES ASSUME NEW d \in Client, NEW i \in 1 .. Depth(d)'
             PROVE  written[d][frames'[d][i].b]
                      \subseteq tx'[frames'[d][i].conn][frames'[d][i].level]
  BY DEF Present
<1> DEFINE g == frames[d][i]
<1>2. i \in 1 .. Depth(d) /\ frames'[d][i] = g /\ (g.conn = f.conn => g.level < f.level)
  BY PopFrames DEF SafeInv
<1>3. g.conn \in Conn /\ g.level \in 1 .. Len(tx[g.conn]) /\ Len(tx[g.conn]) \in Nat
  BY <1>2, FrameLevels, StackTypes DEF SafeInv
<1>4. written[d][g.b] \subseteq tx[g.conn][g.level]
  BY <1>2 DEF WritesInv, Present
<1>5. tx[g.conn][g.level] \subseteq tx'[g.conn][g.level]
  <2>1. CASE g.conn # f.conn
    BY <1>3, <2>1 DEF Elsewhere
  <2>2. CASE g.conn = f.conn /\ Merged(f) /\ g.level = f.level - 1
    BY <1>3, <2>2, InWritesFrom DEF Merged
  <2>3. CASE g.conn = f.conn /\ Merged(f) /\ g.level # f.level - 1
    <3>1. g.level \in 1 .. (f.level - 2)
      BY <1>1, <1>2, <1>3, <2>3
    <3>2. QED
      BY <2>3, <3>1 DEF Merged
  <2>4. CASE g.conn = f.conn /\ CutOff(f)
    <3>1. g.level \in 1 .. (f.level - 1)
      BY <1>1, <1>2, <1>3, <2>4
    <3>2. QED
      BY <2>4, <3>1 DEF CutOff
  <2>5. CASE g.conn = f.conn /\ Released(f)
    BY <1>2, <1>3, <2>5 DEF Released
  <2>6. CASE g.conn = f.conn /\ Left(f)
    BY <2>6 DEF Left
  <2>7. QED
    BY <2>1, <2>2, <2>3, <2>4, <2>5, <2>6
<1>6. QED
  BY <1>2, <1>4, <1>5

LEMMA TogetherEnd ==
  ASSUME AtomInv, NEW c \in Client, frames[c] # <<>>, Elsewhere(Top(c).conn),
         written' = written,
         Released(Top(c)) \/ CutOff(Top(c)) \/ Merged(Top(c)) \/ Left(Top(c))
  PROVE  Together'
<1> USE DEF AtomInv
<1> SUFFICES ASSUME NEW d \in Client, NEW b \in BlockId,
                    NEW k \in Conn, NEW l \in 1 .. Len(tx'[k]),
                    written[d][b] \cap tx'[k][l] # {}
             PROVE  written[d][b] \subseteq tx'[k][l]
  BY DEF Together
<1>1. CASE l \in 1 .. Len(tx[k]) /\ tx'[k][l] = tx[k][l]
  BY <1>1 DEF WritesInv, Together
<1>2. CASE k = Top(c).conn /\ Merged(Top(c)) /\ l = Top(c).level - 1 /\ tx'[k][l] = WritesFrom(k, l)
  <2>1. l \in Nat \ {0}
    BY <1>2, TopFacts DEF SafeInv, Merged
  <2>2. PICK m \in written[d][b] : m \in WritesFrom(k, l)
    BY <1>2
  <2>3. PICK i \in 1 .. Len(tx[k]) : i >= l /\ m \in tx[k][i]
    BY <2>1, <2>2, InWritesFrom
  <2>4. written[d][b] \subseteq tx[k][i]
    BY <2>2, <2>3 DEF WritesInv, Together
  <2>5. QED
    BY <1>2, <2>1, <2>3, <2>4, InWritesFrom
<1>3. QED
  BY <1>1, <1>2, Origins

LEMMA StoredEnd ==
  ASSUME AtomInv, NEW c \in Client, frames[c] # <<>>, Pop(c), written' = written,
         NEW o \in Outcome \ {"none", "open", "beginErr"}, Ends(c, Top(c).b, o),
         \/ store' = store
         \/ /\ Top(c).level = 1 /\ Top(c).conn \notin dead /\ o \in {"ok", "commitErr"}
            /\ store' = store \cup WritesFrom(Top(c).conn, 1)
  PROVE  Stored'
<1> USE DEF AtomInv
<1> DEFINE f == Top(c)
           k == f.conn
<1>1. /\ Depth(c) \in 1 .. Depth(c) /\ f = frames[c][Depth(c)]
      /\ k \in Conn /\ f.b \in BlockId
  BY TopFacts DEF SafeInv
<1>2. /\ outcome[c][f.b] = "open"
      /\ outcome'[c][f.b] = o
      /\ \A d \in Client : \A e \in BlockId : d # c \/ e # f.b => outcome'[d][e] = outcome[d][e]
  BY <1>1, BlocksEnd DEF BlocksInv, OwnBlocks
<1>3. store \subseteq Mark
  BY DEF SafeInv, TypeOK
<1>4. ASSUME NEW m \in store PROVE OutcomeOf(m)' \in {"ok", "commitErr"}
  <2>1. OutcomeOf(m) \in {"ok", "commitErr"} /\ m[1] \in Client /\ m[2] \in BlockId
    BY <1>3, MarkTypes DEF WritesInv, Stored
  <2>2. QED
    BY <1>2, <2>1 DEF OutcomeOf
<1>5. CASE store' = store
  BY <1>4, <1>5 DEF WritesInv, Stored
<1>6. CASE /\ f.level = 1 /\ k \notin dead /\ o \in {"ok", "commitErr"}
           /\ store' = store \cup WritesFrom(k, 1)
  <2>1. ASSUME NEW m \in WritesFrom(k, 1) PROVE OutcomeOf(m)' \in {"ok", "commitErr"}
    <3>1. PICK j \in 1 .. Len(tx[k]) : m \in tx[k][j]
      BY <1>1, InWritesFrom
    <3>2. Placed /\ m \in Mark
      BY <1>1, <3>1, StackTypes DEF WritesInv, SafeInv
    <3>3. m[1] \in Client /\ m[2] \in BlockId
      BY <3>2, MarkTypes
    <3>4. CASE m[1] = c /\ m[2] = f.b
      BY <1>2, <1>6, <3>4 DEF OutcomeOf
    <3>5. CASE ~(m[1] = c /\ m[2] = f.b)
      <4>1. OutcomeOf(m)' = OutcomeOf(m)
        BY <1>2, <3>3, <3>5 DEF OutcomeOf
      <4>2. OutcomeOf(m) \notin {"none", "beginErr", "err", "panic"}
        BY <1>1, <1>6, <3>1, <3>2 DEF Placed
      <4>3. OutcomeOf(m) # "open"
        <5> SUFFICES ASSUME OutcomeOf(m) = "open" PROVE FALSE
          OBVIOUS
        <5>1. PICK i \in 1 .. Depth(m[1]) : frames[m[1]][i].b = m[2]
          BY <3>3 DEF BlocksInv, OpenHaveFrames, OutcomeOf
        <5>2. frames[m[1]][i].conn = k
          BY <1>1, <3>1, <3>2, <5>1 DEF Placed
        <5>3. m[1] = c
          BY <1>1, <3>3, <5>2 DEF SafeInv, Stacks, Apart
        <5>4. i \in 1 .. (Depth(c) - 1)
          BY <1>1, <3>5, <5>1, <5>3, FrameTypes DEF SafeInv
        <5>5. frames[c][i].level < 1
          BY <1>1, <1>6, <5>2, <5>3, <5>4 DEF SafeInv, Stacks, Grow
        <5>6. frames[c][i].level \in 1 .. MaxDepth /\ MaxDepth \in Nat
          BY <5>1, <5>3, FrameTypes, WithTxAssumption DEF SafeInv
        <5>7. QED
          BY <5>5, <5>6
      <4>4. OutcomeOf(m) \in Outcome
        BY <3>2, MarkOutcome DEF SafeInv
      <4>5. QED
        BY <4>1, <4>2, <4>3, <4>4 DEF Outcome
    <3>6. QED
      BY <3>4, <3>5
  <2>2. ASSUME NEW d \in Client, NEW b \in BlockId, written[d][b] \cap store' # {}
        PROVE  written[d][b] \subseteq store'
    <3>1. CASE written[d][b] \cap store # {}
      BY <1>6, <3>1 DEF WritesInv, Stored
    <3>2. CASE written[d][b] \cap WritesFrom(k, 1) # {}
      <4>1. PICK m \in written[d][b] : m \in WritesFrom(k, 1)
        BY <3>2
      <4>2. PICK j \in 1 .. Len(tx[k]) : m \in tx[k][j] /\ j >= 1
        BY <1>1, <4>1, InWritesFrom
      <4>3. written[d][b] \subseteq tx[k][j]
        BY <1>1, <4>1, <4>2 DEF WritesInv, Together
      <4>4. QED
        BY <1>1, <1>6, <4>2, <4>3, InWritesFrom
    <3>3. QED
      BY <1>6, <2>2, <3>1, <3>2
  <2>3. QED
    BY <1>4, <1>6, <2>1, <2>2 DEF Stored
<1>7. QED
  BY <1>5, <1>6

LEMMA AtomEnd ==
  ASSUME AtomInv, SafeInv', NEW c \in Client, frames[c] # <<>>, Pop(c), Elsewhere(Top(c).conn),
         NEW o \in Outcome \ {"none", "open", "beginErr"}, Ends(c, Top(c).b, o),
         written' = written,
         Released(Top(c)) \/ CutOff(Top(c)) \/ Merged(Top(c)) \/ Left(Top(c)),
         o \in {"err", "panic"} =>
           Released(Top(c)) \/ CutOff(Top(c)) \/ (Left(Top(c)) /\ Top(c).conn \in dead),
         \/ store' = store
         \/ /\ Top(c).level = 1 /\ Top(c).conn \notin dead /\ o \in {"ok", "commitErr"}
            /\ store' = store \cup WritesFrom(Top(c).conn, 1)
  PROVE  AtomInv'
<1>1. /\ BlocksInv'
      /\ outcome'[c][Top(c).b] = o
      /\ \A d \in Client : \A e \in BlockId :
           d # c \/ e # Top(c).b => outcome'[d][e] = outcome[d][e]
  BY BlocksEnd DEF AtomInv
<1>2. LevelsInv'
  BY LevelsEnd DEF AtomInv
<1>3. Named'
  <2> SUFFICES ASSUME NEW d \in Client, NEW b \in BlockId, NEW m \in written[d][b]
               PROVE  m[1] = d /\ m[2] = b /\ outcome'[d][b] # "none"
    BY DEF Named
  <2>1. m[1] = d /\ m[2] = b /\ outcome[d][b] # "none"
    BY DEF AtomInv, WritesInv, Named
  <2>2. QED
    BY <1>1, <2>1
<1>4. QED
  BY <1>1, <1>2, <1>3, PlacedEnd, PresentEnd, TogetherEnd, StoredEnd DEF AtomInv, WritesInv

LEMMA ReleaseEnds ==
  ASSUME SafeInv, NEW c \in Client, frames[c] # <<>>, Top(c).level = 1, Release(Top(c).conn)
  PROVE  Elsewhere(Top(c).conn) /\ Released(Top(c))
<1> DEFINE k == Top(c).conn
<1>1. k \in Conn
  BY TopFacts DEF SafeInv
<1>2. /\ tx'[k] = <<>>
      /\ \A j \in Conn \ {k} : tx'[j] = tx[j] /\ failed'[j] = failed[j] /\ (j \in dead' <=> j \in dead)
  BY <1>1 DEF Release, SafeInv, TypeOK
<1>3. QED
  BY <1>2 DEF Elsewhere, Released

LEMMA LeaveEnds ==
  ASSUME SafeInv, NEW c \in Client, frames[c] # <<>>, Top(c).level # 1,
         KeepConns, ~Healthy(Top(c).conn)
  PROVE  Elsewhere(Top(c).conn) /\ Left(Top(c))
<1>1. Top(c).level > 1
  BY TopFacts DEF SafeInv
<1>2. QED
  BY <1>1 DEF KeepConns, Healthy, Elsewhere, Left

LEMMA UndoEnds ==
  ASSUME AtomInv, NEW c \in Client, frames[c] # <<>>, UndoTop(c)
  PROVE  /\ Elsewhere(Top(c).conn)
         /\ Released(Top(c)) \/ CutOff(Top(c)) \/ (Left(Top(c)) /\ Top(c).conn \in dead)
<1> USE DEF AtomInv
<1> DEFINE f == Top(c)
           k == f.conn
<1>1. /\ k \in Conn /\ f.level \in Nat \ {0} /\ f.level - 1 \in 0 .. Len(tx[k])
      /\ tx[k] \in Seq(SUBSET Mark)
  BY TopFacts DEF SafeInv
<1>2. CASE f.level = 1
  BY <1>2, ReleaseEnds DEF UndoTop
<1>3. CASE f.level # 1 /\ ~Reaches(f)
  <2>1. k \in dead
    <3>1. f.done \in BOOLEAN /\ ~f.done
      BY TopFacts DEF SafeInv, BlocksInv, Awake, Frame
    <3>2. QED
      BY <1>3, <3>1 DEF Reaches
  <2>2. KeepConns
    BY <1>3 DEF UndoTop, KeepConns
  <2>3. Elsewhere(k) /\ Left(f)
    BY <1>3, <2>1, <2>2, LeaveEnds DEF Healthy
  <2>4. QED
    BY <2>1, <2>3
<1>4. CASE f.level # 1 /\ Reaches(f)
  <2> DEFINE s == SubSeq(tx[k], 1, f.level - 1)
  <2>1. Len(s) = f.level - 1 /\ \A i \in 1 .. (f.level - 1) : s[i] = tx[k][i]
    BY <1>1, Cut
  <2> HIDE DEF s
  <2>2. tx'[k] = s /\ dead' = dead /\ \A j \in Conn \ {k} : tx'[j] = tx[j] /\ failed'[j] = failed[j]
    BY <1>1, <1>4 DEF UndoTop, SafeInv, TypeOK, s
  <2>3. CutOff(f)
    BY <1>1, <1>4, <2>1, <2>2 DEF CutOff
  <2>4. QED
    BY <2>2, <2>3 DEF Elsewhere
<1>5. QED
  BY <1>2, <1>3, <1>4

LEMMA MergeEnds ==
  ASSUME SafeInv, NEW c \in Client, frames[c] # <<>>, Top(c).level # 1, Healthy(Top(c).conn),
         tx' = [tx EXCEPT ![Top(c).conn] =
           Append(SubSeq(@, 1, Top(c).level - 2), WritesFrom(Top(c).conn, Top(c).level - 1))],
         UNCHANGED <<failed, dead>>
  PROVE  Elsewhere(Top(c).conn) /\ Merged(Top(c))
<1> DEFINE f == Top(c)
           k == f.conn
           p == SubSeq(tx[k], 1, f.level - 2)
           w == WritesFrom(k, f.level - 1)
           s == Append(p, w)
<1>1. /\ k \in Conn /\ f.level > 1 /\ f.level - 2 \in 0 .. Len(tx[k]) /\ f.level \in Nat
      /\ tx[k] \in Seq(SUBSET Mark)
  BY TopFacts DEF SafeInv
<1>2. p \in Seq(SUBSET Mark) /\ Len(p) = f.level - 2 /\ \A i \in 1 .. (f.level - 2) : p[i] = tx[k][i]
  BY <1>1, Cut
<1>3. tx'[k] = s /\ \A j \in Conn \ {k} : tx'[j] = tx[j]
  BY <1>1 DEF SafeInv, TypeOK
<1>4. w \in SUBSET Mark
  <2>1. \A m \in w : m \in Mark
    BY <1>1, InWritesFrom, StackTypes DEF SafeInv
  <2>2. QED
    BY <2>1
<1> HIDE DEF p, w
<1>5. /\ Len(s) = f.level - 1 /\ s[f.level - 1] = w
      /\ \A i \in 1 .. (f.level - 2) : s[i] = tx[k][i]
  <2>1. Len(s) = Len(p) + 1 /\ s[Len(p) + 1] = w /\ \A i \in 1 .. Len(p) : s[i] = p[i]
    BY <1>2, <1>4, Pushed
  <2>2. Len(p) + 1 = f.level - 1
    BY <1>1, <1>2
  <2>3. QED
    BY <1>2, <2>1, <2>2
<1> HIDE DEF s
<1>6. QED
  BY <1>1, <1>3, <1>5 DEF Elsewhere, Merged, Healthy, w

LEMMA AtomEnding ==
  ASSUME AtomInv, NEW c \in Client, Ending(c)
  PROVE  AtomInv'
<1> DEFINE f == Top(c)
<1>1. SafeInv' /\ SafeInv
  BY SafeEnd DEF AtomInv
<1>2. frames[c] # <<>>
  BY DEF AtomInv, SafeInv, Ending, RollbackOnError, RollbackOnPanic, Commit, CommitFails,
         CommitAnswerLost, Waits
<1>3. ~f.done
  BY <1>2, TopFacts DEF AtomInv, SafeInv, BlocksInv, Awake
<1>4. {"ok", "err", "panic", "commitErr"} \subseteq Outcome \ {"none", "open", "beginErr"}
  BY DEF Outcome
<1>5. CASE RollbackOnError(c) \/ RollbackOnPanic(c)
  <2>1. PICK o \in {"err", "panic"} : Ends(c, f.b, o)
    BY <1>5 DEF RollbackOnError, RollbackOnPanic
  <2>2. Pop(c) /\ UndoTop(c) /\ store' = store /\ written' = written
    BY <1>5 DEF RollbackOnError, RollbackOnPanic
  <2>3. /\ Elsewhere(f.conn)
        /\ Released(f) \/ CutOff(f) \/ (Left(f) /\ f.conn \in dead)
    BY <1>2, <2>2, UndoEnds
  <2>4. QED
    BY <1>1, <1>2, <1>4, <2>1, <2>2, <2>3, AtomEnd
<1>6. CASE Commit(c)
  <2>1. Pop(c) /\ Ends(c, f.b, "ok") /\ written' = written /\ Healthy(f.conn)
    BY <1>6 DEF Commit, Reaches, Healthy
  <2>2. CASE f.level = 1
    <3>1. store' = store \cup WritesFrom(f.conn, 1) /\ Release(f.conn)
      BY <1>6, <2>2 DEF Commit
    <3>2. Elsewhere(f.conn) /\ Released(f)
      BY <1>1, <1>2, <2>2, <3>1, ReleaseEnds
    <3>3. QED
      BY <1>1, <1>2, <1>4, <2>1, <2>2, <3>1, <3>2, AtomEnd DEF Healthy
  <2>3. CASE f.level # 1
    <3>1. /\ tx' = [tx EXCEPT ![f.conn] =
               Append(SubSeq(@, 1, f.level - 2), WritesFrom(f.conn, f.level - 1))]
          /\ UNCHANGED <<store, failed, dead>>
      BY <1>6, <2>3 DEF Commit
    <3>2. Elsewhere(f.conn) /\ Merged(f)
      BY <1>1, <1>2, <2>1, <2>3, <3>1, MergeEnds
    <3>3. QED
      BY <1>1, <1>2, <1>4, <2>1, <3>1, <3>2, AtomEnd
  <2>4. QED
    BY <2>2, <2>3
<1>7. CASE CommitFails(c)
  <2>1. Pop(c) /\ Ends(c, f.b, "commitErr") /\ written' = written /\ store' = store
    BY <1>7 DEF CommitFails
  <2>2. ~Healthy(f.conn)
    BY <1>3, <1>7 DEF CommitFails, Reaches, Healthy
  <2>3. Elsewhere(f.conn) /\ (Released(f) \/ Left(f))
    BY <1>1, <1>2, <1>7, <2>2, ReleaseEnds, LeaveEnds DEF CommitFails
  <2>4. QED
    BY <1>1, <1>2, <1>4, <2>1, <2>3, AtomEnd
<1>8. CASE CommitAnswerLost(c)
  <2>1. /\ Pop(c) /\ Ends(c, f.b, "commitErr") /\ written' = written
        /\ f.level = 1 /\ f.conn \notin dead /\ Release(f.conn)
        /\ store' = store \cup WritesFrom(f.conn, 1)
    BY <1>8 DEF CommitAnswerLost, Reaches
  <2>2. Elsewhere(f.conn) /\ Released(f)
    BY <1>1, <1>2, <2>1, ReleaseEnds
  <2>3. QED
    BY <1>1, <1>2, <1>4, <2>1, <2>2, AtomEnd
<1>9. QED
  BY <1>5, <1>6, <1>7, <1>8 DEF Ending

LEMMA AtomBegin ==
  ASSUME AtomInv, SafeInv', NEW c \in Client, NextBlock(c) \in BlockId,
         NEW k \in Conn, NEW l \in 1 .. MaxDepth, Begun(c, k, l),
         Elsewhere(k), UNCHANGED <<dead, store, written>>,
         Len(tx'[k]) = l, l = Len(tx[k]) + 1, tx'[k][l] = {},
         \A i \in 1 .. Len(tx[k]) : tx'[k][i] = tx[k][i],
         \/ k \in free /\ l = 1
         \/ frames[c] # <<>> /\ k = Top(c).conn /\ Healthy(k)
  PROVE  AtomInv'
<1> USE DEF AtomInv
<1> DEFINE f == NewFrame(c, k, l)
<1>1. BlocksInv' /\ f \in Frame /\ PushFrame(c, f)
  BY BlocksBegin
<1>2. f.conn = k /\ f.level = l /\ f.b = NextBlock(c)
  BY DEF NewFrame
<1>3. Ends(c, f.b, "open")
  BY <1>2 DEF Begun
<1> HIDE DEF f
<1>4. LevelsInv'
  BY <1>1, <1>2, LevelsBegin
<1>5. WritesInv'
  BY <1>1, <1>2, <1>3, WritesBegin
<1>6. QED
  BY <1>1, <1>4, <1>5

LEMMA AtomBegins ==
  ASSUME AtomInv, NEW c \in Client, Acquire(c) \/ CallOnTx(c)
  PROVE  AtomInv'
<1> DEFINE f == Top(c)
<1>1. SafeInv' /\ SafeInv
  BY SafeBegin DEF AtomInv
<1>2. CASE Acquire(c)
  <2>1. PICK k \in free : tx' = [tx EXCEPT ![k] = <<{}>>] /\ Begun(c, k, 1)
    BY <1>2 DEF Acquire
  <2>2. /\ k \in Conn /\ Len(tx[k]) = 0
        /\ NextBlock(c) \in BlockId /\ 1 \in 1 .. MaxDepth
    BY <1>1, <1>2, FrameTypes, WithTxAssumption
       DEF Acquire, SafeInv, Waits, Stacks, PoolClean, TypeOK
  <2>3. tx'[k] = <<{}>> /\ Elsewhere(k)
    BY <1>1, <1>2, <2>1, <2>2 DEF Acquire, Elsewhere, SafeInv, TypeOK
  <2>4. Len(tx'[k]) = 1 /\ tx'[k][1] = {}
    BY <2>3
  <2>5. UNCHANGED <<dead, store, written>>
    BY <1>2 DEF Acquire
  <2>6. \A i \in 1 .. Len(tx[k]) : tx'[k][i] = tx[k][i]
    BY <2>2
  <2>7. QED
    BY <1>1, <2>1, <2>2, <2>3, <2>4, <2>5, <2>6, AtomBegin
<1>3. CASE CallOnTx(c)
  <2> DEFINE k == f.conn
             s == Append(tx[k], {})
  <2>1. frames[c] # <<>> /\ NextBlock(c) \in BlockId
    BY <1>3 DEF CallOnTx
  <2>2. CASE Reaches(f) /\ failed[k] = 0 /\ Len(tx[k]) < MaxDepth
    <3>1. /\ tx' = [tx EXCEPT ![k] = s] /\ Begun(c, k, Len(tx[k]) + 1)
          /\ UNCHANGED <<failed, dead, store, written>>
      BY <1>1, <1>3, <2>2 DEF CallOnTx, SafeInv, TypeOK
    <3>2. k \in Conn /\ tx[k] \in Seq(SUBSET Mark) /\ Len(tx[k]) + 1 \in 1 .. MaxDepth
      BY <1>1, <2>1, <2>2, TopFacts DEF SafeInv
    <3>3. /\ Len(s) = Len(tx[k]) + 1 /\ s[Len(tx[k]) + 1] = {}
          /\ \A i \in 1 .. Len(tx[k]) : s[i] = tx[k][i]
      BY <3>2, Pushed
    <3> HIDE DEF s
    <3>4. tx'[k] = s /\ Elsewhere(k)
      BY <1>1, <3>1, <3>2 DEF Elsewhere, SafeInv, TypeOK
    <3>5. Healthy(k)
      BY <2>2 DEF Reaches, Healthy
    <3>6. QED
      BY <1>1, <2>1, <3>1, <3>2, <3>3, <3>4, <3>5, AtomBegin
  <2>3. CASE ~(Reaches(f) /\ failed[k] = 0 /\ Len(tx[k]) < MaxDepth)
    <3>1. /\ Ends(c, NextBlock(c), "beginErr")
          /\ UNCHANGED <<frames, tx, failed, dead, store, written>>
      BY <1>3, <2>3 DEF CallOnTx
    <3>2. BlocksInv'
      BY <2>1, <3>1, BlocksFail DEF AtomInv
    <3>3. LevelsInv'
      BY <3>1 DEF AtomInv, LevelsInv, Contiguous, OnTop, Healthy, Depth
    <3>4. WritesInv'
      BY <2>1, <3>1, WritesFail DEF AtomInv
    <3>5. QED
      BY <1>1, <3>2, <3>3, <3>4 DEF AtomInv
  <2>4. QED
    BY <2>2, <2>3
<1>4. QED
  BY <1>2, <1>3

\* Connections may become unable to commit.
LEMMA AtomQuiet ==
  ASSUME AtomInv, SafeInv', UNCHANGED <<frames, tx, store, outcome, written>>,
         dead \subseteq dead',
         \A k \in Conn : failed'[k] = 0 => failed[k] = 0
  PROVE  AtomInv'
<1>1. BlocksInv'
  BY DEF AtomInv, BlocksInv, Awake, OwnBlocks, OneFrame, OpenHaveFrames, InOrder, Used, Depth
<1>2. LevelsInv'
  <2>1. \A c \in Client : \A i \in 1 .. Depth(c) : frames[c][i].conn \in Conn
    BY FrameTypes DEF AtomInv, SafeInv
  <2>2. QED
    BY <2>1 DEF AtomInv, LevelsInv, Contiguous, OnTop, Healthy, Depth
<1>3. WritesInv'
  BY DEF AtomInv, WritesInv, Named, Placed, Present, Together, Stored, OutcomeOf, Depth
<1>4. QED
  BY <1>1, <1>2, <1>3 DEF AtomInv

LEMMA AtomWrite ==
  ASSUME AtomInv, NEW c \in Client, Write(c)
  PROVE  AtomInv'
<1> DEFINE f == Top(c)
           k == f.conn
           m == <<c, f.b, Cardinality(written[c][f.b]) + 1>>
           s == tx[k]
           t == [s EXCEPT ![Len(s)] = s[Len(s)] \cup {m}]
<1>1. SafeInv /\ SafeInv'
  BY SafeQuiet DEF AtomInv
<1>2. /\ frames[c] # <<>> /\ Healthy(k)
      /\ tx' = [tx EXCEPT ![k][Len(tx[k])] = @ \cup {m}]
      /\ written' = [written EXCEPT ![c][f.b] = @ \cup {m}]
      /\ UNCHANGED <<frames, failed, dead, store, outcome>>
  BY DEF Write, Reaches, Healthy
<1>3. m[1] = c /\ m[2] = f.b
  OBVIOUS
<1> HIDE DEF m
<1>4. /\ Depth(c) \in 1 .. Depth(c) /\ f = frames[c][Depth(c)] /\ Depth(c) \in Nat
      /\ k \in Conn /\ f.b \in BlockId /\ s \in Seq(SUBSET Mark)
      /\ f.level \in 1 .. Len(s) /\ Len(s) \in Nat \ {0}
  BY <1>1, <1>2, TopFacts DEF SafeInv
<1>5. Len(s) = f.level
  <2>1. \A j \in (Depth(c) + 1) .. Depth(c) : FALSE
    BY <1>4
  <2>2. QED
    BY <1>2, <1>4, <2>1 DEF AtomInv, LevelsInv, OnTop
<1>6. outcome[c][f.b] = "open"
  BY <1>4 DEF AtomInv, BlocksInv, OwnBlocks
<1>7. tx' = [tx EXCEPT ![k] = t]
  BY <1>1, <1>2, <1>4 DEF SafeInv, TypeOK
<1>8. Len(t) = Len(s) /\ t[f.level] = s[f.level] \cup {m} /\ \A l \in 1 .. Len(s) : l # f.level => t[l] = s[l]
  BY <1>4, <1>5
<1> HIDE DEF t, s
<1>9. /\ \A j \in Conn : Len(tx'[j]) = Len(tx[j])
      /\ tx'[k][f.level] = tx[k][f.level] \cup {m}
      /\ \A j \in Conn : \A l \in 1 .. Len(tx[j]) :
           j # k \/ l # f.level => tx'[j][l] = tx[j][l]
  BY <1>1, <1>4, <1>7, <1>8 DEF SafeInv, TypeOK, s
<1>10. /\ written'[c][f.b] = written[c][f.b] \cup {m}
       /\ \A d \in Client : \A b \in BlockId : d # c \/ b # f.b => written'[d][b] = written[d][b]
  BY <1>1, <1>2, <1>4 DEF SafeInv, TypeOK
<1>11. BlocksInv'
  BY <1>2 DEF AtomInv, BlocksInv, Awake, OwnBlocks, OneFrame, OpenHaveFrames, InOrder, Used, Depth
<1>12. LevelsInv'
  <2>1. \A d \in Client : \A i \in 1 .. Depth(d) : frames[d][i].conn \in Conn
    BY <1>1, FrameTypes DEF SafeInv
  <2>2. QED
    BY <1>2, <1>9, <2>1 DEF AtomInv, LevelsInv, Contiguous, OnTop, Healthy, Depth
<1>13. Named'
  BY <1>2, <1>3, <1>6, <1>10 DEF AtomInv, WritesInv, Named
<1>14. \A i \in 1 .. Depth(c) : frames[c][i].b = f.b => i = Depth(c)
  BY <1>4 DEF AtomInv, BlocksInv, OneFrame
<1>15. Placed'
  <2> SUFFICES ASSUME NEW j \in Conn, NEW l \in 1 .. Len(tx[j]), NEW n \in tx'[j][l]
               PROVE  /\ OutcomeOf(n) \notin {"none", "beginErr"}
                      /\ OutcomeOf(n) \in {"err", "panic"} => j \in dead
                      /\ \A i \in 1 .. Depth(n[1]) : frames[n[1]][i].b = n[2] =>
                           frames[n[1]][i].conn = j /\ frames[n[1]][i].level = l
    BY <1>2, <1>9 DEF Placed, OutcomeOf, Depth
  <2>1. CASE n \in tx[j][l]
    BY <2>1 DEF AtomInv, WritesInv, Placed
  <2>2. CASE n = m /\ j = k /\ l = f.level
    <3>1. OutcomeOf(n) = "open"
      BY <1>3, <1>6, <2>2 DEF OutcomeOf
    <3>2. QED
      BY <1>3, <1>4, <1>14, <2>2, <3>1
  <2>3. QED
    BY <1>9, <2>1, <2>2
<1>16. Present'
  <2> SUFFICES ASSUME NEW d \in Client, NEW i \in 1 .. Depth(d)
               PROVE  written'[d][frames[d][i].b] \subseteq tx'[frames[d][i].conn][frames[d][i].level]
    BY <1>2 DEF Present, Depth
  <2> DEFINE g == frames[d][i]
  <2>1. /\ written[d][g.b] \subseteq tx[g.conn][g.level]
        /\ g.conn \in Conn /\ g.level \in 1 .. Len(tx[g.conn]) /\ g.b \in BlockId
    BY <1>1, FrameLevels, FrameTypes DEF AtomInv, SafeInv, WritesInv, Present
  <2>2. CASE d = c /\ g.b = f.b
    BY <1>4, <1>9, <1>10, <1>14, <2>1, <2>2
  <2>3. CASE d # c \/ g.b # f.b
    BY <1>9, <1>10, <2>1, <2>3
  <2>4. QED
    BY <2>2, <2>3
<1>17. Together'
  <2> SUFFICES ASSUME NEW d \in Client, NEW b \in BlockId, NEW j \in Conn, NEW l \in 1 .. Len(tx[j]),
                      written'[d][b] \cap tx'[j][l] # {}
               PROVE  written'[d][b] \subseteq tx'[j][l]
    BY <1>9 DEF Together
  <2>1. PICK n \in written'[d][b] : n \in tx'[j][l]
    OBVIOUS
  <2>2. n[1] = d /\ n[2] = b
    BY <1>13, <2>1 DEF Named
  <2>3. CASE d = c /\ b = f.b
    <3>1. j = k /\ l = f.level
      <4>1. \A i \in 1 .. Depth(n[1]) : frames[n[1]][i].b = n[2] =>
              frames[n[1]][i].conn = j /\ frames[n[1]][i].level = l
        <5>1. l \in 1 .. Len(tx'[j])
          BY <1>9
        <5>2. QED
          BY <1>2, <1>15, <2>1, <5>1 DEF Placed, Depth
      <4>2. QED
        BY <1>4, <2>2, <2>3, <4>1
    <3>2. QED
      BY <1>2, <1>4, <1>16, <2>3, <3>1 DEF Present, Depth
  <2>4. CASE d # c \/ b # f.b
    <3>1. n # m
      BY <1>3, <2>2, <2>4
    <3>2. n \in written[d][b] /\ n \in tx[j][l] /\ written'[d][b] = written[d][b]
      BY <1>9, <1>10, <2>1, <2>4, <3>1
    <3>3. written[d][b] \subseteq tx[j][l]
      BY <3>2 DEF AtomInv, WritesInv, Together
    <3>4. QED
      BY <1>9, <3>2, <3>3
  <2>5. QED
    BY <2>3, <2>4
<1>18. Stored'
  <2>1. \A n \in store : OutcomeOf(n) # "open"
    BY DEF AtomInv, WritesInv, Stored
  <2>2. \A n \in written'[c][f.b] : OutcomeOf(n) = "open"
    BY <1>2, <1>4, <1>6, <1>13 DEF Named, OutcomeOf
  <2>3. written'[c][f.b] \cap store = {}
    BY <2>1, <2>2
  <2>4. \A d \in Client : \A b \in BlockId :
          written'[d][b] \cap store # {} => written'[d][b] \subseteq store
    BY <1>10, <2>3 DEF AtomInv, WritesInv, Stored
  <2>5. QED
    BY <1>2, <2>4 DEF AtomInv, WritesInv, Stored, OutcomeOf
<1>19. QED
  BY <1>1, <1>11, <1>12, <1>13, <1>15, <1>16, <1>17, <1>18 DEF AtomInv, WritesInv
-----------------------------------------------------------------------------
(* The steps of Next keep AtomInv while no context ends *)

LEMMA AtomStep ==
  ASSUME ~CtxMayEnd
  PROVE  AtomInv /\ [Next]_vars => AtomInv'
<1> SUFFICES ASSUME AtomInv, [Next]_vars PROVE AtomInv'
  OBVIOUS
<1>1. SafeInv /\ SafeInv'
  BY SafeStep DEF AtomInv
<1>2. ASSUME NEW c \in Client, Ending(c) \/ Acquire(c) \/ CallOnTx(c) \/ Write(c)
      PROVE  AtomInv'
  BY <1>2, AtomEnding, AtomBegins, AtomWrite
<1>3. ASSUME NEW c \in Client, CallOnPool(c) \/ FnEnds(c)
      PROVE  AtomInv'
  BY <1>1, <1>3, AtomQuiet DEF CallOnPool, FnEnds
<1>4. ASSUME NEW c \in Client, StatementFails(c)
      PROVE  AtomInv'
  <2> DEFINE f == Top(c)
  <2>1. f.conn \in Conn /\ Len(tx[f.conn]) \in Nat /\ Len(tx[f.conn]) # 0
    BY <1>1, <1>4, TopFacts DEF StatementFails, SafeInv
  <2>2. failed' = [failed EXCEPT ![f.conn] = Len(tx[f.conn])]
    BY <1>4 DEF StatementFails
  <2>3. \A k \in Conn : failed'[k] = 0 => failed[k] = 0
    BY <1>1, <2>1, <2>2 DEF SafeInv, TypeOK
  <2>4. UNCHANGED <<frames, tx, dead, store, outcome, written>>
    BY <1>4 DEF StatementFails
  <2>5. QED
    BY <1>1, <2>3, <2>4, AtomQuiet
<1>5. CASE ConnLost
  BY <1>1, <1>5, AtomQuiet DEF ConnLost
<1>6. CASE UNCHANGED vars
  BY <1>1, <1>6, AtomQuiet DEF vars
<1>7. ASSUME NEW c \in Client, AcquireFails(c) \/ CtxEnds(c)
      PROVE  FALSE
  BY <1>7 DEF AcquireFails, CtxEnds
<1>8. QED
  BY <1>2, <1>3, <1>4, <1>5, <1>6, <1>7 DEF Next, Finished, InWithTx, InFn, Ending

LEMMA AtomInit == Init => AtomInv
<1> SUFFICES ASSUME Init PROVE AtomInv
  OBVIOUS
<1>1. SafeInv
  BY SafeInit
<1>2. \A c \in Client : Depth(c) = 0 /\ frames[c] = <<>>
  BY DEF Init, Depth
<1>3. \A c \in Client : \A b \in BlockId : outcome[c][b] = "none" /\ written[c][b] = {}
  BY DEF Init
<1>4. BlocksInv
  <2>1. \A c \in Client : Used(c) = 1 .. 0 /\ 0 \in 0 .. MaxBlocks
    BY <1>3, WithTxAssumption DEF Used
  <2>2. InOrder
    BY <2>1 DEF InOrder
  <2>3. Awake /\ OwnBlocks /\ OneFrame
    BY <1>2 DEF Awake, OwnBlocks, OneFrame
  <2>4. OpenHaveFrames
    BY <1>3 DEF OpenHaveFrames
  <2>5. QED
    BY <2>2, <2>3, <2>4 DEF BlocksInv
<1>5. LevelsInv
  BY <1>2 DEF LevelsInv, Contiguous, OnTop
<1>6. WritesInv
  <2>1. \A k \in Conn : Len(tx[k]) = 0
    BY DEF Init
  <2>2. store = {}
    BY DEF Init
  <2>3. QED
    BY <1>2, <1>3, <2>1, <2>2 DEF WritesInv, Named, Placed, Present, Together, Stored
<1>7. QED
  BY <1>1, <1>4, <1>5, <1>6 DEF AtomInv

LEMMA AtomAlways == ASSUME ~CtxMayEnd PROVE Spec => []AtomInv
BY AtomInit, AtomStep, PTL DEF Spec

\* core/dbtx.go:45-46: a block whose fn returned an error or panicked leaves
\* nothing in the store, as long as no context ends inside a block.
THEOREM NothingOfFailed == ASSUME ~CtxMayEnd PROVE Spec => []FailedBlocksLeaveNothing
<1>1. AtomInv => FailedBlocksLeaveNothing
  <2> SUFFICES ASSUME AtomInv, NEW x \in Blocks, OutcomeOf(x) \in {"err", "panic"},
                      NEW m \in WrittenBy(x) \cap store
               PROVE  FALSE
    BY DEF FailedBlocksLeaveNothing
  <2>1. PICK c \in Client, b \in BlockId : x = <<c, b>>
    BY DEF Blocks
  <2>2. m[1] = c /\ m[2] = b
    BY <2>1 DEF WrittenBy, AtomInv, WritesInv, Named
  <2>3. OutcomeOf(m) = OutcomeOf(x)
    BY <2>1, <2>2 DEF OutcomeOf
  <2>4. QED
    BY <2>3 DEF AtomInv, WritesInv, Stored
<1>2. QED
  BY <1>1, AtomAlways, PTL

\* core/dbtx.go:55-73: nothing of a block is visible while it runs, and it
\* becomes visible as a whole or not at all, as long as no context ends.
THEOREM AllOrNothing == ASSUME ~CtxMayEnd PROVE Spec => []NoPartialBlock
<1>1. AtomInv => NoPartialBlock
  <2> SUFFICES ASSUME AtomInv, NEW x \in Blocks
               PROVE  /\ OutcomeOf(x) = "open" => WrittenBy(x) \cap store = {}
                      /\ WrittenBy(x) \cap store # {} => WrittenBy(x) \subseteq store
    BY DEF NoPartialBlock
  <2>1. PICK c \in Client, b \in BlockId : x = <<c, b>>
    BY DEF Blocks
  <2>2. ASSUME NEW m \in WrittenBy(x) PROVE OutcomeOf(m) = OutcomeOf(x)
    <3>1. m[1] = c /\ m[2] = b
      BY <2>1 DEF WrittenBy, AtomInv, WritesInv, Named
    <3>2. QED
      BY <2>1, <3>1 DEF OutcomeOf
  <2>3. OutcomeOf(x) = "open" => WrittenBy(x) \cap store = {}
    BY <2>2 DEF AtomInv, WritesInv, Stored
  <2>4. WrittenBy(x) \cap store # {} => WrittenBy(x) \subseteq store
    BY <2>1 DEF WrittenBy, AtomInv, WritesInv, Stored
  <2>5. QED
    BY <2>3, <2>4
<1>2. QED
  BY <1>1, AtomAlways, PTL

\* The writes of a block are numbered, and what is on a stack was written.
Counted ==
  \A c \in Client : \A b \in BlockId :
    /\ IsFiniteSet(written[c][b])
    /\ \A m \in written[c][b] : m[3] <= Cardinality(written[c][b])
Traced ==
  \A k \in Conn : \A l \in 1 .. Len(tx[k]) : \A m \in tx[k][l] : m \in written[m[1]][m[2]]
RefInv == AtomInv /\ Counted /\ Traced
-----------------------------------------------------------------------------
(* RefInv *)

LEMMA CountedWrite ==
  ASSUME RefInv, NEW c \in Client, Write(c)
  PROVE  Counted'
<1> DEFINE b == Top(c).b
           w == written[c][b]
           m == <<c, b, Cardinality(w) + 1>>
<1>1. b \in BlockId /\ written' = [written EXCEPT ![c][b] = @ \cup {m}]
  BY TopFacts DEF RefInv, AtomInv, SafeInv, Write
<1>2. IsFiniteSet(w) /\ \A n \in w : n[3] <= Cardinality(w)
  BY <1>1 DEF RefInv, Counted
<1>3. Cardinality(w) \in Nat
  BY <1>2, FS_CardinalityType
<1>4. m \notin w
  BY <1>2, <1>3
<1>5. IsFiniteSet(w \cup {m}) /\ Cardinality(w \cup {m}) = Cardinality(w) + 1
  BY <1>2, <1>4, FS_AddElement
<1>6. \A n \in w : n[3] \in Nat
  BY <1>1 DEF RefInv, AtomInv, SafeInv, TypeOK, Mark
<1>7. \A n \in w \cup {m} : n[3] <= Cardinality(w \cup {m})
  BY <1>2, <1>3, <1>5, <1>6
<1> HIDE DEF m
<1>8. /\ written'[c][b] = w \cup {m}
      /\ \A d \in Client : \A e \in BlockId : d # c \/ e # b => written'[d][e] = written[d][e]
  BY <1>1 DEF RefInv, AtomInv, SafeInv, TypeOK
<1>9. QED
  BY <1>5, <1>7, <1>8 DEF RefInv, Counted

LEMMA TracedWrite ==
  ASSUME RefInv, NEW c \in Client, Write(c)
  PROVE  Traced'
<1> DEFINE f == Top(c)
           k == f.conn
           m == <<c, f.b, Cardinality(written[c][f.b]) + 1>>
           s == tx[k]
           t == [s EXCEPT ![Len(s)] = s[Len(s)] \cup {m}]
<1>1. /\ f.b \in BlockId /\ k \in Conn /\ s \in Seq(SUBSET Mark) /\ Len(s) \in 1 .. Len(s)
  BY TopFacts DEF RefInv, AtomInv, SafeInv, Write
<1>2. /\ tx' = [tx EXCEPT ![k][Len(tx[k])] = @ \cup {m}]
      /\ written' = [written EXCEPT ![c][f.b] = @ \cup {m}]
  BY DEF Write
<1>3. m[1] = c /\ m[2] = f.b
  OBVIOUS
<1> HIDE DEF m
<1>4. tx' = [tx EXCEPT ![k] = t]
  BY <1>1, <1>2 DEF RefInv, AtomInv, SafeInv, TypeOK
<1>5. Len(t) = Len(s) /\ \A l \in 1 .. Len(s) : t[l] \subseteq s[l] \cup {m}
  BY <1>1
<1> HIDE DEF s, t
<1>6. \A j \in Conn : Len(tx'[j]) = Len(tx[j]) /\ \A l \in 1 .. Len(tx[j]) : tx'[j][l] \subseteq tx[j][l] \cup {m}
  BY <1>1, <1>4, <1>5 DEF RefInv, AtomInv, SafeInv, TypeOK, s
<1>7. /\ m \in written'[m[1]][m[2]]
      /\ \A d \in Client : \A e \in BlockId : written[d][e] \subseteq written'[d][e]
  BY <1>1, <1>2, <1>3 DEF RefInv, AtomInv, SafeInv, TypeOK
<1>8. \A j \in Conn : \A l \in 1 .. Len(tx[j]) : \A n \in tx[j][l] :
        n[1] \in Client /\ n[2] \in BlockId /\ n \in written[n[1]][n[2]]
  BY StackTypes, MarkTypes DEF RefInv, AtomInv, SafeInv, Traced
<1>9. QED
  BY <1>6, <1>7, <1>8 DEF Traced

\* The sets of a stack are those of the stack before, whole or united.
LEMMA TracedStep ==
  ASSUME RefInv, written' = written,
         \A k \in Conn : \A l \in 1 .. Len(tx'[k]) : \A m \in tx'[k][l] :
           \E j \in 1 .. Len(tx[k]) : m \in tx[k][j]
  PROVE  Counted' /\ Traced'
BY DEF RefInv, Counted, Traced

LEMMA TracedEnd ==
  ASSUME RefInv, NEW c \in Client, frames[c] # <<>>, Elsewhere(Top(c).conn), written' = written,
         Released(Top(c)) \/ CutOff(Top(c)) \/ Merged(Top(c)) \/ Left(Top(c))
  PROVE  Counted' /\ Traced'
<1> SUFFICES ASSUME NEW k \in Conn, NEW l \in 1 .. Len(tx'[k]), NEW m \in tx'[k][l]
             PROVE  \E j \in 1 .. Len(tx[k]) : m \in tx[k][j]
  BY TracedStep
<1>1. SafeInv
  BY DEF RefInv, AtomInv
<1>2. CASE l \in 1 .. Len(tx[k]) /\ tx'[k][l] = tx[k][l]
  BY <1>2
<1>3. CASE Merged(Top(c)) /\ l = Top(c).level - 1 /\ tx'[k][l] = WritesFrom(k, l)
  <2>1. l \in Nat \ {0}
    BY <1>1, <1>3, TopFacts DEF SafeInv, Merged
  <2>2. QED
    BY <1>1, <1>3, <2>1, InWritesFrom
<1>4. QED
  BY <1>1, <1>2, <1>3, Origins

LEMMA TracedBegins ==
  ASSUME RefInv, NEW c \in Client, Acquire(c) \/ CallOnTx(c)
  PROVE  Counted' /\ Traced'
<1> DEFINE k == Top(c).conn
<1>1. SafeInv /\ written' = written
  BY DEF RefInv, AtomInv, Acquire, CallOnTx
<1>2. CASE Acquire(c)
  <2>1. PICK j \in free : tx' = [tx EXCEPT ![j] = <<{}>>]
    BY <1>2 DEF Acquire
  <2>2. \A i \in Conn : tx'[i] = tx[i] \/ tx'[i] = <<{}>>
    BY <1>1, <2>1 DEF SafeInv, TypeOK
  <2>3. \A i \in Conn : \A l \in 1 .. Len(tx'[i]) : \A m \in tx'[i][l] :
          \E n \in 1 .. Len(tx[i]) : m \in tx[i][n]
    BY <2>2
  <2>4. QED
    BY <1>1, <2>3, TracedStep
<1>3. CASE CallOnTx(c) /\ tx' = tx
  BY <1>1, <1>3, TracedStep
<1>4. CASE CallOnTx(c) /\ tx' = [tx EXCEPT ![k] = Append(@, {})]
  <2> DEFINE s == Append(tx[k], {})
  <2>1. k \in Conn /\ tx[k] \in Seq(SUBSET Mark)
    BY <1>1, <1>4, TopFacts DEF SafeInv, CallOnTx
  <2>2. /\ Len(s) = Len(tx[k]) + 1 /\ s[Len(tx[k]) + 1] = {}
        /\ \A i \in 1 .. Len(tx[k]) : s[i] = tx[k][i]
    BY <2>1, Pushed
  <2>3. tx'[k] = s /\ \A j \in Conn \ {k} : tx'[j] = tx[j]
    BY <1>1, <1>4, <2>1 DEF SafeInv, TypeOK
  <2> HIDE DEF s, k
  <2>4. Len(tx[k]) \in Nat
    BY <2>1
  <2>5. ASSUME NEW j \in Conn, NEW l \in 1 .. Len(tx'[j]), NEW m \in tx'[j][l]
        PROVE  \E n \in 1 .. Len(tx[j]) : m \in tx[j][n]
    BY <2>2, <2>3, <2>4, <2>5
  <2>6. QED
    BY <1>1, <2>5, TracedStep
<1>5. QED
  BY <1>2, <1>3, <1>4 DEF CallOnTx

\* How the four ways in which a block can end move connections.
LEMMA EndingParts ==
  ASSUME AtomInv, NEW c \in Client, Ending(c)
  PROVE  /\ frames[c] # <<>> /\ Pop(c) /\ Elsewhere(Top(c).conn) /\ written' = written
         /\ \/ /\ Released(Top(c)) \/ CutOff(Top(c)) \/ Left(Top(c))
               /\ store' = store
               /\ \E o \in {"err", "panic", "commitErr"} : Ends(c, Top(c).b, o)
            \/ /\ Released(Top(c)) /\ Healthy(Top(c).conn)
               /\ store' = store \cup WritesFrom(Top(c).conn, 1)
               /\ Ends(c, Top(c).b, "ok") \/ Ends(c, Top(c).b, "commitErr")
            \/ /\ Merged(Top(c)) /\ Healthy(Top(c).conn)
               /\ store' = store /\ Ends(c, Top(c).b, "ok")
<1> DEFINE f == Top(c)
<1>1. SafeInv
  BY DEF AtomInv
<1>2. frames[c] # <<>>
  BY DEF AtomInv, SafeInv, Ending, RollbackOnError, RollbackOnPanic, Commit, CommitFails,
         CommitAnswerLost, Waits
<1>3. Pop(c) /\ written' = written
  BY DEF Ending, RollbackOnError, RollbackOnPanic, Commit, CommitFails, CommitAnswerLost
<1>4. CASE RollbackOnError(c) \/ RollbackOnPanic(c)
  <2>1. /\ UndoTop(c) /\ store' = store
        /\ \E o \in {"err", "panic", "commitErr"} : Ends(c, f.b, o)
    BY <1>4 DEF RollbackOnError, RollbackOnPanic
  <2>2. QED
    BY <1>2, <1>3, <2>1, UndoEnds
<1>5. CASE CommitFails(c)
  <2>1. /\ store' = store /\ Ends(c, f.b, "commitErr")
        /\ IF f.level = 1 THEN Release(f.conn) ELSE KeepConns
    BY <1>5 DEF CommitFails
  <2>2. ~Healthy(f.conn)
    <3>1. ~f.done
      BY <1>2, TopFacts DEF AtomInv, SafeInv, BlocksInv, Awake
    <3>2. QED
      BY <1>5, <3>1 DEF CommitFails, Reaches, Healthy
  <2>3. QED
    BY <1>1, <1>2, <1>3, <2>1, <2>2, ReleaseEnds, LeaveEnds
<1>6. CASE Commit(c) /\ f.level # 1
  <2>1. /\ Healthy(f.conn) /\ Ends(c, f.b, "ok") /\ UNCHANGED <<store, failed, dead>>
        /\ tx' = [tx EXCEPT ![f.conn] =
             Append(SubSeq(@, 1, f.level - 2), WritesFrom(f.conn, f.level - 1))]
    BY <1>6 DEF Commit, Reaches, Healthy
  <2>2. QED
    BY <1>1, <1>2, <1>3, <1>6, <2>1, MergeEnds
<1>7. CASE (Commit(c) /\ f.level = 1) \/ CommitAnswerLost(c)
  <2>1. /\ f.level = 1 /\ Healthy(f.conn) /\ Release(f.conn)
        /\ store' = store \cup WritesFrom(f.conn, 1)
        /\ Ends(c, f.b, "ok") \/ Ends(c, f.b, "commitErr")
    BY <1>7 DEF Commit, CommitAnswerLost, Reaches, Healthy
  <2>2. QED
    BY <1>1, <1>2, <1>3, <2>1, ReleaseEnds
<1>8. QED
  BY <1>4, <1>5, <1>6, <1>7 DEF Ending

LEMMA RefStep ==
  ASSUME ~CtxMayEnd
  PROVE  RefInv /\ [Next]_vars => RefInv'
<1> SUFFICES ASSUME RefInv, [Next]_vars PROVE RefInv'
  OBVIOUS
<1>1. AtomInv /\ AtomInv'
  BY AtomStep DEF RefInv
<1>2. ASSUME NEW c \in Client, Write(c)
      PROVE  Counted' /\ Traced'
  BY <1>2, CountedWrite, TracedWrite
<1>3. ASSUME NEW c \in Client, Ending(c)
      PROVE  Counted' /\ Traced'
  BY <1>1, <1>3, EndingParts, TracedEnd
<1>4. ASSUME NEW c \in Client, Acquire(c) \/ CallOnTx(c)
      PROVE  Counted' /\ Traced'
  BY <1>4, TracedBegins
<1>5. ASSUME written' = written, tx' = tx
      PROVE  Counted' /\ Traced'
  BY <1>5, TracedStep
<1>6. ASSUME NEW c \in Client, CallOnPool(c) \/ FnEnds(c) \/ StatementFails(c)
      PROVE  written' = written /\ tx' = tx
  BY <1>6 DEF CallOnPool, FnEnds, StatementFails
<1>7. ASSUME NEW c \in Client, AcquireFails(c) \/ CtxEnds(c)
      PROVE  FALSE
  BY <1>7 DEF AcquireFails, CtxEnds
<1>8. ConnLost \/ UNCHANGED vars => written' = written /\ tx' = tx
  BY DEF ConnLost, vars
<1>9. Counted' /\ Traced'
  BY <1>2, <1>3, <1>4, <1>5, <1>6, <1>7, <1>8 DEF Next, Finished, InWithTx, InFn, Ending
<1>10. QED
  BY <1>1, <1>9 DEF RefInv

LEMMA RefInit == Init => RefInv
<1> SUFFICES ASSUME Init PROVE RefInv
  OBVIOUS
<1>1. AtomInv
  BY AtomInit
<1>2. \A c \in Client : \A b \in BlockId : written[c][b] = {}
  BY DEF Init
<1>3. Counted
  BY <1>2, FS_EmptySet DEF Counted
<1>4. \A k \in Conn : Len(tx[k]) = 0
  BY DEF Init
<1>5. Traced
  BY <1>4 DEF Traced
<1>6. QED
  BY <1>1, <1>3, <1>5 DEF RefInv

LEMMA RefAlways == ASSUME ~CtxMayEnd PROVE Spec => []RefInv
BY RefInit, RefStep, PTL DEF Spec

\* core/dbtx.go:70-73: when the outermost block returns nil, everything its fn
\* wrote is in the store, as long as no context ends inside a block.
THEOREM Durable == ASSUME ~CtxMayEnd PROVE Spec => SuccessIsDurable
<1> DEFINE Durably(c) == Commit(c) /\ RootOf(c, Depth(c)) => written[c][Top(c).b] \subseteq store'
<1>1. AtomInv /\ [Next]_vars => [\A c \in Client : Durably(c)]_vars
  <2> SUFFICES ASSUME AtomInv, NEW c \in Client, Commit(c), RootOf(c, Depth(c))
               PROVE  written[c][Top(c).b] \subseteq store'
    OBVIOUS
  <2> DEFINE f == Top(c)
  <2>1. SafeInv /\ frames[c] # <<>>
    BY DEF AtomInv, SafeInv, Waits, Commit
  <2>2. /\ Depth(c) \in 1 .. Depth(c) /\ f = frames[c][Depth(c)]
        /\ f.conn \in Conn /\ f.level \in 1 .. Len(tx[f.conn])
    BY <2>1, TopFacts DEF SafeInv
  <2>3. f.level = 1 /\ store' = store \cup WritesFrom(f.conn, 1)
    BY <2>2 DEF Commit, RootOf
  <2>4. written[c][f.b] \subseteq tx[f.conn][1]
    BY <2>2, <2>3 DEF AtomInv, WritesInv, Present
  <2>5. tx[f.conn][1] \subseteq WritesFrom(f.conn, 1)
    BY <2>1, <2>2, <2>3, InWritesFrom
  <2>6. QED
    BY <2>3, <2>4, <2>5
<1>2. QED
  BY <1>1, AtomAlways, PTL DEF Spec, SuccessIsDurable
-----------------------------------------------------------------------------
(* The blocks of TxContract that stand for the open frames *)

Entry(c, i) ==
  [b |-> frames[c][i].b, root |-> RootOf(c, i),
   w |-> tx[frames[c][i].conn][frames[c][i].level]]
Entries == [b : BlockId, root : BOOLEAN, w : SUBSET Mark]

LEMMA SameSeq ==
  ASSUME NEW S, NEW s \in Seq(S), NEW t \in Seq(S), Len(s) = Len(t),
         \A i \in 1 .. Len(s) : s[i] = t[i]
  PROVE  s = t
OBVIOUS

LEMMA FunSeq ==
  ASSUME NEW S, NEW n \in Nat, NEW s, s = [i \in 1 .. n |-> s[i]],
         \A i \in 1 .. n : s[i] \in S
  PROVE  s \in Seq(S) /\ Len(s) = n
OBVIOUS

WorkTyped ==
  \A c \in Client :
    /\ Work[c] \in Seq(Entries) /\ Len(Work[c]) = Depth(c)
    /\ \A i \in 1 .. Depth(c) : Work[c][i] = Entry(c, i)

LEMMA WorkTypes == SafeInv => WorkTyped
<1> SUFFICES ASSUME SafeInv, NEW c \in Client
             PROVE  /\ Work[c] \in Seq(Entries) /\ Len(Work[c]) = Depth(c)
                    /\ \A i \in 1 .. Depth(c) : Work[c][i] = Entry(c, i)
  BY DEF WorkTyped
<1>1. Depth(c) \in Nat
  BY FrameTypes DEF SafeInv
<1>2. \A i \in 1 .. Depth(c) : Entry(c, i) \in Entries
  <2> SUFFICES ASSUME NEW i \in 1 .. Depth(c) PROVE Entry(c, i) \in Entries
    OBVIOUS
  <2> DEFINE g == frames[c][i]
  <2>1. g.b \in BlockId /\ g.conn \in Conn /\ g.level \in 1 .. Len(tx[g.conn])
    BY FrameTypes, FrameLevels DEF SafeInv
  <2>2. tx[g.conn][g.level] \in SUBSET Mark
    BY <2>1, StackTypes DEF SafeInv
  <2>3. QED
    BY <2>1, <2>2 DEF Entry, Entries, RootOf
<1>3. Work[c] = [i \in 1 .. Depth(c) |-> Entry(c, i)]
  BY DEF Work, Entry
<1>4. \A i \in 1 .. Depth(c) : Work[c][i] = Entry(c, i)
  BY <1>3
<1>5. Work[c] = [i \in 1 .. Depth(c) |-> Work[c][i]]
  BY <1>3
<1>6. QED
  BY <1>1, <1>2, <1>4, <1>5, FunSeq

LEMMA WorkTypesNext == SafeInv' => WorkTyped'
BY WorkTypes, PTL

\* The frame keeps its place and what its block wrote.
Stays(c, i) ==
  /\ i \in 1 .. Depth(c)' /\ frames'[c][i] = frames[c][i]
  /\ tx'[frames[c][i].conn][frames[c][i].level] = tx[frames[c][i].conn][frames[c][i].level]

LEMMA EntryStays == ASSUME NEW c \in Client, NEW i, Stays(c, i) PROVE Entry(c, i)' = Entry(c, i)
BY DEF Stays, Entry, RootOf

LEMMA WorkStays ==
  ASSUME SafeInv, SafeInv', NEW c \in Client, Depth(c)' = Depth(c),
         \A i \in 1 .. Depth(c) : Stays(c, i)
  PROVE  Work'[c] = Work[c]
<1>1. \A i \in 1 .. Depth(c) : Entry(c, i)' = Entry(c, i)
  BY EntryStays
<1>2. WorkTyped /\ WorkTyped'
  BY WorkTypes, WorkTypesNext
<1>3. QED
  BY <1>1, <1>2, SameSeq DEF WorkTyped

\* A step of client c changes no work but its own.
LEMMA WorkOfOne ==
  ASSUME NEW c \in Client, NEW s, Work'[c] = s, \A d \in Client \ {c} : Work'[d] = Work[d]
  PROVE  Work' = [Work EXCEPT ![c] = s]
<1>1. Work = [d \in Client |-> Work[d]] /\ Work' = [d \in Client |-> Work'[d]]
  BY DEF Work
<1>2. QED
  BY <1>1

LEMMA WorkKept == ASSUME UNCHANGED <<frames, tx>> PROVE Work' = Work
BY DEF Work, Depth, RootOf

\* The block that is open innermost.
LEMMA TopWork ==
  ASSUME SafeInv, NEW c \in Client, frames[c] # <<>>
  PROVE  /\ Work[c] # <<>> /\ Work[c] \in Seq(Entries) /\ Len(Work[c]) = Depth(c)
         /\ Contract!Top(c) = Entry(c, Depth(c))
         /\ Contract!Top(c).b = Top(c).b
         /\ Contract!Top(c).root = (Top(c).level = 1)
         /\ Contract!Top(c).w = tx[Top(c).conn][Top(c).level]
<1>1. Depth(c) \in Nat \ {0} /\ Depth(c) \in 1 .. Depth(c) /\ Top(c) = frames[c][Depth(c)]
  BY TopFacts DEF SafeInv
<1>2. /\ Work[c] \in Seq(Entries) /\ Len(Work[c]) = Depth(c)
      /\ Work[c][Depth(c)] = Entry(c, Depth(c))
  BY <1>1, WorkTypes DEF WorkTyped
<1>3. Contract!Top(c) = Entry(c, Depth(c))
  BY <1>2 DEF Contract!Top
<1>4. QED
  BY <1>1, <1>2, <1>3, EmptySeq DEF Entry, RootOf
-----------------------------------------------------------------------------
(* Each step is one of TxContract, or none *)

LEMMA RefinesOpen ==
  ASSUME AtomInv, SafeInv', NEW c \in Client, NEW f \in Frame, f.b = NextBlock(c),
         PushFrame(c, f), Ends(c, f.b, "open"), Elsewhere(f.conn), store' = store,
         tx'[f.conn][f.level] = {}, \A l \in 1 .. Len(tx[f.conn]) : tx'[f.conn][l] = tx[f.conn][l],
         f.level = 1 \/ frames[c] # <<>>
  PROVE  Contract!Open(c)
<1> DEFINE e == [b |-> f.b, root |-> f.level = 1, w |-> {}]
<1>1. SafeInv /\ f.b \in BlockId /\ e \in Entries /\ Depth(c) \in Nat
  BY FrameTypes DEF AtomInv, SafeInv, Frame, Entries
<1>2. outcome[c][f.b] = "none"
  BY <1>1, Fresh DEF AtomInv, SafeInv, BlocksInv
<1>3. \A d \in Client : \A i \in 1 .. Depth(d) : Stays(d, i)
  <2> SUFFICES ASSUME NEW d \in Client, NEW i \in 1 .. Depth(d) PROVE Stays(d, i)
    OBVIOUS
  <2>1. i \in 1 .. Depth(d)' /\ frames'[d][i] = frames[d][i]
    BY <1>1, PushFrames DEF SafeInv
  <2> DEFINE g == frames[d][i]
  <2>2. g.conn \in Conn /\ g.level \in 1 .. Len(tx[g.conn])
    BY <1>1, FrameLevels
  <2>3. tx'[g.conn][g.level] = tx[g.conn][g.level]
    <3>1. CASE g.conn = f.conn
      BY <2>2, <3>1
    <3>2. CASE g.conn # f.conn
      BY <2>2, <3>2 DEF Elsewhere
    <3>3. QED
      BY <3>1, <3>2
  <2>4. QED
    BY <2>1, <2>3 DEF Stays
<1>4. \A d \in Client \ {c} : Work'[d] = Work[d]
  <2>1. \A d \in Client \ {c} : Depth(d)' = Depth(d)
    BY <1>1 DEF PushFrame, Depth, SafeInv, TypeOK
  <2>2. QED
    BY <1>1, <1>3, <2>1, WorkStays
<1>5. Depth(c)' = Depth(c) + 1 /\ \A n : n = Depth(c) + 1 => Entry(c, n)' = e
  <2>1. Depth(c)' = Depth(c) + 1 /\ frames'[c][Depth(c) + 1] = f
    BY <1>1, PushFrames DEF SafeInv
  <2>2. QED
    BY <2>1 DEF Entry, RootOf
<1> HIDE DEF e
<1>6. Work'[c] = Append(Work[c], e)
  <2>1. /\ Work[c] \in Seq(Entries) /\ Work'[c] \in Seq(Entries)
        /\ Len(Work[c]) = Depth(c) /\ Len(Work'[c]) = Depth(c) + 1
        /\ \A i \in 1 .. Depth(c) : Work[c][i] = Entry(c, i)
        /\ \A i \in 1 .. (Depth(c) + 1) : Work'[c][i] = Entry(c, i)'
    BY <1>1, <1>5, WorkTypes, WorkTypesNext DEF WorkTyped
  <2>2. /\ Append(Work[c], e) \in Seq(Entries) /\ Len(Append(Work[c], e)) = Depth(c) + 1
        /\ \A i \in 1 .. Depth(c) : Append(Work[c], e)[i] = Work[c][i]
        /\ Append(Work[c], e)[Depth(c) + 1] = e
    BY <1>1, <2>1, Pushed
  <2>3. \A i \in 1 .. Depth(c) : Entry(c, i)' = Entry(c, i)
    BY <1>3, EntryStays
  <2>4. \A i \in 1 .. (Depth(c) + 1) : i \in 1 .. Depth(c) \/ i = Depth(c) + 1
    BY <1>1
  <2>5. \A i \in 1 .. (Depth(c) + 1) : Work'[c][i] = Append(Work[c], e)[i]
    BY <1>5, <2>1, <2>2, <2>3, <2>4
  <2>6. QED
    BY <2>1, <2>2, <2>5, SameSeq
<1>7. Work' = [Work EXCEPT ![c] = Append(Work[c], e)]
  BY <1>4, <1>6, WorkOfOne
<1>8. f.level = 1 \/ Work[c] # <<>>
  BY <1>1, TopWork
<1>9. QED
  BY <1>1, <1>2, <1>7, <1>8 DEF Contract!Open, Contract!Ends, Ends, e

LEMMA RefinesOpenFails ==
  ASSUME AtomInv, NEW c \in Client, NextBlock(c) \in BlockId,
         Ends(c, NextBlock(c), "beginErr"), UNCHANGED <<frames, tx, store>>
  PROVE  Contract!OpenFails(c)
<1>1. outcome[c][NextBlock(c)] = "none"
  BY Fresh DEF AtomInv, SafeInv, BlocksInv
<1>2. QED
  BY <1>1, WorkKept DEF Contract!OpenFails, Contract!Ends, Ends

LEMMA RefinesBegins ==
  ASSUME RefInv, SafeInv', NEW c \in Client, Acquire(c) \/ CallOnTx(c)
  PROVE  Contract!Open(c) \/ Contract!OpenFails(c)
<1>1. AtomInv /\ SafeInv
  BY DEF RefInv, AtomInv
<1>2. CASE Acquire(c)
  <2>1. PICK k \in free : tx' = [tx EXCEPT ![k] = <<{}>>] /\ Begun(c, k, 1)
    BY <1>2 DEF Acquire
  <2> DEFINE f == NewFrame(c, k, 1)
  <2>2. /\ k \in Conn /\ Len(tx[k]) = 0
        /\ NextBlock(c) \in BlockId /\ 1 \in 1 .. MaxDepth
    BY <1>1, <1>2, FrameTypes, WithTxAssumption
       DEF Acquire, SafeInv, Waits, Stacks, PoolClean, TypeOK
  <2>3. f \in Frame /\ PushFrame(c, f)
    BY <1>1, <2>1, <2>2, BlocksBegin DEF AtomInv
  <2>4. f.b = NextBlock(c) /\ f.conn = k /\ f.level = 1
    BY DEF NewFrame
  <2>5. Ends(c, f.b, "open")
    BY <2>1, <2>4 DEF Begun
  <2> HIDE DEF f
  <2>6. tx'[k] = <<{}>> /\ Elsewhere(k)
    BY <1>1, <1>2, <2>1, <2>2 DEF Acquire, Elsewhere, SafeInv, TypeOK
  <2>7. tx'[k][1] = {} /\ store' = store /\ \A l \in 1 .. Len(tx[k]) : tx'[k][l] = tx[k][l]
    BY <1>2, <2>2, <2>6 DEF Acquire
  <2>8. QED
    BY <1>1, <2>3, <2>4, <2>5, <2>6, <2>7, RefinesOpen
<1>3. CASE CallOnTx(c)
  <2> DEFINE k == Top(c).conn
             s == Append(tx[k], {})
             l == Len(tx[k]) + 1
             f == NewFrame(c, k, l)
  <2>1. frames[c] # <<>> /\ NextBlock(c) \in BlockId
    BY <1>3 DEF CallOnTx
  <2>2. CASE Reaches(Top(c)) /\ failed[k] = 0 /\ Len(tx[k]) < MaxDepth
    <3>1. /\ tx' = [tx EXCEPT ![k] = s] /\ Begun(c, k, l)
          /\ UNCHANGED <<failed, dead, store, written>>
      BY <1>1, <1>3, <2>2 DEF CallOnTx, SafeInv, TypeOK
    <3>2. k \in Conn /\ tx[k] \in Seq(SUBSET Mark) /\ l \in 1 .. MaxDepth
      BY <1>1, <2>1, <2>2, TopFacts DEF SafeInv
    <3>3. s[l] = {} /\ \A i \in 1 .. Len(tx[k]) : s[i] = tx[k][i]
      BY <3>2, Pushed
    <3>4. f \in Frame /\ PushFrame(c, f)
      BY <1>1, <2>1, <3>1, <3>2, BlocksBegin DEF AtomInv
    <3>5. f.b = NextBlock(c) /\ f.conn = k /\ f.level = l
      BY DEF NewFrame
    <3>6. Ends(c, f.b, "open")
      BY <3>1, <3>5 DEF Begun
    <3> HIDE DEF f, s
    <3>7. tx'[k] = s /\ Elsewhere(k)
      BY <1>1, <3>1, <3>2 DEF Elsewhere, SafeInv, TypeOK
    <3> HIDE DEF l
    <3>8. QED
      BY <1>1, <2>1, <3>1, <3>3, <3>4, <3>5, <3>6, <3>7, RefinesOpen
  <2>3. CASE ~(Reaches(Top(c)) /\ failed[k] = 0 /\ Len(tx[k]) < MaxDepth)
    <3>1. Ends(c, NextBlock(c), "beginErr") /\ UNCHANGED <<frames, tx, store>>
      BY <1>3, <2>3 DEF CallOnTx
    <3>2. QED
      BY <1>1, <2>1, <3>1, RefinesOpenFails
  <2>4. QED
    BY <2>2, <2>3
<1>4. QED
  BY <1>2, <1>3

LEMMA Wider ==
  ASSUME NEW r \in Entries, NEW w
  PROVE  [r EXCEPT !.w = r.w \cup w] = [b |-> r.b, root |-> r.root, w |-> r.w \cup w]
<1>1. r = [b |-> r.b, root |-> r.root, w |-> r.w]
  BY DEF Entries
<1>2. QED
  BY <1>1

\* Two sequences that differ in their last element.
LEMMA LastChanged ==
  ASSUME NEW S, NEW s \in Seq(S), NEW t \in Seq(S), NEW n \in Nat, n > 0,
         Len(s) = n, Len(t) = n, \A i \in 1 .. (n - 1) : t[i] = s[i]
  PROVE  t = [s EXCEPT ![n] = t[n]]
<1> DEFINE u == [s EXCEPT ![n] = t[n]]
<1>1. t[n] \in S /\ n \in 1 .. Len(s)
  OBVIOUS
<1>2. /\ u \in Seq(S) /\ Len(u) = n
      /\ \A i \in 1 .. Len(s) : u[i] = IF i = n THEN t[n] ELSE s[i]
  BY <1>1
<1> HIDE DEF u
<1>3. \A i \in 1 .. n : i \in 1 .. (n - 1) \/ i = n
  OBVIOUS
<1>4. \A i \in 1 .. n : t[i] = u[i]
  BY <1>2, <1>3
<1>5. t = u
  BY <1>2, <1>4, SameSeq
<1>6. QED
  BY <1>5 DEF u

LEMMA RefinesWrite ==
  ASSUME RefInv, SafeInv', NEW c \in Client, Write(c)
  PROVE  Contract!Add(c)
<1> DEFINE f == Top(c)
           k == f.conn
           n == Depth(c)
           m == <<c, f.b, Cardinality(written[c][f.b]) + 1>>
           s == tx[k]
           t == [s EXCEPT ![Len(s)] = s[Len(s)] \cup {m}]
<1>1. SafeInv /\ AtomInv
  BY DEF RefInv, AtomInv
<1>2. /\ frames[c] # <<>> /\ Healthy(k) /\ m \in Mark
      /\ tx' = [tx EXCEPT ![k][Len(tx[k])] = @ \cup {m}]
      /\ UNCHANGED <<frames, store, outcome>>
  BY DEF Write, Reaches, Healthy
<1>3. /\ n \in 1 .. n /\ n \in Nat /\ f = frames[c][n] /\ f.b \in BlockId
      /\ k \in Conn /\ s \in Seq(SUBSET Mark)
      /\ f.level \in 1 .. Len(s) /\ Len(s) \in Nat \ {0}
  BY <1>1, <1>2, TopFacts DEF SafeInv
<1>4. m \notin written[c][f.b] /\ m[1] = c /\ m[2] = f.b
  <2>1. IsFiniteSet(written[c][f.b]) /\ \A x \in written[c][f.b] : x[3] <= Cardinality(written[c][f.b])
    BY <1>3 DEF RefInv, Counted
  <2>2. Cardinality(written[c][f.b]) \in Nat
    BY <2>1, FS_CardinalityType
  <2>3. QED
    BY <2>1, <2>2
<1> HIDE DEF m
<1>5. Len(s) = f.level
  <2>1. \A j \in (n + 1) .. n : FALSE
    BY <1>3
  <2>2. QED
    BY <1>1, <1>2, <1>3, <2>1 DEF AtomInv, LevelsInv, OnTop
<1>6. m \notin store
  <2>1. outcome[c][f.b] = "open"
    BY <1>1, <1>3 DEF AtomInv, BlocksInv, OwnBlocks
  <2>2. QED
    BY <1>1, <1>4, <2>1 DEF AtomInv, WritesInv, Stored, OutcomeOf
<1>7. ~Contract!Pending(m)
  <2>1. \A j \in Conn : \A l \in 1 .. Len(tx[j]) : m \notin tx[j][l]
    BY <1>4 DEF RefInv, Traced
  <2>2. ASSUME NEW d \in Client, NEW i \in DOMAIN Work[d] PROVE m \notin Work[d][i].w
    <3>1. i \in 1 .. Depth(d) /\ Work[d][i] = Entry(d, i)
      BY <1>1, WorkTypes DEF WorkTyped
    <3>2. QED
      BY <1>1, <2>1, <3>1, FrameLevels DEF Entry
  <2>3. QED
    BY <2>2 DEF Contract!Pending
<1>8. /\ tx'[k][f.level] = tx[k][f.level] \cup {m}
      /\ \A j \in Conn : \A l \in 1 .. Len(tx[j]) :
           j # k \/ l # f.level => tx'[j][l] = tx[j][l]
  <2>1. tx' = [tx EXCEPT ![k] = t]
    BY <1>1, <1>2, <1>3 DEF SafeInv, TypeOK
  <2>2. /\ Len(t) = Len(s) /\ t[f.level] = s[f.level] \cup {m}
        /\ \A l \in 1 .. Len(s) : l # f.level => t[l] = s[l]
    BY <1>3, <1>5
  <2> HIDE DEF t, s
  <2>3. QED
    BY <1>1, <1>3, <2>1, <2>2 DEF SafeInv, TypeOK, s
<1>9. ASSUME NEW d \in Client, NEW i \in 1 .. Depth(d), d # c \/ i # n
      PROVE  Stays(d, i)
  <2> DEFINE g == frames[d][i]
  <2>1. g.conn \in Conn /\ g.level \in 1 .. Len(tx[g.conn])
    BY <1>1, FrameLevels
  <2>2. g.conn # k \/ g.level # f.level
    <3>1. CASE d # c
      BY <1>1, <1>3, <3>1 DEF SafeInv, Stacks, Apart
    <3>2. CASE d = c /\ i \in 1 .. (n - 1)
      <4>1. g.conn = k => g.level < f.level
        BY <1>1, <1>3, <3>2 DEF SafeInv, Stacks, Grow
      <4>2. g.level \in Nat /\ f.level \in Nat
        BY <1>3, <2>1
      <4>3. QED
        BY <4>1, <4>2
    <3>3. QED
      BY <1>3, <1>9, <3>1, <3>2
  <2>3. QED
    BY <1>2, <1>8, <2>1, <2>2 DEF Stays, Depth
<1>10. \A d \in Client \ {c} : Work'[d] = Work[d]
  <2>1. \A d \in Client : Depth(d)' = Depth(d)
    BY <1>2 DEF Depth
  <2>2. QED
    BY <1>1, <1>9, <2>1, WorkStays
<1>11. /\ Work[c] \in Seq(Entries) /\ Work'[c] \in Seq(Entries)
       /\ Len(Work[c]) = n /\ Len(Work'[c]) = n
       /\ \A i \in 1 .. n : Work[c][i] = Entry(c, i)
       /\ \A i \in 1 .. n : Work'[c][i] = Entry(c, i)'
  <2>1. Depth(c)' = Depth(c)
    BY <1>2 DEF Depth
  <2>2. QED
    BY <1>1, <2>1, WorkTypes, WorkTypesNext DEF WorkTyped
<1>12. \A i \in 1 .. (n - 1) : Work'[c][i] = Work[c][i]
  <2>1. \A i \in 1 .. (n - 1) : i \in 1 .. n /\ i # n
    BY <1>3
  <2>2. \A i \in 1 .. (n - 1) : Entry(c, i)' = Entry(c, i)
    BY <1>9, <2>1, EntryStays
  <2>3. QED
    BY <1>11, <2>1, <2>2
<1>13. Work'[c][n] = [b |-> Work[c][n].b, root |-> Work[c][n].root, w |-> Work[c][n].w \cup {m}]
  <2>1. \A i \in 1 .. n : i = n =>
          Entry(c, i)' = [b |-> f.b, root |-> RootOf(c, i), w |-> tx[k][f.level] \cup {m}]
    BY <1>2, <1>3, <1>8 DEF Entry, RootOf
  <2>2. Entry(c, n) = [b |-> f.b, root |-> RootOf(c, n), w |-> tx[k][f.level]]
    BY <1>3 DEF Entry
  <2>3. Work[c][n] = [b |-> f.b, root |-> RootOf(c, n), w |-> tx[k][f.level]]
    BY <1>3, <1>11, <2>2
  <2>4. Work'[c][n] = [b |-> f.b, root |-> RootOf(c, n), w |-> tx[k][f.level] \cup {m}]
    BY <1>3, <1>11, <2>1
  <2>5. QED
    BY <2>3, <2>4
<1> DEFINE v == [Work[c] EXCEPT ![n] = [Work[c][n] EXCEPT !.w = Work[c][n].w \cup {m}]]
           t1 == Work'[c]
<1>14. t1 = v
  <2>1. n > 0
    BY <1>3
  <2>2. t1[n] = [Work[c][n] EXCEPT !.w = Work[c][n].w \cup {m}]
    <3>1. Work[c][n] \in Entries
      BY <1>3, <1>11
    <3>2. [Work[c][n] EXCEPT !.w = Work[c][n].w \cup {m}]
            = [b |-> Work[c][n].b, root |-> Work[c][n].root, w |-> Work[c][n].w \cup {m}]
      BY <3>1, Wider
    <3>3. QED
      BY <1>13, <3>2
  <2> HIDE DEF t1, n
  <2>3. t1 \in Seq(Entries) /\ Len(t1) = n /\ n \in Nat
    BY <1>3, <1>11 DEF t1
  <2>4. \A i \in 1 .. (n - 1) : t1[i] = Work[c][i]
    BY <1>12 DEF t1
  <2>5. t1 = [Work[c] EXCEPT ![n] = t1[n]]
    BY <1>11, <2>1, <2>3, <2>4, LastChanged
  <2>6. QED
    BY <2>2, <2>5
<1> HIDE DEF v
<1>15. Work' = [Work EXCEPT ![c] = v]
  BY <1>10, <1>14, WorkOfOne
<1>16. Work' = [Work EXCEPT ![c][Len(Work[c])].w = @ \cup {m}]
  BY <1>11, <1>15 DEF v, Work
<1>17. Work[c] # <<>>
  BY <1>1, <1>2, TopWork
<1>18. QED
  BY <1>2, <1>6, <1>7, <1>16, <1>17 DEF Contract!Add

LEMMA PopDepth ==
  ASSUME SafeInv, NEW c \in Client, frames[c] # <<>>, Pop(c)
  PROVE  /\ Depth(c)' = Depth(c) - 1 /\ Depth(c) - 1 \in Nat
         /\ \A d \in Client \ {c} : Depth(d)' = Depth(d)
<1>1. Depth(c) - 1 \in 0 .. Len(frames[c]) /\ frames[c] \in Seq(Frame)
  BY TopFacts, FrameTypes DEF SafeInv, Depth
<1>2. frames'[c] = SubSeq(frames[c], 1, Depth(c) - 1)
  BY DEF Pop, SafeInv, TypeOK
<1>3. Depth(c)' = Depth(c) - 1
  BY <1>1, <1>2, Cut DEF Depth
<1>4. \A d \in Client \ {c} : Depth(d)' = Depth(d)
  BY PopType DEF SafeInv, Depth
<1>5. QED
  BY <1>1, <1>3, <1>4

\* When a block ends, the others stay, but for the one that a savepoint joins.
Parent(c, d, i) ==
  /\ ~(Released(Top(c)) \/ CutOff(Top(c)) \/ Left(Top(c)))
  /\ frames[d][i].conn = Top(c).conn
  /\ frames[d][i].level = Top(c).level - 1

LEMMA StaysEnd ==
  ASSUME SafeInv, NEW c \in Client, frames[c] # <<>>, Pop(c), Elsewhere(Top(c).conn),
         Released(Top(c)) \/ CutOff(Top(c)) \/ Merged(Top(c)) \/ Left(Top(c)),
         NEW d \in Client, NEW i \in 1 .. Depth(d)', ~Parent(c, d, i)
  PROVE  Stays(d, i)
<1> DEFINE f == Top(c)
           g == frames[d][i]
<1>1. f.conn \in Conn /\ f.level \in Nat \ {0}
  BY TopFacts DEF SafeInv
<1>2. i \in 1 .. Depth(d) /\ frames'[d][i] = g /\ (g.conn = f.conn => g.level < f.level)
  BY PopFrames DEF SafeInv
<1>3. g.conn \in Conn /\ g.level \in 1 .. Len(tx[g.conn]) /\ Len(tx[g.conn]) \in Nat
  BY <1>2, FrameLevels, StackTypes DEF SafeInv
<1>4. tx'[g.conn][g.level] = tx[g.conn][g.level]
  <2>1. CASE g.conn # f.conn
    BY <1>3, <2>1 DEF Elsewhere
  <2>2. CASE g.conn = f.conn /\ Released(f)
    BY <1>2, <1>3, <2>2 DEF Released
  <2>3. CASE g.conn = f.conn /\ CutOff(f)
    <3>1. g.level \in 1 .. (f.level - 1)
      BY <1>1, <1>2, <1>3, <2>3
    <3>2. QED
      BY <2>3, <3>1 DEF CutOff
  <2>4. CASE g.conn = f.conn /\ Merged(f) /\ ~(Released(f) \/ CutOff(f) \/ Left(f))
    <3>1. g.level # f.level - 1
      BY <2>4 DEF Parent
    <3>2. g.level \in 1 .. (f.level - 2)
      BY <1>1, <1>2, <1>3, <2>4, <3>1
    <3>3. QED
      BY <2>4, <3>2 DEF Merged
  <2>5. CASE g.conn = f.conn /\ Left(f)
    BY <2>5 DEF Left
  <2>6. QED
    BY <2>1, <2>2, <2>3, <2>4, <2>5
<1>5. QED
  BY <1>2, <1>4 DEF Stays

\* The work of the client whose block ends, and of the others.
LEMMA WorkCut ==
  ASSUME SafeInv, SafeInv', NEW c \in Client, frames[c] # <<>>, Pop(c)
  PROVE  LET n == Depth(c) - 1 s == Contract!Below(c) IN
         /\ n \in Nat /\ s \in Seq(Entries) /\ Len(s) = n /\ Depth(c)' = n
         /\ \A i \in 1 .. n : s[i] = Entry(c, i)
         /\ Work'[c] \in Seq(Entries) /\ Len(Work'[c]) = n
         /\ \A i \in 1 .. n : Work'[c][i] = Entry(c, i)'
<1> DEFINE n == Depth(c) - 1
           s == Contract!Below(c)
<1>1. n \in Nat /\ Depth(c)' = n /\ Depth(c) \in Nat
  BY PopDepth, FrameTypes DEF SafeInv
<1>2. /\ Work[c] \in Seq(Entries) /\ Len(Work[c]) = Depth(c)
      /\ \A i \in 1 .. Depth(c) : Work[c][i] = Entry(c, i)
      /\ Work'[c] \in Seq(Entries) /\ Len(Work'[c]) = n
      /\ \A i \in 1 .. n : Work'[c][i] = Entry(c, i)'
  BY <1>1, WorkTypes, WorkTypesNext DEF WorkTyped
<1>3. s = SubSeq(Work[c], 1, n)
  BY <1>2 DEF Contract!Below
<1>4. n \in 0 .. Len(Work[c])
  BY <1>1, <1>2
<1>5. s \in Seq(Entries) /\ Len(s) = n /\ \A i \in 1 .. n : s[i] = Work[c][i]
  BY <1>2, <1>3, <1>4, Cut
<1>6. \A i \in 1 .. n : i \in 1 .. Depth(c)
  BY <1>1
<1>7. QED
  BY <1>1, <1>2, <1>5, <1>6

LEMMA WorkEnds ==
  ASSUME SafeInv, SafeInv', NEW c \in Client, frames[c] # <<>>, Pop(c), Elsewhere(Top(c).conn),
         Released(Top(c)) \/ CutOff(Top(c)) \/ Left(Top(c))
  PROVE  Work' = [Work EXCEPT ![c] = Contract!Below(c)]
<1> DEFINE n == Depth(c) - 1
           s == Contract!Below(c)
<1>1. \A d \in Client : \A i \in 1 .. Depth(d)' : Stays(d, i)
  BY StaysEnd DEF Parent
<1>2. \A d \in Client \ {c} : Work'[d] = Work[d]
  BY <1>1, PopDepth, WorkStays
<1>3. /\ s \in Seq(Entries) /\ Len(s) = n /\ Depth(c)' = n
      /\ \A i \in 1 .. n : s[i] = Entry(c, i)
      /\ Work'[c] \in Seq(Entries) /\ Len(Work'[c]) = n
      /\ \A i \in 1 .. n : Work'[c][i] = Entry(c, i)'
  BY WorkCut
<1> HIDE DEF n, s
<1>4. \A i \in 1 .. n : Entry(c, i)' = Entry(c, i)
  BY <1>1, <1>3, EntryStays
<1>5. Work'[c] = s
  BY <1>3, <1>4, SameSeq
<1>6. QED
  BY <1>2, <1>5, WorkOfOne DEF s

LEMMA WorkJoins ==
  ASSUME AtomInv, SafeInv', NEW c \in Client, frames[c] # <<>>, Pop(c), Elsewhere(Top(c).conn),
         Merged(Top(c)), Healthy(Top(c).conn)
  PROVE  Work' = [Work EXCEPT ![c] =
           [Contract!Below(c) EXCEPT ![Len(Contract!Below(c))].w = @ \cup Contract!Top(c).w]]
<1> DEFINE f == Top(c)
           k == f.conn
           n == Depth(c) - 1
           s == Contract!Below(c)
<1>1. SafeInv
  BY DEF AtomInv
<1>2. /\ Depth(c) \in 1 .. Depth(c) /\ f = frames[c][Depth(c)] /\ Depth(c) \in Nat
      /\ k \in Conn /\ f.level \in 1 .. Len(tx[k]) /\ f.level \in Nat \ {0}
  BY <1>1, TopFacts DEF SafeInv
<1>3. /\ f.level > 1 /\ n \in 1 .. n /\ n \in 1 .. Depth(c) /\ n \in Nat
      /\ frames[c][n].conn = k /\ frames[c][n].level = f.level - 1
  <2>1. f.level > 1
    BY DEF Merged
  <2>2. /\ Depth(c) > 1 /\ frames[c][Depth(c) - 1].conn = k
        /\ frames[c][Depth(c) - 1].level = f.level - 1
    BY <1>2, <2>1 DEF AtomInv, LevelsInv, Contiguous
  <2>3. QED
    BY <1>2, <2>1, <2>2
<1>4. tx'[k][f.level - 1] = tx[k][f.level - 1] \cup tx[k][f.level]
  <2>1. \A j \in (Depth(c) + 1) .. Depth(c) : FALSE
    BY <1>2
  <2>2. Len(tx[k]) = f.level
    BY <1>2, <2>1 DEF AtomInv, LevelsInv, OnTop
  <2>3. (f.level - 1) .. f.level = {f.level - 1, f.level}
    BY <1>2
  <2>4. WritesFrom(k, f.level - 1) = tx[k][f.level - 1] \cup tx[k][f.level]
    BY <2>2, <2>3 DEF WritesFrom
  <2>5. QED
    BY <2>4 DEF Merged
<1>5. ASSUME NEW d \in Client, NEW i \in 1 .. Depth(d)', d # c \/ i # n
      PROVE  Stays(d, i)
  <2>1. i \in 1 .. Depth(d) /\ (d = c => i \in 1 .. n)
    BY <1>1, PopFrames DEF SafeInv
  <2>2. ~Parent(c, d, i)
    <3>1. CASE d # c
      BY <1>1, <1>2, <2>1, <3>1 DEF Parent, SafeInv, Stacks, Apart
    <3>2. CASE d = c
      <4>1. i \in 1 .. (n - 1)
        BY <1>3, <1>5, <2>1, <3>2
      <4>2. frames[c][i].conn = k => frames[c][i].level < f.level - 1
        BY <1>1, <1>3, <4>1 DEF SafeInv, Stacks, Grow
      <4>3. f.level - 1 \in Int
        BY <1>2
      <4>4. QED
        BY <3>2, <4>2, <4>3 DEF Parent
    <3>3. QED
      BY <3>1, <3>2
  <2>3. QED
    BY <1>1, <2>2, StaysEnd
<1>6. \A d \in Client \ {c} : Work'[d] = Work[d]
  BY <1>1, <1>5, PopDepth, WorkStays
<1>7. /\ s \in Seq(Entries) /\ Len(s) = n /\ Depth(c)' = n
      /\ \A i \in 1 .. n : s[i] = Entry(c, i)
      /\ Work'[c] \in Seq(Entries) /\ Len(Work'[c]) = n
      /\ \A i \in 1 .. n : Work'[c][i] = Entry(c, i)'
  BY <1>1, WorkCut
<1>8. \A i \in 1 .. n : i = n => frames'[c][i] = frames[c][i]
  BY <1>1, <1>7, PopFrames DEF SafeInv
<1> DEFINE w == Contract!Top(c).w
           t == Work'[c]
<1>9. w = tx[k][f.level]
  BY <1>1, TopWork
<1> HIDE DEF n, s, t, w
<1>10. \A i \in 1 .. (n - 1) : t[i] = s[i]
  <2>1. \A i \in 1 .. (n - 1) : i \in 1 .. n /\ i # n
    BY <1>3
  <2>2. \A i \in 1 .. (n - 1) : Entry(c, i)' = Entry(c, i)
    BY <1>5, <1>7, <2>1, EntryStays
  <2>3. QED
    BY <1>7, <2>1, <2>2 DEF t
<1>11. t[n] = [b |-> s[n].b, root |-> s[n].root, w |-> s[n].w \cup w]
  <2> DEFINE g == frames[c][n]
  <2>1. \A i \in 1 .. n : i = n =>
          Entry(c, i)' = [b |-> g.b, root |-> RootOf(c, i), w |-> tx[k][f.level - 1] \cup w]
    BY <1>3, <1>4, <1>8, <1>9 DEF Entry, RootOf
  <2>2. Entry(c, n) = [b |-> g.b, root |-> RootOf(c, n), w |-> tx[k][f.level - 1]]
    BY <1>3 DEF Entry
  <2>3. s[n] = [b |-> g.b, root |-> RootOf(c, n), w |-> tx[k][f.level - 1]]
    BY <1>3, <1>7, <2>2
  <2>4. t[n] = [b |-> g.b, root |-> RootOf(c, n), w |-> tx[k][f.level - 1] \cup w]
    BY <1>3, <1>7, <2>1 DEF t
  <2>5. QED
    BY <2>3, <2>4
<1> DEFINE v == [s EXCEPT ![n] = [s[n] EXCEPT !.w = s[n].w \cup w]]
<1>12. t = v
  <2>1. n > 0 /\ n \in Nat
    BY <1>3
  <2>2. t \in Seq(Entries) /\ Len(t) = n /\ s \in Seq(Entries) /\ Len(s) = n
    BY <1>7 DEF t
  <2>3. t[n] = [s[n] EXCEPT !.w = s[n].w \cup w]
    <3>1. s[n] \in Entries
      BY <1>3, <2>2
    <3>2. QED
      BY <1>11, <3>1, Wider
  <2>4. t = [s EXCEPT ![n] = t[n]]
    BY <1>10, <2>1, <2>2, LastChanged
  <2>5. QED
    BY <2>3, <2>4
<1>13. v = [s EXCEPT ![Len(s)].w = @ \cup w]
  BY <1>7
<1> HIDE DEF v
<1>14. Work' = [Work EXCEPT ![c] = v]
  BY <1>6, <1>12, WorkOfOne DEF t
<1>15. QED
  BY <1>13, <1>14 DEF s, w

LEMMA RefinesEnding ==
  ASSUME AtomInv, SafeInv', NEW c \in Client, Ending(c)
  PROVE  Contract!Fail(c) \/ Contract!SucceedRoot(c) \/ Contract!SucceedNested(c)
         \/ Contract!Unsure(c)
<1> DEFINE f == Top(c)
<1>1. SafeInv /\ frames[c] # <<>> /\ Pop(c) /\ Elsewhere(f.conn)
  BY EndingParts DEF AtomInv
<1>2. /\ Work[c] # <<>> /\ Contract!Top(c).b = f.b
      /\ Contract!Top(c).root = (f.level = 1)
      /\ Contract!Top(c).w = tx[f.conn][f.level]
  BY <1>1, TopWork
<1>3. CASE /\ Released(f) \/ CutOff(f) \/ Left(f)
           /\ store' = store
           /\ \E o \in {"err", "panic", "commitErr"} : Ends(c, f.b, o)
  <2>1. Work' = [Work EXCEPT ![c] = Contract!Below(c)]
    BY <1>1, <1>3, WorkEnds
  <2>2. Contract!Fail(c)
    BY <1>2, <1>3, <2>1 DEF Contract!Fail, Contract!Ends, Ends
  <2>3. QED
    BY <2>2
<1>4. CASE /\ Released(f) /\ Healthy(f.conn)
           /\ store' = store \cup WritesFrom(f.conn, 1)
           /\ Ends(c, f.b, "ok") \/ Ends(c, f.b, "commitErr")
  <2>1. f.level = 1
    BY <1>4 DEF Released
  <2>2. Work' = [Work EXCEPT ![c] = Contract!Below(c)]
    BY <1>1, <1>4, <2>1, WorkEnds
  <2>3. store' = store \cup Contract!Top(c).w
    <3>1. /\ Depth(c) \in 1 .. Depth(c) /\ f = frames[c][Depth(c)] /\ Depth(c) \in Nat
      BY <1>1, TopFacts DEF SafeInv
    <3>2. \A j \in (Depth(c) + 1) .. Depth(c) : FALSE
      BY <3>1
    <3>3. Len(tx[f.conn]) = 1
      BY <1>4, <2>1, <3>1, <3>2 DEF AtomInv, LevelsInv, OnTop
    <3>4. 1 .. 1 = {1}
      OBVIOUS
    <3>5. WritesFrom(f.conn, 1) = tx[f.conn][1]
      BY <3>3, <3>4 DEF WritesFrom
    <3>6. QED
      BY <1>2, <1>4, <2>1, <3>5
  <2>4. Contract!Top(c).root
    BY <1>2, <2>1
  <2>5. CASE Ends(c, f.b, "ok")
    BY <1>2, <2>2, <2>3, <2>4, <2>5 DEF Contract!SucceedRoot, Contract!Ends, Ends
  <2>6. CASE Ends(c, f.b, "commitErr")
    BY <1>2, <2>2, <2>3, <2>4, <2>6 DEF Contract!Unsure, Contract!Ends, Ends
  <2>7. QED
    BY <1>4, <2>5, <2>6
<1>5. CASE Merged(f) /\ Healthy(f.conn) /\ store' = store /\ Ends(c, f.b, "ok")
  <2>1. Work' = [Work EXCEPT ![c] =
          [Contract!Below(c) EXCEPT ![Len(Contract!Below(c))].w = @ \cup Contract!Top(c).w]]
    BY <1>1, <1>5, WorkJoins
  <2>2. ~Contract!Top(c).root
    <3>1. f.level # 1
      BY <1>1, <1>5, TopFacts DEF SafeInv, Merged
    <3>2. QED
      BY <1>2, <3>1
  <2>3. Contract!SucceedNested(c)
    BY <1>2, <1>5, <2>1, <2>2 DEF Contract!SucceedNested, Contract!Ends, Ends
  <2>4. QED
    BY <2>3
<1>6. QED
  BY <1>3, <1>4, <1>5, EndingParts

LEMMA RefinesStep ==
  ASSUME ~CtxMayEnd
  PROVE  RefInv /\ RefInv' /\ [Next]_vars => [Contract!CNext]_Contract!cvars
<1> SUFFICES ASSUME RefInv, RefInv', [Next]_vars
             PROVE  Contract!CNext \/ UNCHANGED Contract!cvars
  OBVIOUS
<1>1. AtomInv /\ SafeInv'
  BY DEF RefInv, AtomInv
<1>2. ASSUME NEW c \in Client, Acquire(c) \/ CallOnTx(c) \/ Write(c) \/ Ending(c)
      PROVE  Contract!CNext
  BY <1>1, <1>2, RefinesBegins, RefinesWrite, RefinesEnding DEF Contract!CNext
<1>3. ASSUME UNCHANGED <<frames, tx, store, outcome>>
      PROVE  UNCHANGED Contract!cvars
  BY <1>3, WorkKept DEF Contract!cvars
<1>4. ASSUME NEW c \in Client, CallOnPool(c) \/ FnEnds(c) \/ StatementFails(c)
      PROVE  UNCHANGED <<frames, tx, store, outcome>>
  BY <1>4 DEF CallOnPool, FnEnds, StatementFails
<1>5. ASSUME NEW c \in Client, AcquireFails(c) \/ CtxEnds(c)
      PROVE  FALSE
  BY <1>5 DEF AcquireFails, CtxEnds
<1>6. ConnLost \/ UNCHANGED vars => UNCHANGED <<frames, tx, store, outcome>>
  BY DEF ConnLost, vars
<1>7. QED
  BY <1>2, <1>3, <1>4, <1>5, <1>6 DEF Next, Finished, InWithTx, InFn, Ending

LEMMA RefinesInit == Init => Contract!CInit
<1> SUFFICES ASSUME Init PROVE Contract!CInit
  OBVIOUS
<1>1. \A c \in Client : frames[c] = <<>>
  BY DEF Init
<1>2. \A c \in Client : [i \in 1 .. Depth(c) |-> Entry(c, i)] = <<>>
  BY <1>1 DEF Depth
<1>3. Work = [c \in Client |-> [i \in 1 .. Depth(c) |-> Entry(c, i)]]
  BY DEF Work, Entry
<1>4. Work = [c \in Client |-> <<>>]
  BY <1>2, <1>3
<1>5. QED
  BY <1>4 DEF Init, Contract!CInit

\* core/dbtx.go:45-48 as a whole: while no context ends inside a block,
\* connections, savepoints, failing statements and lost connections are one way
\* to run the atomic, nested blocks of TxContract.
THEOREM Refines == ASSUME ~CtxMayEnd PROVE Spec => ImplementsContract
<1>1. RefInv /\ RefInv' /\ [Next]_vars => [Contract!CNext]_Contract!cvars
  BY RefinesStep
<1>2. QED
  BY <1>1, RefinesInit, RefAlways, PTL DEF Spec, ImplementsContract, Contract!CSpec
=============================================================================
