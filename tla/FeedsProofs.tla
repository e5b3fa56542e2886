----------------------------- MODULE FeedsProofs -----------------------------
(***************************************************************************)
(* A stream shows values of the venue, never an older one after a newer,   *)
(* for any number of readers, levels, queue size, drops and reconnects.    *)
(*                                                                         *)
(* The invariants of Feeds are not inductive: what a reader is shown comes *)
(* out of its queue, so the queue must hold true frames, in order and not  *)
(* behind what was shown, and a book that is not in doubt must be the      *)
(* venue's book at the frame it was brought up to.  A delta that can be    *)
(* compared continues the book because its number says so; one that cannot *)
(* does so because the queue of a reader that has lost nothing continues   *)
(* where the reader is and ends where the venue is, with no update missing *)
(* between.                                                                *)
(***************************************************************************)
EXTENDS Feeds, TLAPS

\* A frame says the truth about the venue's history.
TrueFrame(h, s, f) ==
    \/ f.type = "bad"
    \/ /\ f.type \in {"snapshot", "whole"}
       /\ f.u \in 1..Len(h)
       /\ f.book = h[f.u]
       /\ f.type = "snapshot" => f.num \in {f.u, None}
    \/ /\ f.type = "update"
       /\ s.frame \in Deltas
       /\ f.u \in 2..Len(h)
       /\ h[f.u] = Applied(h[f.u - 1], f)
       /\ f.num \in {f.u, None} /\ f.prev \in {f.u - 1, None}

QueueTrue ==
    \A r \in Readers : \A i \in 1..Len(queue[r]) : TrueFrame(hist, shape, queue[r][i])

QueueOrdered ==
    ~shape.replay =>
        \A r \in Readers : \A i, j \in 1..Len(queue[r]) :
            (i <= j /\ queue[r][i].type # "bad" /\ queue[r][j].type # "bad")
                => queue[r][i].u <= queue[r][j].u

OutBehindQueue ==
    ~shape.replay =>
        \A r \in Readers : out[r] # None =>
            \A i \in 1..Len(queue[r]) :
                queue[r][i].type # "bad" => out[r].u <= queue[r][i].u

OutInHist ==
    \A r \in Readers : out[r] # None => out[r].u \in 1..Len(hist)

IInv == TypeOK /\ QueueTrue /\ QueueOrdered /\ OutBehindQueue /\ OutInHist

-----------------------------------------------------------------------------
\* put_nowait with drop-oldest: the new frame comes last, the others are the
\* queue's own, in order, with at most the oldest one missing.
LEMMA PutShifts ==
    ASSUME NEW q \in Seq(Frames), NEW f \in Frames, Len(q) <= QueueSize
    PROVE  /\ Put(q, f) \in Seq(Frames)
           /\ Len(Put(q, f)) <= QueueSize
           /\ \E d \in {0, 1} :
                 /\ Len(Put(q, f)) = Len(q) + 1 - d
                 /\ \A i \in 1..(Len(q) - d) : Put(q, f)[i] = q[i + d]
                 /\ Put(q, f)[Len(q) + 1 - d] = f
<1> USE FeedsAssumption
<1>1. CASE Len(q) < QueueSize
  BY <1>1 DEF Put
<1>2. CASE ~(Len(q) < QueueSize)
  <2>1. Len(q) = QueueSize /\ q # <<>>
    BY <1>2
  <2>2. /\ Tail(q) \in Seq(Frames) /\ Len(Tail(q)) = Len(q) - 1
        /\ \A i \in 1..(Len(q) - 1) : Tail(q)[i] = q[i + 1]
    BY <2>1
  <2>3. Put(q, f) = Append(Tail(q), f)
    BY <1>2 DEF Put
  <2> QED
    BY <2>1, <2>2, <2>3
<1> QED
  BY <1>1, <1>2

\* The venue's history only grows, so a true frame stays true.
LEMMA TrueFrameStays ==
    ASSUME TypeOK, NEW f \in Frames, TrueFrame(hist, shape, f), shape' = shape,
           hist' = hist \/ \E b \in Books : hist' = Append(hist, b)
    PROVE  TrueFrame(hist', shape', f)
<1>1. /\ Len(hist') >= Len(hist) /\ Len(hist') \in Nat /\ Len(hist) \in Nat
      /\ \A u \in 1..Len(hist) : hist'[u] = hist[u]
  BY DEF TypeOK
<1>2. CASE f.type = "update"
  <2>1. f.u \in 2..Len(hist) /\ f.u - 1 \in 1..Len(hist) /\ f.u \in 1..Len(hist)
    BY <1>1, <1>2 DEF TrueFrame
  <2> QED
    BY <1>1, <1>2, <2>1 DEF TrueFrame
<1>3. CASE f.type # "update"
  BY <1>1, <1>3 DEF TrueFrame
<1> QED
  BY <1>2, <1>3

\* A true frame that is malformed or about the newest value keeps every
\* queue true, ordered and not behind what was shown.
LEMMA DeliverKeeps ==
    ASSUME IInv, NEW rs \in SUBSET Readers, NEW f \in Frames, Deliver(rs, f),
           hist' = hist \/ \E b \in Books : hist' = Append(hist, b),
           shape' = shape, out' = out, TrueFrame(hist', shape', f),
           shape.replay \/ f.type = "bad" \/ f.u = Len(hist')
    PROVE  /\ queue' \in [Readers -> Seq(Frames)]
           /\ \A r \in Readers : Len(queue'[r]) <= QueueSize
           /\ missed' \subseteq Readers
           /\ QueueTrue' /\ QueueOrdered' /\ OutBehindQueue'
<1>1. Len(hist') >= Len(hist) /\ Len(hist') \in Nat /\ Len(hist) \in Nat
  BY DEF IInv, TypeOK
<1>2. ASSUME NEW r \in Readers
      PROVE  /\ queue'[r] \in Seq(Frames) /\ Len(queue'[r]) <= QueueSize
             /\ \E d \in {0, 1} : \E g \in {0, 1} :
                 /\ Len(queue'[r]) = Len(queue[r]) + g - d
                 /\ \A i \in 1..(Len(queue[r]) - d) : queue'[r][i] = queue[r][i + d]
                 /\ g = 0 => d = 0
                 /\ g = 1 => queue'[r][Len(queue'[r])] = f
  <2>1. queue[r] \in Seq(Frames) /\ Len(queue[r]) <= QueueSize
    BY DEF IInv, TypeOK
  <2>2. CASE r \in rs
    <3>1. queue'[r] = Put(queue[r], f)
      BY <2>2 DEF Deliver
    <3>2. PICK d \in {0, 1} :
                 /\ Len(Put(queue[r], f)) = Len(queue[r]) + 1 - d
                 /\ \A i \in 1..(Len(queue[r]) - d) : Put(queue[r], f)[i] = queue[r][i + d]
                 /\ Put(queue[r], f)[Len(queue[r]) + 1 - d] = f
      BY <2>1, PutShifts
    <3>3. /\ Len(queue'[r]) = Len(queue[r]) + 1 - d
          /\ \A i \in 1..(Len(queue[r]) - d) : queue'[r][i] = queue[r][i + d]
          /\ queue'[r][Len(queue'[r])] = f
      BY <3>1, <3>2
    <3>4. queue'[r] \in Seq(Frames) /\ Len(queue'[r]) <= QueueSize
      BY <3>1, <2>1, PutShifts
    <3> QED
      BY <3>3, <3>4
  <2>3. CASE r \notin rs
    <3>1. queue'[r] = queue[r]
      BY <2>3 DEF Deliver
    <3> QED
      BY <3>1, <2>1
  <2> QED
    BY <2>2, <2>3
<1>3. queue' \in [Readers -> Seq(Frames)] /\ missed' \subseteq Readers
  <2>1. queue' = [r \in Readers |-> queue'[r]]
    BY DEF Deliver
  <2>2. missed' \subseteq Readers
    BY DEF Deliver, IInv, TypeOK
  <2> QED
    BY <1>2, <2>1, <2>2
<1>4. \A r \in Readers : queue[r] \in Seq(Frames) /\ Len(queue[r]) \in Nat
                         /\ \A i \in 1..Len(queue[r]) : queue[r][i] \in Frames
  BY DEF IInv, TypeOK
\* every frame of the new queue is the delivered one, last, or an old one
<1>5. ASSUME NEW r \in Readers, NEW i \in 1..Len(queue'[r])
      PROVE  \/ queue'[r][i] = f /\ i = Len(queue'[r])
             \/ \E d \in {0, 1} : i + d \in 1..Len(queue[r]) /\ queue'[r][i] = queue[r][i + d]
  BY SMTT(20), <1>2, <1>4
<1>6. QueueTrue'
  <2> SUFFICES ASSUME NEW r \in Readers, NEW i \in 1..Len(queue'[r])
               PROVE  TrueFrame(hist', shape', queue'[r][i])
    BY DEF QueueTrue
  <2>1. CASE queue'[r][i] = f
    BY <2>1
  <2>2. ASSUME NEW k \in 1..Len(queue[r]), queue'[r][i] = queue[r][k]
        PROVE  TrueFrame(hist', shape', queue'[r][i])
    <3>1. queue[r][k] \in Frames /\ TrueFrame(hist, shape, queue[r][k])
      BY <1>4 DEF IInv, QueueTrue
    <3>2. TrueFrame(hist', shape', queue[r][k])
      BY <3>1, TrueFrameStays DEF IInv
    <3> QED
      BY <2>2, <3>2
  <2> QED
    BY <1>5, <2>1, <2>2
<1>7. QueueOrdered'
  <2> SUFFICES ASSUME ~shape.replay, NEW r \in Readers,
                      NEW i \in 1..Len(queue'[r]), NEW j \in 1..Len(queue'[r]), i <= j,
                      queue'[r][i].type # "bad", queue'[r][j].type # "bad"
               PROVE  queue'[r][i].u <= queue'[r][j].u
    BY DEF QueueOrdered
  <2>1. PICK d \in {0, 1}, g \in {0, 1} :
                 /\ Len(queue'[r]) = Len(queue[r]) + g - d
                 /\ \A k \in 1..(Len(queue[r]) - d) : queue'[r][k] = queue[r][k + d]
                 /\ g = 0 => d = 0
                 /\ g = 1 => queue'[r][Len(queue'[r])] = f
    BY <1>2
  <2>2. CASE i = j
    <3>1. queue'[r][i] \in Frames
      BY <1>3
    <3> QED
      BY <2>2, <3>1 DEF Frames
  <2>3. CASE i < j /\ j <= Len(queue[r]) - d
    <3>1. /\ queue'[r][i] = queue[r][i + d] /\ queue'[r][j] = queue[r][j + d]
          /\ i + d \in 1..Len(queue[r]) /\ j + d \in 1..Len(queue[r]) /\ i + d <= j + d
      BY <2>1, <2>3, <1>4
    <3> QED
      BY <3>1 DEF IInv, QueueOrdered
  <2>4. CASE i < j /\ j > Len(queue[r]) - d
    <3>1. /\ queue'[r][j] = f /\ queue'[r][i] = queue[r][i + d]
          /\ i + d \in 1..Len(queue[r])
      BY SMTT(20), <2>1, <2>4, <1>4
    <3>2. TrueFrame(hist, shape, queue[r][i + d])
      BY <3>1 DEF IInv, QueueTrue
    <3>3. f.u = Len(hist')
      BY <3>1
    <3>4. queue[r][i + d].u \in 1..Len(hist)
      BY SMTT(20), <3>1, <3>2, <1>1 DEF TrueFrame
    <3> QED
      BY SMTT(20), <3>1, <3>3, <3>4, <1>1
  <2> QED
    BY <2>2, <2>3, <2>4, <1>4
<1>8. OutBehindQueue'
  <2> SUFFICES ASSUME ~shape.replay, NEW r \in Readers, out[r] # None,
                      NEW i \in 1..Len(queue'[r]), queue'[r][i].type # "bad"
               PROVE  out[r].u <= queue'[r][i].u
    BY DEF OutBehindQueue
  <2>1. CASE queue'[r][i] = f
    BY <2>1, <1>1 DEF IInv, OutInHist
  <2>2. ASSUME NEW k \in 1..Len(queue[r]), queue'[r][i] = queue[r][k]
        PROVE  out[r].u <= queue'[r][i].u
    BY <2>2 DEF IInv, OutBehindQueue
  <2> QED
    BY <1>5, <2>1, <2>2
<1> QED
  BY <1>2, <1>3, <1>6, <1>7, <1>8

\* What the venue sends first when it is asked for the topic.
LEMMA OpeningKeeps ==
    ASSUME IInv, NEW rs \in SUBSET Readers, Opening(rs),
           hist' = hist, shape' = shape, out' = out
    PROVE  /\ queue' \in [Readers -> Seq(Frames)]
           /\ \A r \in Readers : Len(queue'[r]) <= QueueSize
           /\ missed' \subseteq Readers
           /\ QueueTrue' /\ QueueOrdered' /\ OutBehindQueue'
<1>1. /\ hist \in Seq(Books) /\ Len(hist) \in Nat /\ Len(hist) >= 1
      /\ \A u \in 1..Len(hist) : hist[u] \in Books
  BY DEF IInv, TypeOK
<1>2. ASSUME NEW num \in {Len(hist), None}, Deliver(rs, Snapshot(num))
      PROVE  /\ queue' \in [Readers -> Seq(Frames)]
             /\ \A r \in Readers : Len(queue'[r]) <= QueueSize
             /\ missed' \subseteq Readers
             /\ QueueTrue' /\ QueueOrdered' /\ OutBehindQueue'
  <2> DEFINE f == Snapshot(num)
  <2>1. f \in Frames /\ f.u = Len(hist') /\ TrueFrame(hist', shape', f)
    BY <1>1 DEF Snapshot, Frames, Numbers, TrueFrame
  <2> QED
    BY <1>2, <2>1, DeliverKeeps
<1>3. CASE shape.replay /\ \E u \in 1..Len(hist) : Deliver(rs, Whole(u, hist[u]))
  <2>1. PICK u \in 1..Len(hist) : Deliver(rs, Whole(u, hist[u]))
    BY <1>3
  <2> DEFINE f == Whole(u, hist[u])
  <2>2. f \in Frames /\ TrueFrame(hist', shape', f)
    BY <1>1 DEF Whole, Frames, TrueFrame
  <2> QED
    BY <1>3, <2>1, <2>2, DeliverKeeps
<1>4. CASE UNCHANGED <<queue, missed>>
  BY <1>4 DEF IInv, TypeOK, QueueTrue, QueueOrdered, OutBehindQueue
<1>5. Num(Len(hist)) \in {Len(hist), None}
  BY DEF Num
<1> QED
  BY <1>2, <1>3, <1>4, <1>5 DEF Opening

\* A reader takes d frames out of its queue and is shown what it was shown
\* before, nothing, or the value numbered by the single frame it took.
LEMMA TakingKeeps ==
    ASSUME IInv, NEW r \in Readers, hist' = hist, shape' = shape,
           NEW d \in Nat,
           queue' \in [Readers -> Seq(Frames)],
           \A s \in Readers \ {r} : queue'[s] = queue[s] /\ out'[s] = out[s],
           Len(queue'[r]) = Len(queue[r]) - d,
           \A i \in 1..(Len(queue[r]) - d) : queue'[r][i] = queue[r][i + d],
           \/ out'[r] = out[r] \/ out'[r] = None
           \/ /\ d = 1 /\ Len(queue[r]) >= 1
              /\ queue[r][1].type # "bad" /\ out'[r].u = queue[r][1].u
    PROVE  /\ \A s \in Readers : Len(queue'[s]) <= QueueSize
           /\ QueueTrue' /\ QueueOrdered' /\ OutBehindQueue'
<1>1. \A s \in Readers : /\ queue[s] \in Seq(Frames) /\ Len(queue[s]) \in Nat
                         /\ Len(queue'[s]) \in Nat /\ Len(queue[s]) <= QueueSize
  BY DEF IInv, TypeOK
<1>2. \A s \in Readers : Len(queue'[s]) <= QueueSize
  <2> SUFFICES ASSUME NEW s \in Readers
               PROVE  Len(queue'[s]) <= QueueSize
    OBVIOUS
  <2>1. Len(queue'[s]) <= Len(queue[s])
    BY SMTT(20), <1>1
  <2> QED
    BY <2>1, <1>1, FeedsAssumption
<1>3. \A i \in 1..Len(queue'[r]) : /\ queue'[r][i] = queue[r][i + d]
                                   /\ i + d \in 1..Len(queue[r])
  BY <1>1
<1>4. ASSUME NEW s \in Readers, NEW i \in 1..Len(queue'[s])
      PROVE  \E k \in 1..Len(queue[s]) : queue'[s][i] = queue[s][k]
  <2>1. CASE s = r
    <3>1. queue'[s][i] = queue[s][i + d] /\ i + d \in 1..Len(queue[s])
      BY <1>3, <2>1, Zenon
    <3> QED
      BY <3>1, Zenon
  <2>2. CASE s # r
    <3>1. queue'[s] = queue[s]
      BY <2>2, Zenon
    <3> QED
      BY <3>1, Zenon
  <2> QED
    BY <2>1, <2>2, Zenon
<1>5. QueueTrue'
  <2> SUFFICES ASSUME NEW s \in Readers, NEW i \in 1..Len(queue'[s])
               PROVE  TrueFrame(hist, shape, queue'[s][i])
    BY DEF QueueTrue
  <2>1. \E k \in 1..Len(queue[s]) : queue'[s][i] = queue[s][k]
    BY <1>4
  <2> QED
    BY <2>1 DEF IInv, QueueTrue
<1>6. QueueOrdered'
  <2> SUFFICES ASSUME ~shape.replay, NEW s \in Readers,
                      NEW i \in 1..Len(queue'[s]), NEW j \in 1..Len(queue'[s]), i <= j,
                      queue'[s][i].type # "bad", queue'[s][j].type # "bad"
               PROVE  queue'[s][i].u <= queue'[s][j].u
    BY DEF QueueOrdered
  <2>1. \E k, l \in 1..Len(queue[s]) :
           k <= l /\ queue'[s][i] = queue[s][k] /\ queue'[s][j] = queue[s][l]
    <3>1. CASE s = r
      <4>1. i + d <= j + d
        BY <1>1
      <4> QED
        BY <3>1, <4>1, <1>3
    <3> QED
      BY <3>1
  <2> QED
    BY <2>1 DEF IInv, QueueOrdered
<1>7. OutBehindQueue'
  <2> SUFFICES ASSUME ~shape.replay, NEW s \in Readers, out'[s] # None,
                      NEW i \in 1..Len(queue'[s]), queue'[s][i].type # "bad"
               PROVE  out'[s].u <= queue'[s][i].u
    BY DEF OutBehindQueue
  <2>1. \E k \in 1..Len(queue[s]) : queue'[s][i] = queue[s][k]
    BY <1>4
  <2>2. CASE out'[s] = out[s]
    BY <2>1, <2>2 DEF IInv, OutBehindQueue
  <2>3. CASE /\ s = r /\ Len(queue[r]) >= 1
             /\ queue[r][1].type # "bad" /\ out'[r].u = queue[r][1].u
    <3>1. PICK k \in 1..Len(queue[r]) : queue'[r][i] = queue[r][k]
      BY <2>1, <2>3
    <3>2. 1 \in 1..Len(queue[r]) /\ 1 <= k
      BY <2>3, <1>1
    <3> QED
      BY <2>3, <3>1, <3>2 DEF IInv, QueueOrdered
  <2> QED
    BY <2>2, <2>3
<1> QED
  BY <1>2, <1>5, <1>6, <1>7

-----------------------------------------------------------------------------
(* The steps of the hub and of the venue *)

\* A delta of change u, with its numbers or without some of them.
IsDelta(f, u, l, q) ==
    /\ f.type = "update" /\ f.u = u /\ f.level = l /\ f.qty = q
    /\ f.num \in {u, None} /\ f.prev \in {u - 1, None}

LEMMA DeltaFrames ==
    ASSUME NEW u \in Nat \ {0}, NEW l \in Levels, NEW q \in Qtys,
           NEW n \in {Num(u), None}, NEW p \in {Prev(u), None}
    PROVE  LET f == Delta(u, l, q, n, p) IN f \in Frames /\ IsDelta(f, u, l, q)
<1>1. n \in {u, None} /\ p \in {u - 1, None} /\ n \in Numbers /\ p \in Numbers
  BY DEF Num, Prev, Numbers
<1> QED
  BY <1>1 DEF Delta, Frames, IsDelta

\* Only a delta that has numbers can lack them.
LEMMA DamagedFrames ==
    ASSUME NEW u \in Nat \ {0}, NEW l \in Levels, NEW q \in Qtys,
           NEW f \in Damaged(u, l, q)
    PROVE  f = Garbage \/ (f \in Frames /\ shape.frame \in Deltas /\ IsDelta(f, u, l, q))
<1> SUFFICES ASSUME f # Garbage
             PROVE  f \in Frames /\ shape.frame \in Deltas /\ IsDelta(f, u, l, q)
  OBVIOUS
<1>1. PICK n \in {Num(u), None}, p \in {Prev(u), None} : f = Delta(u, l, q, n, p)
  BY DEF Damaged
<1>2. f # Delta(u, l, q, Num(u), Prev(u))
  BY DEF Damaged
<1>3. shape.frame \in Deltas
  BY <1>1, <1>2 DEF Num, Prev, Deltas, Numbered
<1> QED
  BY <1>1, <1>3, DeltaFrames

\* A change at the venue, with its frame or with a damaged one.
LEMMA VenueStep ==
    ASSUME IInv, NEW l \in Levels, NEW q \in Qtys, VenueChanges(l, q) \/ VenueGarbles(l, q)
    PROVE  IInv'
<1> DEFINE b == [hist[Len(hist)] EXCEPT ![l] = q]
<1>1. /\ hist \in Seq(Books) /\ Len(hist) \in Nat /\ Len(hist) >= 1
      /\ hist[Len(hist)] \in Books /\ b \in Books
  BY DEF IInv, TypeOK, Books
<1>2. /\ hist' = Append(hist, b) /\ Len(hist') = Len(hist) + 1 /\ hist' \in Seq(Books)
      /\ hist'[Len(hist')] = b /\ \A u \in 1..Len(hist) : hist'[u] = hist[u]
  BY <1>1, SMTT(30) DEF VenueChanges, VenueGarbles
<1>3. /\ shape' = shape /\ out' = out /\ book' = book /\ last' = last /\ boot' = boot
      /\ state' = state /\ stale' = stale /\ up' = up /\ asked' = asked
      /\ at' = at /\ doubt' = doubt
  BY DEF VenueChanges, VenueGarbles, readerVars
<1>4. Registered \in SUBSET Readers
  BY DEF Registered
<1>5. /\ queue' \in [Readers -> Seq(Frames)]
      /\ \A r \in Readers : Len(queue'[r]) <= QueueSize
      /\ missed' \subseteq Readers
      /\ QueueTrue' /\ QueueOrdered' /\ OutBehindQueue'
  <2>1. ASSUME NEW f \in Frames, Deliver(Registered, f), TrueFrame(hist', shape', f),
               f.type = "bad" \/ f.u = Len(hist')
        PROVE  <1>5!:
    BY <2>1, <1>1, <1>2, <1>3, <1>4, DeliverKeeps
  \* a delta, with all its numbers or without some of them
  <2>2. ASSUME NEW f \in Frames, shape.frame \in Deltas, IsDelta(f, Len(hist) + 1, l, q)
        PROVE  f.u = Len(hist') /\ TrueFrame(hist', shape', f)
    BY <1>1, <1>2, <1>3, <2>2 DEF IsDelta, TrueFrame, Applied
  <2>3. CASE VenueGarbles(l, q)
    <3>1. PICK f \in Damaged(Len(hist) + 1, l, q) : Deliver(Registered, f)
      BY <2>3 DEF VenueGarbles
    <3>2. \/ f = Garbage
          \/ f \in Frames /\ shape.frame \in Deltas /\ IsDelta(f, Len(hist) + 1, l, q)
      <4>1. Len(hist) + 1 \in Nat \ {0}
        BY <1>1
      <4> QED
        BY <4>1, DamagedFrames
    <3>3. Garbage \in Frames /\ TrueFrame(hist', shape', Garbage) /\ Garbage.type = "bad"
      BY DEF Garbage, Frames, TrueFrame
    <3> QED
      BY <2>1, <2>2, <3>1, <3>2, <3>3
  <2>6. CASE VenueChanges(l, q) /\ asked /\ shape.frame \in Deltas
    <3> DEFINE u == Len(hist) + 1
               f == Delta(u, l, q, Num(u), Prev(u))
    <3>1. f \in Frames /\ IsDelta(f, u, l, q)
      BY <1>1, DeltaFrames
    <3>3. Deliver(Registered, f)
      BY <2>6 DEF VenueChanges
    <3> HIDE DEF f
    <3> QED
      BY <2>1, <2>2, <2>6, <3>1, <3>3
  <2>4. CASE VenueChanges(l, q) /\ asked /\ shape.frame \notin Deltas
    <3> DEFINE f == Whole(Len(hist) + 1, b)
    <3>1. f \in Frames /\ f.u = Len(hist')
      BY <1>1, <1>2 DEF Whole, Frames
    <3>2. TrueFrame(hist', shape', f)
      BY <1>1, <1>2, <1>3 DEF Whole, TrueFrame
    <3>3. Deliver(Registered, f)
      BY <2>4 DEF VenueChanges
    <3> QED
      BY <2>1, <3>1, <3>2, <3>3
  <2>5. CASE VenueChanges(l, q) /\ ~asked
    <3>1. queue' = queue /\ missed' = missed
      BY <2>5 DEF VenueChanges
    <3>2. QueueTrue'
      <4> SUFFICES ASSUME NEW r \in Readers, NEW i \in 1..Len(queue[r])
                   PROVE  TrueFrame(hist', shape', queue[r][i])
        BY <3>1 DEF QueueTrue
      <4>1. queue[r][i] \in Frames /\ TrueFrame(hist, shape, queue[r][i])
        BY DEF IInv, TypeOK, QueueTrue
      <4> QED
        BY <4>1, <1>1, <1>2, <1>3, TrueFrameStays DEF IInv
    <3> QED
      BY <3>1, <3>2, <1>3 DEF IInv, TypeOK, QueueOrdered, OutBehindQueue
  <2> QED
    BY <2>3, <2>4, <2>5, <2>6
<1>6. faults' \in Nat
  BY DEF IInv, TypeOK, VenueChanges, VenueGarbles
<1>7. TypeOK'
  <2>1. missed \subseteq missed'
    BY DEF VenueChanges, VenueGarbles, Deliver
  <2> QED
    BY <1>1, <1>2, <1>3, <1>5, <1>6, <2>1 DEF IInv, TypeOK
<1>8. OutInHist'
  BY <1>1, <1>2, <1>3 DEF IInv, OutInHist
<1> QED
  BY <1>5, <1>7, <1>8 DEF IInv

\* Connecting, disconnecting and joining show nobody anything and keep the invariant.
LEMMA HubStep ==
    ASSUME IInv, \/ Connect \/ Disconnect
                 \/ \E r \in Readers : Open(r) \/ OldQueueGone(r)
    PROVE  IInv' /\ out' = out /\ hist' = hist /\ shape' = shape
<1>1. /\ shape' = shape /\ hist' = hist /\ out' = out /\ book' = book
      /\ last' = last /\ boot' = boot /\ at' = at /\ doubt' = doubt
  BY DEF Connect, Disconnect, Open, OldQueueGone, readerVars
<1>0. /\ faults \in Nat /\ missed \subseteq missed'
      /\ faults' = faults \/ faults' = faults + 1
  <2>1. ASSUME NEW rs, Opening(rs)
        PROVE  missed \subseteq missed' /\ (faults' = faults \/ faults' = faults + 1)
    BY <2>1 DEF Opening, Deliver
  <2> QED
    BY <2>1 DEF Connect, Disconnect, Open, OldQueueGone, IInv, TypeOK
<1>2. /\ queue' \in [Readers -> Seq(Frames)]
      /\ \A r \in Readers : Len(queue'[r]) <= QueueSize
      /\ missed' \subseteq Readers
      /\ QueueTrue' /\ QueueOrdered' /\ OutBehindQueue'
  <2>1. CASE UNCHANGED <<queue, missed>>
    BY <2>1, <1>1 DEF IInv, TypeOK, QueueTrue, QueueOrdered, OutBehindQueue
  <2>2. ASSUME NEW rs \in SUBSET Readers, Opening(rs)
        PROVE  <1>2!:
    BY <2>2, <1>1, OpeningKeeps
  <2>3. CASE Connect
    <3>1. Registered \in SUBSET Readers
      BY DEF Registered
    <3>2. Opening(Registered) \/ UNCHANGED <<queue, missed>>
      BY <2>3 DEF Connect
    <3> QED
      BY <2>1, <2>2, <3>1, <3>2
  <2>4. ASSUME NEW r \in Readers, Open(r)
        PROVE  <1>2!:
    <3>1. Opening({r}) \/ UNCHANGED <<queue, missed>>
      BY <2>4 DEF Open
    <3>2. {r} \in SUBSET Readers
      OBVIOUS
    <3> QED
      BY <2>1, <2>2, <3>1, <3>2
  <2>5. CASE Disconnect \/ \E r \in Readers : OldQueueGone(r)
    <3>1. UNCHANGED <<queue, missed>>
      BY <2>5 DEF Disconnect, OldQueueGone
    <3> QED
      BY <2>1, <3>1
  <2> QED
    BY <2>3, <2>4, <2>5
<1>3. /\ up' \in BOOLEAN /\ asked' \in BOOLEAN
      /\ state' \in [Readers -> {"idle", "reading", "ended"}]
      /\ stale' \subseteq Readers /\ faults' \in Nat
  <2>1. CASE Connect
    BY <1>0, <2>1 DEF IInv, TypeOK, Connect, readerVars
  <2>2. CASE Disconnect
    <3>1. /\ up' = FALSE /\ asked' = FALSE
          /\ state' = state /\ stale' = stale
      BY <2>2 DEF Disconnect, readerVars
    <3>2. /\ stale \subseteq Readers
          /\ state \in [Readers -> {"idle", "reading", "ended"}]
      BY DEF IInv, TypeOK
    <3>3. up' \in BOOLEAN /\ asked' \in BOOLEAN
      BY <3>1, Zenon
    <3>4. faults' \in Nat
      BY <1>0
    <3>5. state' \in [Readers -> {"idle", "reading", "ended"}] /\ stale' \subseteq Readers
      BY <3>1, <3>2, Zenon
    <3> QED
      BY <3>3, <3>4, <3>5
  <2>3. ASSUME NEW r \in Readers, Open(r) \/ OldQueueGone(r)
        PROVE  <1>3!:
    <3>1. faults' \in Nat
      BY <1>0
    <3>2. up' = up /\ (asked' = asked \/ asked' = TRUE) /\ stale' \subseteq stale
          /\ state' \in [Readers -> {"idle", "reading", "ended"}]
      BY <2>3 DEF IInv, TypeOK, Open, OldQueueGone
    <3> QED
      BY <3>1, <3>2 DEF IInv, TypeOK
  <2> QED
    BY <2>1, <2>2, <2>3
<1>4. TypeOK'
  BY <1>0, <1>1, <1>2, <1>3 DEF IInv, TypeOK
<1> QED
  BY <1>1, <1>2, <1>4 DEF IInv, OutInHist

-----------------------------------------------------------------------------
(* The steps of the readers *)

\* A reader that leaves takes its queue and what it was shown with it.
LEMMA LeaveStep ==
    ASSUME IInv, NEW r \in Readers, Leave(r)
    PROVE  IInv' /\ hist' = hist /\ shape' = shape /\ out' = [out EXCEPT ![r] = None]
<1>1. /\ shape' = shape /\ hist' = hist /\ out' = [out EXCEPT ![r] = None]
      /\ queue' = [queue EXCEPT ![r] = <<>>] /\ boot' = [boot EXCEPT ![r] = FALSE]
      /\ book' = [book EXCEPT ![r] = NoBook] /\ last' = [last EXCEPT ![r] = None]
      /\ at' = [at EXCEPT ![r] = 0] /\ missed' = missed \ {r} /\ doubt' = doubt \ {r}
  BY DEF Leave, Fresh
<1>2. /\ queue' \in [Readers -> Seq(Frames)] /\ queue'[r] = <<>> /\ Len(queue'[r]) = 0
      /\ out'[r] = None /\ boot'[r] = FALSE
      /\ \A s \in Readers \ {r} : /\ queue'[s] = queue[s] /\ out'[s] = out[s]
                                  /\ boot'[s] = boot[s] /\ book'[s] = book[s]
                                  /\ last'[s] = last[s]
      /\ Len(queue[r]) \in Nat
  BY <1>1 DEF IInv, TypeOK
<1>3. /\ \A s \in Readers : Len(queue'[s]) <= QueueSize
      /\ QueueTrue' /\ QueueOrdered' /\ OutBehindQueue'
  <2>1. /\ Len(queue'[r]) = Len(queue[r]) - Len(queue[r])
        /\ \A i \in 1..(Len(queue[r]) - Len(queue[r])) : queue'[r][i] = queue[r][i + Len(queue[r])]
    BY <1>2
  <2> QED
    BY <1>1, <1>2, <2>1, TakingKeeps
<1>4. NoBook \in Books
  BY FeedsAssumption DEF NoBook, Books
<1>5. /\ state' \in [Readers -> {"idle", "reading", "ended"}] /\ missed' \subseteq Readers
      /\ doubt' \subseteq missed'
      /\ stale' \subseteq Readers /\ faults' \in Nat /\ up' \in BOOLEAN /\ asked' \in BOOLEAN
  BY <1>1 DEF IInv, TypeOK, Leave
<1>6. /\ book' \in [Readers -> Books] /\ last' \in [Readers -> Numbers]
      /\ boot' \in [Readers -> BOOLEAN] /\ out' \in [Readers -> Yields \cup {None}]
      /\ at' \in [Readers -> Nat]
  BY <1>1, <1>4 DEF IInv, TypeOK, Numbers
<1>7. TypeOK'
  BY <1>1, <1>2, <1>3, <1>5, <1>6 DEF IInv, TypeOK
<1>8. OutInHist'
  BY <1>1, <1>2 DEF IInv, OutInHist
<1> QED
  BY <1>1, <1>3, <1>7, <1>8 DEF IInv

\* What taking a frame shows the reader: what it saw before, nothing, or a
\* value that is not older.
ShowsNewer(r) ==
    \E o \in Yields \cup {None} :
        /\ out' = [out EXCEPT ![r] = o]
        /\ \/ o = out[r] \/ o = None
           \/ /\ ~shape.replay /\ out[r] # None => o.u >= out[r].u
              /\ o.u \in 1..Len(hist)

\* The method returns: over LocalBackend it starts over with a fresh queue,
\* otherwise the frame is taken and nothing else happens.
LEMMA EndsStep ==
    ASSUME IInv, NEW r \in Readers, queue[r] # <<>>, Ends(r),
           UNCHANGED <<shape, hist, up, asked, faults>>
    PROVE  IInv' /\ ShowsNewer(r)
<1>1. NoBook \in Books
  BY FeedsAssumption DEF NoBook, Books
<1>2. CASE shape.restart
  <2>1. /\ out' = [out EXCEPT ![r] = None]
        /\ queue' = [queue EXCEPT ![r] = <<>>] /\ boot' = [boot EXCEPT ![r] = FALSE]
        /\ book' = [book EXCEPT ![r] = NoBook] /\ last' = [last EXCEPT ![r] = None]
        /\ state' = state /\ stale' = stale \cup {r} /\ missed' = missed \ {r}
        /\ at' = [at EXCEPT ![r] = 0] /\ doubt' = doubt \ {r}
    BY <1>2 DEF Ends, Fresh
  <2>2. /\ queue' \in [Readers -> Seq(Frames)] /\ queue'[r] = <<>> /\ Len(queue'[r]) = 0
        /\ out'[r] = None /\ boot'[r] = FALSE
        /\ \A s \in Readers \ {r} : /\ queue'[s] = queue[s] /\ out'[s] = out[s]
                                    /\ boot'[s] = boot[s] /\ book'[s] = book[s]
                                    /\ last'[s] = last[s]
        /\ Len(queue[r]) \in Nat
    BY <2>1 DEF IInv, TypeOK
  <2>3. /\ \A s \in Readers : Len(queue'[s]) <= QueueSize
        /\ QueueTrue' /\ QueueOrdered' /\ OutBehindQueue'
    <3>1. /\ Len(queue'[r]) = Len(queue[r]) - Len(queue[r])
          /\ \A i \in 1..(Len(queue[r]) - Len(queue[r])) : queue'[r][i] = queue[r][i + Len(queue[r])]
      BY <2>2
    <3> QED
      BY <2>1, <2>2, <3>1, TakingKeeps
  <2>4. /\ book' \in [Readers -> Books] /\ last' \in [Readers -> Numbers]
        /\ boot' \in [Readers -> BOOLEAN] /\ out' \in [Readers -> Yields \cup {None}]
        /\ at' \in [Readers -> Nat]
    BY <2>1, <1>1 DEF IInv, TypeOK, Numbers
  <2>5. TypeOK'
    BY <2>1, <2>2, <2>3, <2>4 DEF IInv, TypeOK
  <2>6. OutInHist'
    BY <2>2 DEF IInv, OutInHist
  <2> QED
    BY <2>1, <2>3, <2>5, <2>6 DEF IInv, ShowsNewer
<1>3. CASE ~shape.restart
  <2>1. /\ state' = [state EXCEPT ![r] = "ended"] /\ queue' = [queue EXCEPT ![r] = Tail(@)]
        /\ UNCHANGED <<stale, book, last, boot, at, out, missed, doubt>>
    BY <1>3 DEF Ends
  <2>2. /\ queue[r] \in Seq(Frames) /\ queue \in [Readers -> Seq(Frames)]
        /\ queue'[r] = Tail(queue[r]) /\ Tail(queue[r]) \in Seq(Frames)
        /\ Len(Tail(queue[r])) = Len(queue[r]) - 1
        /\ \A i \in 1..(Len(queue[r]) - 1) : Tail(queue[r])[i] = queue[r][i + 1]
    BY <2>1 DEF IInv, TypeOK
  <2>3. /\ queue' \in [Readers -> Seq(Frames)]
        /\ \A s \in Readers \ {r} : queue'[s] = queue[s]
    BY <2>1, <2>2
  <2>4. /\ \A s \in Readers : Len(queue'[s]) <= QueueSize
        /\ QueueTrue' /\ QueueOrdered' /\ OutBehindQueue'
    BY <2>1, <2>2, <2>3, TakingKeeps
  <2>5. TypeOK'
    BY <2>1, <2>3, <2>4 DEF IInv, TypeOK
  <2>6. OutInHist'
    BY <2>1 DEF IInv, OutInHist
  <2>7. ShowsNewer(r)
    <3>1. out' = [out EXCEPT ![r] = out[r]] /\ out[r] \in Yields \cup {None}
      BY <2>1 DEF IInv, TypeOK
    <3> QED
      BY <3>1 DEF ShowsNewer
  <2> QED
    BY <2>4, <2>5, <2>6, <2>7 DEF IInv
<1> QED
  BY <1>2, <1>3

\* One frame is taken and the reader is shown o: the old value, or one with
\* the number of the frame.
LEMMA TakenStep ==
    ASSUME IInv, NEW r \in Readers, queue[r] # <<>>,
           UNCHANGED <<shape, hist, up, asked, faults>>, Taken(r),
           NEW o \in Yields \cup {None},
           out' = [out EXCEPT ![r] = o],
           \/ o = out[r]
           \/ Head(queue[r]).type # "bad" /\ o.u = Head(queue[r]).u,
           missed' \subseteq Readers, doubt' \subseteq missed', book' \in [Readers -> Books],
           last' \in [Readers -> Numbers], boot' \in [Readers -> BOOLEAN],
           at' \in [Readers -> Nat]
    PROVE  IInv' /\ ShowsNewer(r)
<1> DEFINE f == queue[r][1]
<1>1. /\ queue[r] \in Seq(Frames) /\ queue \in [Readers -> Seq(Frames)]
      /\ queue' = [queue EXCEPT ![r] = Tail(@)] /\ state' = state /\ stale' = stale
      /\ queue'[r] = Tail(queue[r]) /\ Tail(queue[r]) \in Seq(Frames)
      /\ Len(Tail(queue[r])) = Len(queue[r]) - 1 /\ Len(queue[r]) >= 1
      /\ Head(queue[r]) = f /\ 1 \in 1..Len(queue[r])
      /\ \A i \in 1..(Len(queue[r]) - 1) : Tail(queue[r])[i] = queue[r][i + 1]
  BY DEF IInv, TypeOK, Taken
<1>2. /\ queue' \in [Readers -> Seq(Frames)] /\ out'[r] = o
      /\ \A s \in Readers \ {r} : queue'[s] = queue[s] /\ out'[s] = out[s]
  BY <1>1 DEF IInv, TypeOK
<1>3. TrueFrame(hist, shape, f)
  BY <1>1 DEF IInv, QueueTrue
<1>4. f.type # "bad" => f.u \in 1..Len(hist)
  BY <1>3 DEF TrueFrame, IInv, TypeOK
<1>5. /\ \A s \in Readers : Len(queue'[s]) <= QueueSize
      /\ QueueTrue' /\ QueueOrdered' /\ OutBehindQueue'
  <2>1. /\ Len(queue'[r]) = Len(queue[r]) - 1
        /\ \A i \in 1..(Len(queue[r]) - 1) : queue'[r][i] = queue[r][i + 1]
    BY <1>1
  <2>2. \/ out'[r] = out[r]
        \/ Len(queue[r]) >= 1 /\ queue[r][1].type # "bad" /\ out'[r].u = queue[r][1].u
    BY <1>1, <1>2
  <2> QED
    BY <1>2, <2>1, <2>2, TakingKeeps
<1>6. out' \in [Readers -> Yields \cup {None}]
  BY DEF IInv, TypeOK
<1>7. TypeOK'
  BY <1>1, <1>2, <1>5, <1>6 DEF IInv, TypeOK
<1>8. OutInHist'
  <2> SUFFICES ASSUME NEW s \in Readers, out'[s] # None
               PROVE  out'[s].u \in 1..Len(hist)
    BY DEF OutInHist
  <2>1. CASE out'[s] = out[s]
    BY <2>1 DEF IInv, OutInHist
  <2>2. CASE s = r /\ o # out[r]
    BY <2>2, <1>1, <1>2, <1>4
  <2> QED
    BY <2>1, <2>2, <1>2
<1>9. ShowsNewer(r)
  <2>1. CASE o = out[r]
    BY <2>1 DEF ShowsNewer
  <2>2. CASE o # out[r]
    <3>1. ~shape.replay /\ out[r] # None => o.u >= out[r].u
      <4>1. ASSUME ~shape.replay, out[r] # None
            PROVE  out[r].u <= f.u /\ out[r].u \in Nat /\ f.u \in Nat
        <5>1. f.type # "bad" /\ f.u \in 1..Len(hist) /\ Len(hist) \in Nat
          BY <1>1, <1>4, <2>2 DEF IInv, TypeOK
        <5>2. out[r].u <= f.u
          BY <4>1, <5>1, <1>1 DEF IInv, OutBehindQueue
        <5>3. out[r].u \in 1..Len(hist)
          BY <4>1 DEF IInv, OutInHist
        <5> QED
          BY <5>1, <5>2, <5>3
      <4> QED
        BY <4>1, <2>2, <1>1
    <3>2. o.u \in 1..Len(hist)
      BY <2>2, <1>1, <1>4
    <3> QED
      BY <2>2, <3>1, <3>2 DEF ShowsNewer
  <2> QED
    BY <2>1, <2>2
<1> QED
  BY <1>5, <1>7, <1>8, <1>9 DEF IInv

\* A reader that takes a frame is shown nothing older than before.
LEMMA ReadStep ==
    ASSUME IInv, NEW r \in Readers, Read(r)
    PROVE  IInv' /\ ShowsNewer(r) /\ hist' = hist /\ shape' = shape
<1> DEFINE f == Head(queue[r])
<1>1. /\ queue[r] # <<>> /\ UNCHANGED <<shape, hist, up, asked, faults>>
      /\ ReadBad(r, f) \/ ReadWhole(r, f) \/ ReadSnapshot(r, f) \/ ReadUpdate(r, f)
  BY DEF Read
<1>2. f \in Frames /\ TrueFrame(hist, shape, f)
  <2>1. queue[r] \in Seq(Frames) /\ f = queue[r][1] /\ 1 \in 1..Len(queue[r])
    BY <1>1 DEF IInv, TypeOK
  <2> QED
    BY <2>1 DEF IInv, QueueTrue
<1>3. /\ book \in [Readers -> Books] /\ last \in [Readers -> Numbers]
      /\ boot \in [Readers -> BOOLEAN] /\ out \in [Readers -> Yields \cup {None}]
      /\ at \in [Readers -> Nat] /\ hist \in Seq(Books) /\ Len(hist) \in Nat
      /\ missed \subseteq Readers /\ doubt \subseteq missed
  BY DEF IInv, TypeOK
<1> HIDE DEF f
\* skipping a frame, or not yielding, shows the old value again
<1>4. out = [out EXCEPT ![r] = out[r]] /\ out[r] \in Yields \cup {None}
  BY <1>3
\* what a frame with a number yields
<1>5. ASSUME Taken(r), f.type # "bad", f.u \in Nat, NEW b \in Books,
             \/ out' = out
             \/ out' = [out EXCEPT ![r] = [u |-> f.u, book |-> b, sure |-> r \notin doubt']],
             missed' \subseteq Readers, doubt' \subseteq missed',
             book' \in [Readers -> Books], last' \in [Readers -> Numbers],
             boot' \in [Readers -> BOOLEAN], at' \in [Readers -> Nat]
      PROVE  IInv' /\ ShowsNewer(r)
  <2>1. CASE out' = out
    BY <1>1, <1>4, <1>5, <2>1, TakenStep
  <2>2. CASE out' = [out EXCEPT ![r] = [u |-> f.u, book |-> b, sure |-> r \notin doubt']]
    <3> DEFINE o == [u |-> f.u, book |-> b, sure |-> r \notin doubt']
    <3>1. o \in Yields \cup {None} /\ o.u = f.u
      BY <1>5 DEF Yields
    <3>2. out' = [out EXCEPT ![r] = o]
      BY <2>2
    <3> HIDE DEF o
    <3> QED
      BY <1>1, <1>5, <3>1, <3>2, TakenStep DEF f
  <2> QED
    BY <1>5, <2>1, <2>2
<1>6. CASE ReadBad(r, f)
  <2>1. CASE Ends(r)
    BY <1>1, <2>1, EndsStep
  <2>2. CASE /\ Taken(r) /\ missed' = missed \cup {r}
             /\ UNCHANGED <<book, last, boot, at, out, doubt>>
    <3>1. /\ out' = [out EXCEPT ![r] = out[r]] /\ missed' \subseteq Readers
          /\ doubt' \subseteq missed'
      BY <1>3, <1>4, <2>2
    <3> QED
      BY <1>1, <1>3, <1>4, <2>2, <3>1, TakenStep
  <2> QED
    BY <1>1, <1>6, <2>1, <2>2 DEF ReadBad
<1>7. CASE ReadWhole(r, f)
  <2>1. f.type # "bad" /\ f.u \in Nat /\ f.book \in Books
    BY <1>2, <1>3, <1>7 DEF ReadWhole, TrueFrame
  <2>2. Taken(r) /\ UNCHANGED <<book, last, boot, at, missed, doubt>> /\ Yield(r, f.u, f.book)
    BY <1>7 DEF ReadWhole
  <2> QED
    BY <1>1, <1>3, <1>5, <2>1, <2>2 DEF Yield
<1>8. CASE ReadSnapshot(r, f)
  <2>1. f.type # "bad" /\ f.u \in Nat /\ f.book \in Books /\ f.num \in Numbers
    BY <1>2, <1>3, <1>8 DEF ReadSnapshot, TrueFrame, Numbers
  <2>2. /\ Taken(r) /\ Yield(r, f.u, f.book)
        /\ book' = [book EXCEPT ![r] = f.book] /\ last' = [last EXCEPT ![r] = f.num]
        /\ boot' = [boot EXCEPT ![r] = TRUE] /\ at' = [at EXCEPT ![r] = f.u]
        /\ missed' = missed \ {r} /\ doubt' = doubt \ {r}
    BY <1>8 DEF ReadSnapshot
  <2>3. /\ book' \in [Readers -> Books] /\ last' \in [Readers -> Numbers]
        /\ boot' \in [Readers -> BOOLEAN] /\ at' \in [Readers -> Nat]
        /\ missed' \subseteq Readers /\ doubt' \subseteq missed'
    BY <1>3, <2>1, <2>2
  <2> QED
    BY <1>1, <1>5, <2>1, <2>2, <2>3 DEF Yield
<1>9. CASE ReadUpdate(r, f)
  <2>1. /\ f.type # "bad" /\ f.u \in Nat /\ f.num \in Numbers
        /\ f.level \in Levels /\ f.qty \in Qtys
    BY <1>2, <1>9 DEF ReadUpdate, Frames
  <2>2. CASE Ends(r)
    BY <1>1, <2>2, EndsStep
  <2>3. CASE ~Gap(r, f) /\ ~Ends(r)
    <3>1. /\ Taken(r) /\ last' = [last EXCEPT ![r] = f.num] /\ boot' = boot /\ missed' = missed
          /\ \/ /\ book' = [book EXCEPT ![r] = Applied(@, f)]
                /\ at' = [at EXCEPT ![r] = f.u]
                /\ doubt' = doubt \/ (r \in missed /\ doubt' = doubt \cup {r})
                /\ Yield(r, f.u, Applied(book[r], f))
             \/ book' = book /\ at' = at /\ doubt' = doubt /\ out' = out
      BY <1>9, <2>3 DEF ReadUpdate
    <3>2. Applied(book[r], f) \in Books
      BY <1>3, <2>1 DEF Applied, Books
    <3>3. /\ book' \in [Readers -> Books] /\ last' \in [Readers -> Numbers]
          /\ boot' \in [Readers -> BOOLEAN] /\ at' \in [Readers -> Nat]
          /\ missed' \subseteq Readers /\ doubt' \subseteq missed'
      BY <1>3, <2>1, <3>1, <3>2, SMTT(30)
    <3> QED
      BY <1>1, <1>5, <2>1, <3>1, <3>2, <3>3 DEF Yield
  <2> QED
    BY <1>9, <2>2, <2>3 DEF ReadUpdate
<1> QED
  BY <1>1, <1>6, <1>7, <1>8, <1>9

-----------------------------------------------------------------------------

\* The invariant holds before anybody reads.
LEMMA InitIInv == Init => IInv
<1> SUFFICES ASSUME Init PROVE IInv
  OBVIOUS
<1>1. NoBook \in Books
  BY FeedsAssumption DEF NoBook, Books
<1>2. \A r \in Readers : queue[r] = <<>> /\ Len(queue[r]) = 0 /\ out[r] = None /\ boot[r] = FALSE
  BY DEF Init
<1>3. TypeOK
  <2>1. hist \in Seq(Books) /\ Len(hist) >= 1
    BY <1>1 DEF Init
  <2>2. queue \in [Readers -> Seq(Frames)] /\ \A r \in Readers : Len(queue[r]) <= QueueSize
    BY <1>2, FeedsAssumption DEF Init
  <2> QED
    BY <1>1, <2>1, <2>2 DEF Init, TypeOK, Numbers
<1> QED
  BY <1>2, <1>3 DEF IInv, QueueTrue, QueueOrdered, OutBehindQueue, OutInHist

\* Every step keeps the invariant.
LEMMA NextIInv == IInv /\ [Next]_vars => IInv'
<1> SUFFICES ASSUME IInv, [Next]_vars PROVE IInv'
  OBVIOUS
<1>1. CASE UNCHANGED vars
  BY <1>1 DEF vars, IInv, TypeOK, QueueTrue, QueueOrdered, OutBehindQueue, OutInHist
<1> QED
  BY <1>1, VenueStep, HubStep, LeaveStep, ReadStep DEF Next

\* Hub queues, books and bookkeeping keep their types and the queues their
\* bound, for any number of readers and whatever the venue sends.
THEOREM FeedTypes == Spec => []TypeOK
<1>1. IInv => TypeOK
  BY DEF IInv
<1> QED
  BY <1>1, InitIInv, NextIInv, PTL DEF Spec

-----------------------------------------------------------------------------
(* The books that are built from deltas *)

\* Frame g is in its place behind frame f.
Follows(f, g) == g.type = "update" => f.type = "bad" \/ g.u = f.u + 1

\* The reader of a book that has missed nothing since its snapshot.
Unbroken(r) == state[r] = "reading" /\ boot[r] /\ r \notin missed

\* Within a queue no update is missing, whatever was dropped at its head, and
\* a delta feed has no frame with a whole value but its snapshots.
NoHoles(r) ==
    /\ \A i \in 1..(Len(queue[r]) - 1) : Follows(queue[r][i], queue[r][i + 1])
    /\ \A i \in 1..Len(queue[r]) : queue[r][i].type # "whole"

\* The queue continues where the reader is, and ends where the venue is.
HeadFits(r) ==
    Unbroken(r) /\ Len(queue[r]) > 0 /\ queue[r][1].type = "update"
        => queue[r][1].u = at[r] + 1

TailFits(r) ==
    asked =>
      /\ Len(queue[r]) > 0 => \/ queue[r][Len(queue[r])].type = "bad"
                              \/ queue[r][Len(queue[r])].u = Len(hist)
      /\ Len(queue[r]) = 0 /\ Unbroken(r) => at[r] = Len(hist)

\* A book that is not in doubt is the venue's, and the number the method
\* remembers, if it has one, is the number of that book.
BookReal(r) ==
    boot[r] =>
      /\ r \notin doubt => at[r] \in 1..Len(hist) /\ book[r] = hist[at[r]]
      /\ last[r] \in {at[r], None}

\* A reader without a stream has nothing queued and no book; a connected hub
\* has asked for a topic that has readers.
AskedAndIdle ==
    /\ shape.frame \in Deltas => ~shape.replay
    /\ up /\ Registered # {} => asked
    /\ \A r \in Readers : state[r] = "idle" => queue[r] = <<>> /\ boot[r] = FALSE

Chain(r) == NoHoles(r) /\ HeadFits(r) /\ TailFits(r) /\ BookReal(r)

ChainInv ==
    /\ IInv /\ AskedAndIdle /\ YieldedIsReal
    /\ shape.frame \in Deltas => \A r \in Readers : Chain(r)

-----------------------------------------------------------------------------
\* No subscription to a feed of deltas asks for a replay.
LEMMA DeltasAreNotReplayed ==
    ASSUME NEW s \in StreamShapes, s.frame \in Deltas
    PROVE  s.replay = FALSE
<1>1. PICK ex \in Exchanges, mt \in MarketTypes, ch \in WsChannels : s = StreamOf(ex, mt, ch)
  BY DEF StreamShapes
<1> USE DEF Method, Unstreamed, WsChannels, Deltas, Numbered
<1>2. CASE ex = "binance"
  BY <1>1, <1>2 DEF StreamOf, BinanceStream, BinanceTickerStream, BinanceBookTickerStream,
     BinanceOrderbookStream, BinanceTradesStream, BinanceAggTradesStream,
     BinanceMarkPriceStream, BinanceLiquidationsStream
<1>3. CASE ex = "bybit"
  BY <1>1, <1>3 DEF StreamOf, BybitStream, BybitTickerStream, BybitBookTickerStream,
     BybitOrderbookStream, BybitTradesStream, BybitLiquidationsStream
<1>4. CASE ex = "hyperliquid"
  BY <1>1, <1>4 DEF StreamOf, HyperliquidStream, HyperliquidTickerStream,
     HyperliquidBookTickerStream, HyperliquidOrderbookStream, HyperliquidTradesStream,
     HyperliquidMarkPriceStream
<1>5. CASE ex = "kraken"
  BY <1>1, <1>5 DEF StreamOf, KrakenStream, KrakenTickerStream, KrakenBookTickerStream,
     KrakenSpotBookStream, KrakenFuturesBookStream, KrakenTradesStream, KrakenMarkPriceStream
<1>6. CASE ex = "kucoin"
  BY <1>1, <1>6 DEF StreamOf, KucoinStream, KucoinTickerStream, KucoinSpotBookTickerStream,
     KucoinFutBookTickerStream, KucoinOrderbookStream, KucoinTradesStream,
     KucoinMarkPriceStream
<1>7. CASE ex = "okx"
  BY <1>1, <1>7 DEF StreamOf, OkxStream, OkxTickerStream, OkxBookTickerStream,
     OkxOrderbookStream, OkxTradesStream, OkxMarkPriceStream, OkxLiquidationsStream
<1> QED
  BY <1>2, <1>3, <1>4, <1>5, <1>6, <1>7 DEF Exchanges

\* The venue's history keeps its entries.
LEMMA HistoryGrows ==
    ASSUME TypeOK, hist' = hist \/ \E b \in Books : hist' = Append(hist, b)
    PROVE  /\ Len(hist') >= Len(hist) /\ Len(hist') \in Nat /\ Len(hist) \in Nat
           /\ \A u \in 1..Len(hist) : hist'[u] = hist[u]
<1>1. hist \in Seq(Books)
  BY DEF TypeOK
<1>2. CASE hist' = hist
  BY <1>1, <1>2
<1>3. ASSUME NEW b \in Books, hist' = Append(hist, b)
      PROVE  /\ Len(hist') >= Len(hist) /\ Len(hist') \in Nat /\ Len(hist) \in Nat
             /\ \A u \in 1..Len(hist) : hist'[u] = hist[u]
  BY <1>1, <1>3
<1> QED
  BY <1>2, <1>3

\* A reader that has no stream, or no book and an empty queue, is in order.
LEMMA EmptyChain ==
    ASSUME NEW r \in Readers, queue'[r] = <<>>, boot'[r] = FALSE
    PROVE  Chain(r)'
BY DEF Chain, NoHoles, HeadFits, TailFits, BookReal, Unbroken

\* Nothing reaches the reader: the topic is not asked for, or nothing changes.
LEMMA QuietChain ==
    ASSUME TypeOK, NEW r \in Readers, Chain(r),
           queue'[r] = queue[r], r \in missed <=> r \in missed', state'[r] = state[r],
           book'[r] = book[r], last'[r] = last[r], boot'[r] = boot[r],
           at'[r] = at[r], r \in doubt <=> r \in doubt',
           hist' = hist \/ \E b \in Books : hist' = Append(hist, b),
           asked' => asked /\ hist' = hist
    PROVE  Chain(r)'
<1>1. /\ Len(hist') >= Len(hist) /\ Len(hist') \in Nat /\ Len(hist) \in Nat
      /\ \A u \in 1..Len(hist) : hist'[u] = hist[u]
  BY HistoryGrows
<1>2. NoHoles(r)' /\ HeadFits(r)' /\ TailFits(r)'
  BY DEF Chain, NoHoles, HeadFits, TailFits, Unbroken, Follows
<1>3. BookReal(r)'
  BY <1>1 DEF Chain, BookReal
<1> QED
  BY <1>2, <1>3 DEF Chain

\* A snapshot, a malformed frame, or the update that comes next.
LEMMA DeliverChain ==
    ASSUME TypeOK, NEW rs \in SUBSET Readers, NEW r \in rs, Chain(r),
           NEW f \in Frames, Deliver(rs, f), UNCHANGED <<book, last, boot, at, doubt>>,
           state'[r] = state[r] \/ boot[r] = FALSE,
           hist' = hist \/ \E b \in Books : hist' = Append(hist, b),
           f.type # "whole", f.type = "bad" \/ f.u = Len(hist'),
           f.type = "update" => asked /\ Len(hist') = Len(hist) + 1
    PROVE  Chain(r)'
<1>0. /\ book' = book /\ last' = last /\ boot' = boot /\ at' = at /\ doubt' = doubt
      /\ boot[r] \in BOOLEAN /\ r \in Readers
  BY DEF TypeOK
<1>1. /\ Len(hist') >= Len(hist) /\ Len(hist') \in Nat /\ Len(hist) \in Nat
      /\ \A u \in 1..Len(hist) : hist'[u] = hist[u]
  BY HistoryGrows
<1>2. /\ queue[r] \in Seq(Frames) /\ Len(queue[r]) \in Nat /\ Len(queue[r]) <= QueueSize
      /\ queue'[r] = Put(queue[r], f)
  BY DEF TypeOK, Deliver
<1>3. PICK d \in {0, 1} :
         /\ Len(queue'[r]) = Len(queue[r]) + 1 - d
         /\ \A i \in 1..(Len(queue[r]) - d) : queue'[r][i] = queue[r][i + d]
         /\ queue'[r][Len(queue[r]) + 1 - d] = f
  <2>1. \E d \in {0, 1} :
           /\ Len(Put(queue[r], f)) = Len(queue[r]) + 1 - d
           /\ \A i \in 1..(Len(queue[r]) - d) : Put(queue[r], f)[i] = queue[r][i + d]
           /\ Put(queue[r], f)[Len(queue[r]) + 1 - d] = f
    BY <1>2, PutShifts
  <2> QED
    BY <1>2, <2>1
<1>4. Unbroken(r)' => Unbroken(r) /\ Len(queue[r]) < QueueSize
  <2>1. Unbroken(r)' => r \notin missed /\ Len(queue[r]) # QueueSize
    BY DEF Unbroken, Deliver
  <2>2. Unbroken(r)' => Unbroken(r)
    BY <1>0, <2>1 DEF Unbroken
  <2> QED
    BY <2>1, <2>2, <1>2, FeedsAssumption
<1>5. Len(queue[r]) < QueueSize => d = 0
  <2>1. Len(queue[r]) < QueueSize => Len(Put(queue[r], f)) = Len(queue[r]) + 1
    <3>1. Len(queue[r]) < QueueSize => Put(queue[r], f) = Append(queue[r], f)
      BY DEF Put
    <3> QED
      BY <3>1, <1>2
  <2> QED
    BY <2>1, <1>2, <1>3
<1>6. Len(queue[r]) > 0 => Follows(queue[r][Len(queue[r])], f)
  BY DEF Chain, TailFits, Follows
<1>7. NoHoles(r)'
  <2>3. ASSUME NEW i \in 1..Len(queue'[r])
        PROVE  queue'[r][i].type # "whole"
    <3>1. CASE i <= Len(queue[r]) - d
      BY SMTT(20), <1>2, <1>3, <3>1 DEF Chain, NoHoles
    <3>2. CASE i = Len(queue[r]) + 1 - d
      BY <1>3, <3>2
    <3> QED
      BY <1>2, <1>3, <3>1, <3>2
  <2> SUFFICES ASSUME NEW i \in 1..(Len(queue'[r]) - 1)
               PROVE  Follows(queue'[r][i], queue'[r][i + 1])
    BY <2>3 DEF NoHoles, Follows
  <2>1. CASE i + 1 <= Len(queue[r]) - d
    <3>1. queue'[r][i] = queue[r][i + d] /\ queue'[r][i + 1] = queue[r][(i + d) + 1]
      <4>1. /\ i \in 1..(Len(queue[r]) - d) /\ i + 1 \in 1..(Len(queue[r]) - d)
            /\ (i + 1) + d = (i + d) + 1
        BY <1>2, <2>1, SMTT(30)
      <4>2. queue'[r][i + 1] = queue[r][(i + 1) + d]
        BY <4>1, <1>3
      <4> QED
        BY <4>1, <4>2, <1>3
    <3>2. i + d \in 1..(Len(queue[r]) - 1)
      BY <1>2, <2>1
    <3> QED
      BY <3>1, <3>2 DEF Chain, NoHoles
  <2>2. CASE i = Len(queue[r]) - d
    <3>1. /\ queue'[r][i] = queue[r][Len(queue[r])] /\ queue'[r][i + 1] = f
          /\ Len(queue[r]) > 0
      BY SMTT(20), <1>2, <1>3, <2>2
    <3> QED
      BY <3>1, <1>6
  <2> QED
    BY <1>2, <1>3, <2>1, <2>2
<1>8. HeadFits(r)'
  <2> SUFFICES ASSUME Unbroken(r)', queue'[r][1].type = "update"
               PROVE  queue'[r][1].u = at[r] + 1
    BY DEF HeadFits
  <2>1. Unbroken(r) /\ d = 0
    BY <1>4, <1>5
  <2>2. CASE Len(queue[r]) > 0
    <3>1. queue'[r][1] = queue[r][1]
      BY <1>2, <1>3, <2>1, <2>2
    <3> QED
      BY <3>1, <2>1, <2>2 DEF Chain, HeadFits
  <2>3. CASE Len(queue[r]) = 0
    <3>1. queue'[r][1] = f
      BY <1>2, <1>3, <2>1, <2>3
    <3>2. at[r] = Len(hist)
      BY <3>1, <2>1, <2>3 DEF Chain, TailFits
    <3> QED
      BY <3>1, <3>2
  <2> QED
    BY <1>2, <2>2, <2>3
<1>9. TailFits(r)'
  <2>1. Len(queue'[r]) > 0 /\ queue'[r][Len(queue'[r])] = f
    BY <1>2, <1>3, <1>5, FeedsAssumption
  <2> QED
    BY <2>1 DEF TailFits
<1>10. BookReal(r)'
  <2>1. ASSUME r \notin doubt, boot[r]
        PROVE  at[r] \in 1..Len(hist') /\ book[r] = hist'[at[r]]
    BY <2>1, <1>1 DEF Chain, BookReal
  <2> QED
    BY <1>0, <2>1 DEF Chain, BookReal
<1> QED
  BY <1>7, <1>8, <1>9, <1>10 DEF Chain

\* The reader takes a frame and, unless it is broken, is where the frame is.
LEMMA TakenChain ==
    ASSUME TypeOK, NEW r \in Readers, Chain(r), Len(queue[r]) > 0,
           queue'[r] = Tail(queue[r]), hist' = hist, asked' = asked,
           Unbroken(r)' => queue[r][1].type # "bad" /\ at'[r] = queue[r][1].u,
           BookReal(r)'
    PROVE  Chain(r)'
<1>1. /\ queue[r] \in Seq(Frames) /\ Len(queue[r]) \in Nat
      /\ Len(queue'[r]) = Len(queue[r]) - 1
      /\ \A i \in 1..(Len(queue[r]) - 1) : queue'[r][i] = queue[r][i + 1]
  BY DEF TypeOK
<1>2. NoHoles(r)'
  <2>1. ASSUME NEW i \in 1..(Len(queue'[r]) - 1)
        PROVE  Follows(queue'[r][i], queue'[r][i + 1])
    <3>1. queue'[r][i] = queue[r][i + 1] /\ queue'[r][i + 1] = queue[r][(i + 1) + 1]
      BY <1>1
    <3>2. i + 1 \in 1..(Len(queue[r]) - 1)
      BY <1>1
    <3> QED
      BY <3>1, <3>2 DEF Chain, NoHoles
  <2>2. \A i \in 1..Len(queue'[r]) : queue'[r][i].type # "whole"
    BY <1>1 DEF Chain, NoHoles
  <2> QED
    BY <2>1, <2>2 DEF NoHoles, Follows
<1>3. HeadFits(r)'
  <2> SUFFICES ASSUME Unbroken(r)', Len(queue'[r]) > 0, queue'[r][1].type = "update"
               PROVE  queue'[r][1].u = at'[r] + 1
    BY DEF HeadFits
  <2>1. 1 \in 1..(Len(queue[r]) - 1) /\ queue'[r][1] = queue[r][1 + 1]
    BY <1>1
  <2>2. Follows(queue[r][1], queue[r][1 + 1])
    BY <2>1 DEF Chain, NoHoles
  <2> QED
    BY <2>1, <2>2 DEF Follows
<1>4. TailFits(r)'
  <2> SUFFICES ASSUME asked
               PROVE  /\ Len(queue'[r]) > 0 => \/ queue'[r][Len(queue'[r])].type = "bad"
                                               \/ queue'[r][Len(queue'[r])].u = Len(hist)
                      /\ Len(queue'[r]) = 0 /\ Unbroken(r)' => at'[r] = Len(hist)
    BY DEF TailFits
  <2>1. Len(queue'[r]) > 0 => queue'[r][Len(queue'[r])] = queue[r][Len(queue[r])]
    BY <1>1
  <2>2. Len(queue'[r]) = 0 => Len(queue[r]) = 1
    BY <1>1
  <2>3. queue[r][Len(queue[r])].type = "bad" \/ queue[r][Len(queue[r])].u = Len(hist)
    BY DEF Chain, TailFits
  <2> QED
    BY <2>1, <2>2, <2>3
<1> QED
  BY <1>2, <1>3, <1>4 DEF Chain

\* The step of one reader.
LEMMA ReadChain ==
    ASSUME IInv, shape.frame \in Deltas, NEW r \in Readers, Read(r),
           \A s \in Readers : Chain(s)
    PROVE  \A s \in Readers : Chain(s)'
<1> DEFINE f == queue[r][1]
<1>1. /\ UNCHANGED <<shape, hist, up, asked, faults>> /\ state[r] = "reading"
      /\ ReadBad(r, f) \/ ReadSnapshot(r, f) \/ ReadUpdate(r, f)
      /\ Len(queue[r]) > 0 /\ f \in Frames /\ TrueFrame(hist, shape, f)
  <2>1. /\ queue[r] # <<>> /\ queue[r] \in Seq(Frames)
    BY DEF Read, IInv, TypeOK
  <2>2. Len(queue[r]) \in Nat /\ Len(queue[r]) > 0 /\ f = Head(queue[r]) /\ f \in Frames
    BY <2>1
  <2>3. f.type # "whole" /\ TrueFrame(hist, shape, f)
    BY <2>2 DEF Chain, NoHoles, IInv, QueueTrue
  <2> QED
    BY <2>2, <2>3 DEF Read, ReadWhole
<1>2. /\ TypeOK /\ book \in [Readers -> Books] /\ last \in [Readers -> Numbers]
      /\ boot \in [Readers -> BOOLEAN] /\ queue \in [Readers -> Seq(Frames)]
      /\ state \in [Readers -> {"idle", "reading", "ended"}]
      /\ at \in [Readers -> Nat] /\ doubt \subseteq missed
      /\ hist \in Seq(Books) /\ Len(hist) \in Nat
  BY DEF IInv, TypeOK
<1> HIDE DEF f
<1>3. CASE Ends(r)
  <2>1. CASE shape.restart
    <3>1. /\ queue' = [queue EXCEPT ![r] = <<>>] /\ boot' = [boot EXCEPT ![r] = FALSE]
          /\ book' = [book EXCEPT ![r] = NoBook] /\ last' = [last EXCEPT ![r] = None]
          /\ missed' = missed \ {r} /\ state' = state
          /\ at' = [at EXCEPT ![r] = 0] /\ doubt' = doubt \ {r}
      BY <1>3, <2>1 DEF Ends, Fresh
    <3>2. Chain(r)'
      BY <1>2, <3>1, EmptyChain
    <3>3. ASSUME NEW s \in Readers \ {r} PROVE Chain(s)'
      BY <1>1, <1>2, <3>1, QuietChain
    <3> QED
      BY <3>2, <3>3
  <2>2. CASE ~shape.restart
    <3>1. /\ queue' = [queue EXCEPT ![r] = Tail(@)] /\ state' = [state EXCEPT ![r] = "ended"]
          /\ boot' = boot /\ book' = book /\ last' = last /\ missed' = missed
          /\ at' = at /\ doubt' = doubt
      BY <1>3, <2>2 DEF Ends
    <3>2. Chain(r)'
      <4>1. ~Unbroken(r)' /\ queue'[r] = Tail(queue[r])
        BY <1>2, <3>1 DEF Unbroken
      <4>2. BookReal(r)'
        BY <1>1, <3>1 DEF Chain, BookReal
      <4> QED
        BY <4>1, <4>2, <1>1, <1>2, TakenChain
    <3>3. ASSUME NEW s \in Readers \ {r} PROVE Chain(s)'
      BY <1>1, <1>2, <3>1, QuietChain
    <3> QED
      BY <3>2, <3>3
  <2> QED
    BY <2>1, <2>2
<1>4. CASE Taken(r) /\ missed' = missed \cup {r} /\ UNCHANGED <<book, last, boot, at, doubt>>
  <2>1. /\ queue' = [queue EXCEPT ![r] = Tail(@)] /\ state' = state
        /\ boot' = boot /\ book' = book /\ last' = last /\ at' = at /\ doubt' = doubt
    BY <1>4 DEF Taken
  <2>2. Chain(r)'
    <3>1. ~Unbroken(r)' /\ BookReal(r)' /\ queue'[r] = Tail(queue[r])
      BY <1>1, <1>2, <1>4, <2>1 DEF Unbroken, Chain, BookReal
    <3> QED
      BY <3>1, <1>1, <1>2, TakenChain
  <2>3. ASSUME NEW s \in Readers \ {r} PROVE Chain(s)'
    <3>1. s \in missed <=> s \in missed'
      BY <1>4
    <3> QED
      BY <3>1, <1>1, <1>2, <2>1, QuietChain
  <2> QED
    BY <2>2, <2>3
<1>5. CASE ReadSnapshot(r, f)
  <2>1. /\ f.type = "snapshot" /\ f.u \in 1..Len(hist) /\ f.book = hist[f.u]
        /\ f.num \in {f.u, None}
        /\ queue' = [queue EXCEPT ![r] = Tail(@)] /\ state' = state
        /\ book' = [book EXCEPT ![r] = f.book] /\ last' = [last EXCEPT ![r] = f.num]
        /\ boot' = [boot EXCEPT ![r] = TRUE] /\ missed' = missed \ {r}
        /\ at' = [at EXCEPT ![r] = f.u] /\ doubt' = doubt \ {r}
    BY <1>1, <1>5 DEF ReadSnapshot, TrueFrame, Taken
  <2>2. Chain(r)'
    <3>1. /\ at'[r] = f.u /\ last'[r] = f.num /\ book'[r] = f.book
          /\ queue'[r] = Tail(queue[r])
      BY <1>2, <2>1
    <3>2. BookReal(r)'
      BY <1>1, <2>1, <3>1 DEF BookReal
    <3> QED
      BY <3>1, <3>2, <2>1, <1>1, <1>2, TakenChain DEF f
  <2>3. ASSUME NEW s \in Readers \ {r} PROVE Chain(s)'
    BY <1>1, <1>2, <2>1, QuietChain
  <2> QED
    BY <2>2, <2>3
<1>6. CASE ReadUpdate(r, f) /\ ~Ends(r)
  <2>1. /\ f.type = "update" /\ f.u \in 2..Len(hist) /\ hist[f.u] = Applied(hist[f.u - 1], f)
        /\ f.num \in {f.u, None} /\ f.prev \in {f.u - 1, None} /\ ~Gap(r, f)
        /\ queue' = [queue EXCEPT ![r] = Tail(@)] /\ state' = state
        /\ last' = [last EXCEPT ![r] = f.num] /\ boot' = boot /\ missed' = missed
        /\ boot[r] => /\ book' = [book EXCEPT ![r] = Applied(@, f)]
                      /\ at' = [at EXCEPT ![r] = f.u]
                      /\ doubt' = IF r \in missed /\ ~Compared(r, f) THEN doubt \cup {r}
                                  ELSE doubt
        /\ ~boot[r] => book' = book /\ at' = at /\ doubt' = doubt
    BY <1>1, <1>6 DEF ReadUpdate, TrueFrame, Taken, Booted
  <2>2. Chain(r)'
    <3>1. /\ queue'[r] = Tail(queue[r]) /\ last'[r] = f.num
          /\ boot[r] => at'[r] = f.u /\ book'[r] = Applied(book[r], f)
      BY <1>2, <2>1
    \* the delta continues the book: by its number, or because nothing is lost
    <3>2. ASSUME boot[r], r \notin doubt'
          PROVE  at[r] \in 1..Len(hist) /\ book[r] = hist[at[r]] /\ f.u = at[r] + 1
      <4>1. r \notin doubt /\ (r \notin missed \/ Compared(r, f))
        BY <2>1, <3>2
      <4>2. at[r] \in 1..Len(hist) /\ book[r] = hist[at[r]] /\ last[r] \in {at[r], None}
        BY <3>2, <4>1 DEF Chain, BookReal
      <4>3. CASE r \notin missed
        <5>1. f.u = at[r] + 1
          BY <1>1, <2>1, <3>2, <4>3 DEF Chain, HeadFits, Unbroken, f
        <5> QED
          BY <4>2, <5>1
      <4>4. CASE Compared(r, f)
        <5>1. /\ last[r] = at[r]
              /\ \/ f.num # None /\ f.num = last[r] + 1
                 \/ f.prev # None /\ f.prev = last[r]
          BY <2>1, <4>2, <4>4 DEF Compared, Gap
        <5>2. f.u = at[r] + 1
          BY <1>2, <2>1, <4>2, <5>1
        <5> QED
          BY <4>2, <5>2
      <4> QED
        BY <4>1, <4>3, <4>4
    <3>3. BookReal(r)'
      <4> SUFFICES ASSUME boot[r]
                   PROVE  /\ r \notin doubt' => f.u \in 1..Len(hist) /\ book'[r] = hist[f.u]
                          /\ last'[r] \in {at'[r], None}
        BY <1>1, <2>1, <3>1 DEF BookReal
      <4>1. ASSUME r \notin doubt'
            PROVE  f.u \in 1..Len(hist) /\ book'[r] = hist[f.u]
        <5>1. f.u - 1 = at[r] /\ f.u \in 1..Len(hist)
          BY <1>2, <2>1, <3>2, <4>1
        <5> QED
          BY <2>1, <3>1, <3>2, <4>1, <5>1
      <4> QED
        BY <2>1, <3>1, <4>1
    <3>4. Unbroken(r)' => f.type # "bad" /\ at'[r] = f.u
      BY <2>1, <3>1 DEF Unbroken
    <3> QED
      BY <3>1, <3>3, <3>4, <1>1, <1>2, TakenChain DEF f
  <2>3. ASSUME NEW s \in Readers \ {r} PROVE Chain(s)'
    <3>1. /\ book'[s] = book[s] /\ at'[s] = at[s] /\ (s \in doubt <=> s \in doubt')
          /\ last'[s] = last[s] /\ boot'[s] = boot[s] /\ queue'[s] = queue[s]
      BY <1>2, <2>1
    <3> QED
      BY <3>1, <1>1, <1>2, <2>1, QuietChain
  <2> QED
    BY <2>2, <2>3
<1> QED
  BY <1>1, <1>3, <1>4, <1>5, <1>6 DEF ReadBad

\* The hub, the venue and the users leave every book in order.
LEMMA OtherChain ==
    ASSUME IInv, AskedAndIdle, shape.frame \in Deltas, \A s \in Readers : Chain(s),
           \/ Connect \/ Disconnect
           \/ \E l \in Levels, q \in Qtys : VenueChanges(l, q) \/ VenueGarbles(l, q)
           \/ \E r \in Readers : Open(r) \/ Leave(r) \/ OldQueueGone(r)
    PROVE  \A s \in Readers : Chain(s)'
<1>1. /\ TypeOK /\ book \in [Readers -> Books] /\ last \in [Readers -> Numbers]
      /\ boot \in [Readers -> BOOLEAN] /\ queue \in [Readers -> Seq(Frames)]
      /\ state \in [Readers -> {"idle", "reading", "ended"}]
      /\ at \in [Readers -> Nat] /\ hist \in Seq(Books) /\ Len(hist) \in Nat /\ Len(hist) >= 1
      /\ hist[Len(hist)] \in Books
  BY DEF IInv, TypeOK
\* a reader outside rs has no stream
<1>2. ASSUME NEW s \in Readers, s \notin Registered, boot' = boot, queue'[s] = queue[s]
      PROVE  Chain(s)'
  BY <1>2, EmptyChain DEF AskedAndIdle, Registered
<1>3. ASSUME NEW rs \in SUBSET Readers, Opening(rs), UNCHANGED <<hist, book, last, boot, at, doubt>>,
             Registered \subseteq rs, \A s \in rs : state'[s] = state[s] \/ boot[s] = FALSE
      PROVE  \A s \in Readers : Chain(s)'
  <2>0. PICK n \in {Num(Len(hist)), None} : Deliver(rs, Snapshot(n))
    BY <1>3 DEF Opening, AskedAndIdle
  <2> DEFINE f == Snapshot(n)
  <2>1. f \in Frames /\ f.u = Len(hist) /\ f.type = "snapshot"
    BY <1>1 DEF Snapshot, Frames, Numbers, Num
  <2>2. Deliver(rs, f)
    BY <2>0
  <2> HIDE DEF f
  <2>3. ASSUME NEW s \in rs PROVE Chain(s)'
    BY <1>1, <1>3, <2>1, <2>2, <2>3, DeliverChain
  <2>4. ASSUME NEW s \in Readers \ rs PROVE Chain(s)'
    <3>1. s \notin Registered /\ queue'[s] = queue[s] /\ boot' = boot
      BY <1>3, <2>2 DEF Deliver
    <3> QED
      BY <3>1, <1>2
  <2> QED
    BY <2>3, <2>4
<1>4. ASSUME UNCHANGED <<queue, missed, book, last, boot, at, doubt, state>>,
             hist' = hist \/ \E b \in Books : hist' = Append(hist, b),
             asked' => asked /\ hist' = hist
      PROVE  \A s \in Readers : Chain(s)'
  BY <1>1, <1>4, QuietChain
<1>5. CASE Connect
  <2>1. CASE Registered # {}
    BY <1>3, <1>5, <2>1 DEF Connect, readerVars, Registered
  <2>2. CASE Registered = {}
    BY <1>4, <1>5, <2>2 DEF Connect, readerVars
  <2> QED
    BY <2>1, <2>2
<1>6. CASE Disconnect
  BY <1>4, <1>6 DEF Disconnect, readerVars
<1>7. ASSUME NEW l \in Levels, NEW q \in Qtys, VenueChanges(l, q) \/ VenueGarbles(l, q)
      PROVE  \A s \in Readers : Chain(s)'
  <2> DEFINE b == [hist[Len(hist)] EXCEPT ![l] = q]
  <2>1. /\ b \in Books /\ hist' = Append(hist, b) /\ Len(hist') = Len(hist) + 1
        /\ UNCHANGED <<asked, state, book, last, boot, at, doubt>>
    BY <1>1, <1>7 DEF VenueChanges, VenueGarbles, readerVars, Books
  <2>2. CASE ~asked
    <3>1. UNCHANGED <<queue, missed>>
      BY <1>7, <2>2 DEF VenueChanges, VenueGarbles
    <3> QED
      BY <1>4, <2>1, <2>2, <3>1
  <2>3. CASE asked
    <3>1. PICK f \in Frames : /\ Deliver(Registered, f) /\ f.type # "whole"
                              /\ f.type = "bad" \/ f.u = Len(hist) + 1
      <4>1. CASE VenueChanges(l, q)
        <5> DEFINE u == Len(hist) + 1
                   f == Delta(u, l, q, Num(u), Prev(u))
        <5>1. f \in Frames /\ f.type = "update" /\ f.u = Len(hist) + 1
          BY <1>1, DeltaFrames DEF IsDelta
        <5>2. Deliver(Registered, f)
          BY <2>3, <4>1 DEF VenueChanges
        <5> HIDE DEF f
        <5> QED
          BY <5>1, <5>2
      <4>2. CASE VenueGarbles(l, q)
        <5>1. Garbage \in Frames /\ Garbage.type = "bad"
          BY DEF Garbage, Frames
        <5>2. PICK f \in Damaged(Len(hist) + 1, l, q) : Deliver(Registered, f)
          BY <4>2 DEF VenueGarbles
        <5>3. f = Garbage \/ (f \in Frames /\ IsDelta(f, Len(hist) + 1, l, q))
          <6>1. Len(hist) + 1 \in Nat \ {0}
            BY <1>1
          <6> QED
            BY <6>1, DamagedFrames
        <5> QED
          BY <5>1, <5>2, <5>3 DEF IsDelta
      <4> QED
        BY <1>7, <4>1, <4>2
    <3>2. Registered \in SUBSET Readers
      BY DEF Registered
    <3>3. ASSUME NEW s \in Registered PROVE Chain(s)'
      <4>1. /\ UNCHANGED <<book, last, boot, at, doubt>> /\ state'[s] = state[s] /\ s \in Readers
            /\ \E c \in Books : hist' = Append(hist, c)
            /\ f.type = "bad" \/ f.u = Len(hist')
        BY <2>1, <3>1, <3>2
      <4> QED
        BY <1>1, <2>1, <2>3, <3>1, <3>2, <4>1, DeliverChain
    <3>4. ASSUME NEW s \in Readers \ Registered PROVE Chain(s)'
      <4>1. queue'[s] = queue[s] /\ boot' = boot
        BY <2>1, <3>1 DEF Deliver
      <4> QED
        BY <1>2, <4>1
    <3> QED
      BY <3>3, <3>4
  <2> QED
    BY <2>2, <2>3
<1>8. ASSUME NEW r \in Readers, Open(r)
      PROVE  \A s \in Readers : Chain(s)'
  <2>1. /\ state[r] = "idle" /\ state' = [state EXCEPT ![r] = "reading"]
        /\ UNCHANGED <<hist, book, last, boot, at, doubt>> /\ queue[r] = <<>> /\ boot[r] = FALSE
    BY <1>8 DEF Open, AskedAndIdle
  <2>2. CASE up /\ ~asked
    <3>1. Registered \subseteq {r} /\ Opening({r})
      BY <1>8, <2>2 DEF Open, AskedAndIdle
    <3> QED
      BY <1>3, <2>1, <3>1
  <2>3. CASE ~(up /\ ~asked)
    <3>1. UNCHANGED <<asked, queue, missed>>
      BY <1>8, <2>3 DEF Open
    <3>2. Chain(r)'
      BY <2>1, <3>1, EmptyChain
    <3>3. ASSUME NEW s \in Readers \ {r} PROVE Chain(s)'
      <4>1. state'[s] = state[s]
        BY <1>1, <2>1
      <4> QED
        BY <1>1, <2>1, <3>1, <4>1, QuietChain
    <3> QED
      BY <3>2, <3>3
  <2> QED
    BY <2>2, <2>3
<1>9. ASSUME NEW r \in Readers, Leave(r)
      PROVE  \A s \in Readers : Chain(s)'
  <2>1. /\ state' = [state EXCEPT ![r] = "idle"] /\ queue' = [queue EXCEPT ![r] = <<>>]
        /\ missed' = missed \ {r} /\ (asked' => asked) /\ hist' = hist
        /\ book' = [book EXCEPT ![r] = NoBook] /\ last' = [last EXCEPT ![r] = None]
        /\ boot' = [boot EXCEPT ![r] = FALSE]
        /\ at' = [at EXCEPT ![r] = 0] /\ doubt' = doubt \ {r}
    BY <1>9 DEF Leave, Fresh
  <2>2. Chain(r)'
    BY <1>1, <2>1, EmptyChain
  <2>3. ASSUME NEW s \in Readers \ {r} PROVE Chain(s)'
    <3>1. /\ queue'[s] = queue[s] /\ (s \in missed <=> s \in missed') /\ state'[s] = state[s]
          /\ book'[s] = book[s] /\ last'[s] = last[s] /\ boot'[s] = boot[s]
          /\ at'[s] = at[s] /\ (s \in doubt <=> s \in doubt')
      BY <1>1, <2>1
    <3> QED
      BY <1>1, <2>1, <3>1, QuietChain
  <2> QED
    BY <2>2, <2>3
<1>10. CASE \E r \in Readers : OldQueueGone(r)
  BY <1>4, <1>10 DEF OldQueueGone
<1> QED
  BY <1>5, <1>6, <1>7, <1>8, <1>9, <1>10

\* Whoever reads a topic on a set connection has it asked for, and an idle
\* reader has left nothing behind.
LEMMA AskedStep ==
    ASSUME IInv, AskedAndIdle, [Next]_vars
    PROVE  AskedAndIdle'
<1>1. /\ state \in [Readers -> {"idle", "reading", "ended"}]
      /\ boot \in [Readers -> BOOLEAN] /\ queue \in [Readers -> Seq(Frames)]
      /\ up \in BOOLEAN /\ asked \in BOOLEAN
  BY DEF IInv, TypeOK
<1>2. ASSUME NEW rs \in SUBSET Readers, \E f : Deliver(rs, f), NEW s \in Readers \ rs
      PROVE  queue'[s] = queue[s]
  BY <1>2 DEF Deliver
<1>3. ASSUME NEW rs \in SUBSET Readers, Opening(rs), NEW s \in Readers \ rs
      PROVE  queue'[s] = queue[s]
  BY <1>3, <1>2 DEF Opening
<1>4. CASE Connect
  <2>1. /\ shape' = shape /\ state' = state /\ boot' = boot /\ asked' = (Registered # {})
        /\ Registered' = Registered
    BY <1>4 DEF Connect, readerVars, Registered
  <2>2. \A s \in Readers : state[s] = "idle" => queue'[s] = queue[s]
    BY <1>3, <1>4 DEF Connect, Registered
  <2> QED
    BY <2>1, <2>2 DEF AskedAndIdle
<1>5. CASE Disconnect \/ UNCHANGED vars \/ \E r \in Readers : OldQueueGone(r)
  <2>1. /\ UNCHANGED <<shape, state, boot, queue>> /\ (up' => up /\ asked' = asked)
    BY <1>5 DEF Disconnect, vars, OldQueueGone, readerVars
  <2> QED
    BY <2>1 DEF AskedAndIdle, Registered
<1>6. ASSUME NEW l \in Levels, NEW q \in Qtys, VenueChanges(l, q) \/ VenueGarbles(l, q)
      PROVE  AskedAndIdle'
  <2>1. UNCHANGED <<shape, state, boot, up, asked>>
    BY <1>6 DEF VenueChanges, VenueGarbles, readerVars
  <2>2. queue' = queue \/ \E f : Deliver(Registered, f)
    BY <1>6 DEF VenueChanges, VenueGarbles
  <2>3. \A s \in Readers : state[s] = "idle" => queue'[s] = queue[s]
    <3>1. Registered \in SUBSET Readers
          /\ \A s \in Readers : state[s] = "idle" => s \in Readers \ Registered
      BY DEF Registered
    <3> QED
      BY <1>2, <2>2, <3>1
  <2> QED
    BY <2>1, <2>3 DEF AskedAndIdle, Registered
<1>7. ASSUME NEW r \in Readers, Open(r)
      PROVE  AskedAndIdle'
  <2>1. /\ state' = [state EXCEPT ![r] = "reading"] /\ UNCHANGED <<shape, up, boot>>
        /\ (up => asked')
    BY <1>1, <1>7 DEF Open
  <2>2. \A s \in Readers \ {r} : queue'[s] = queue[s]
    BY <1>3, <1>7 DEF Open
  <2> QED
    BY <1>1, <2>1, <2>2 DEF AskedAndIdle
<1>8. ASSUME NEW r \in Readers, Leave(r)
      PROVE  AskedAndIdle'
  <2>1. /\ state' = [state EXCEPT ![r] = "idle"] /\ queue' = [queue EXCEPT ![r] = <<>>]
        /\ boot' = [boot EXCEPT ![r] = FALSE] /\ UNCHANGED <<shape, up>>
        /\ asked' = (asked /\ Registered # {r}) /\ r \in Registered
    BY <1>8 DEF Leave, Fresh, Registered
  <2>2. Registered' = Registered \ {r}
    BY <1>1, <2>1 DEF Registered
  <2>3. \A s \in Readers : state'[s] = "idle" => queue'[s] = <<>> /\ boot'[s] = FALSE
    BY <1>1, <2>1 DEF AskedAndIdle
  <2> QED
    BY <1>1, <2>1, <2>2, <2>3 DEF AskedAndIdle
<1>9. ASSUME NEW r \in Readers, Read(r)
      PROVE  AskedAndIdle'
  <2>1. /\ state[r] = "reading" /\ UNCHANGED <<shape, up, asked>>
        /\ state' = state \/ state' = [state EXCEPT ![r] = "ended"]
        /\ \A s \in Readers \ {r} : queue'[s] = queue[s] /\ boot'[s] = boot[s]
    BY <1>1, <1>9 DEF Read, ReadBad, ReadWhole, ReadSnapshot, ReadUpdate, Ends, Fresh, Taken
  <2>2. Registered' = Registered
    BY <1>1, <2>1 DEF Registered
  <2>3. \A s \in Readers : state'[s] = "idle" => queue'[s] = <<>> /\ boot'[s] = FALSE
    BY <1>1, <2>1 DEF AskedAndIdle
  <2> QED
    BY <2>1, <2>2, <2>3 DEF AskedAndIdle
<1> QED
  BY <1>4, <1>5, <1>6, <1>7, <1>8, <1>9 DEF Next

\* What is yielded is the book, or comes whole in a true frame.
LEMMA YieldStep ==
    ASSUME IInv, YieldedIsReal, [Next]_vars,
           shape.frame \in Deltas => \A r \in Readers : Chain(r)'
    PROVE  YieldedIsReal'
<1>1. /\ out \in [Readers -> Yields \cup {None}] /\ boot \in [Readers -> BOOLEAN]
      /\ book \in [Readers -> Books] /\ at \in [Readers -> Nat]
      /\ queue \in [Readers -> Seq(Frames)]
  BY DEF IInv, TypeOK
<1>2. ASSUME NEW r \in Readers, NEW o, out' = [out EXCEPT ![r] = o], hist' = hist,
             \/ o = None
             \/ o.sure => o.u \in 1..Len(hist) /\ o.book = hist[o.u]
      PROVE  YieldedIsReal'
  BY <1>1, <1>2 DEF YieldedIsReal
<1>3. CASE out' = out /\ (hist' = hist \/ \E b \in Books : hist' = Append(hist, b))
  <2>1. /\ Len(hist') >= Len(hist) /\ Len(hist') \in Nat /\ Len(hist) \in Nat
        /\ \A u \in 1..Len(hist) : hist'[u] = hist[u]
    BY <1>3, HistoryGrows DEF IInv
  <2> QED
    BY <1>3, <2>1 DEF YieldedIsReal
<1>4. ASSUME NEW r \in Readers, Leave(r)
      PROVE  YieldedIsReal'
  BY <1>2, <1>4 DEF Leave, Fresh
<1>5. ASSUME NEW r \in Readers, Read(r)
      PROVE  YieldedIsReal'
  <2> DEFINE f == Head(queue[r])
  <2>1. TrueFrame(hist, shape, f) /\ hist' = hist
    <3>1. queue[r] # <<>> /\ hist' = hist
      BY <1>5 DEF Read
    <3>2. f = queue[r][1] /\ 1 \in 1..Len(queue[r])
      BY <1>1, <3>1
    <3> QED
      BY <3>1, <3>2 DEF IInv, QueueTrue
  <2> HIDE DEF f
  <2>2. CASE Ends(r)
    <3>1. CASE shape.restart
      BY <1>2, <2>1, <2>2, <3>1 DEF Ends, Fresh
    <3>2. CASE ~shape.restart
      BY <1>3, <2>1, <2>2, <3>2 DEF Ends
    <3> QED
      BY <3>1, <3>2
  <2>3. CASE ReadBad(r, f) /\ ~Ends(r)
    BY <1>3, <2>1, <2>3 DEF ReadBad
  <2>4. CASE ReadWhole(r, f) \/ ReadSnapshot(r, f)
    <3>1. Yield(r, f.u, f.book) /\ f.u \in 1..Len(hist) /\ f.book = hist[f.u]
      BY <2>1, <2>4 DEF ReadWhole, ReadSnapshot, TrueFrame
    <3>2. CASE out' = [out EXCEPT ![r] = [u |-> f.u, book |-> f.book, sure |-> r \notin doubt']]
      BY <1>2, <2>1, <3>1, <3>2
    <3> QED
      BY <1>3, <2>1, <3>1, <3>2 DEF Yield
  <2>5. CASE ReadUpdate(r, f) /\ ~Ends(r)
    <3>1. /\ shape.frame \in Deltas /\ boot' = boot
          /\ IF boot[r]
             THEN /\ book' = [book EXCEPT ![r] = Applied(@, f)] /\ at' = [at EXCEPT ![r] = f.u]
                  /\ Yield(r, f.u, Applied(book[r], f))
             ELSE out' = out
      BY <2>1, <2>5 DEF ReadUpdate, TrueFrame, Booted
    <3>2. CASE out' = out
      BY <1>3, <2>1, <3>2
    <3>3. CASE boot[r] /\ out' = [out EXCEPT ![r] = [u |-> f.u, book |-> Applied(book[r], f),
                                                    sure |-> r \notin doubt']]
      <4>1. BookReal(r)'
        BY <3>1 DEF Chain
      <4>2. boot'[r] /\ at'[r] = f.u /\ book'[r] = Applied(book[r], f)
        BY <1>1, <3>1, <3>3
      <4>3. r \notin doubt' => f.u \in 1..Len(hist) /\ Applied(book[r], f) = hist[f.u]
        BY <2>1, <4>1, <4>2 DEF BookReal
      <4> QED
        BY <1>2, <2>1, <3>3, <4>3
    <3> QED
      BY <3>1, <3>2, <3>3 DEF Yield
  <2> QED
    BY <1>5, <2>2, <2>3, <2>4, <2>5 DEF Read, f
<1>6. CASE Connect \/ Disconnect \/ UNCHANGED vars \/ \E r \in Readers : Open(r) \/ OldQueueGone(r)
  BY <1>3, <1>6 DEF Connect, Disconnect, Open, OldQueueGone, readerVars, vars
<1>7. ASSUME NEW l \in Levels, NEW q \in Qtys, VenueChanges(l, q) \/ VenueGarbles(l, q)
      PROVE  YieldedIsReal'
  <2>1. [hist[Len(hist)] EXCEPT ![l] = q] \in Books
    <3>1. hist[Len(hist)] \in Books
      BY DEF IInv, TypeOK
    <3> QED
      BY <3>1 DEF Books
  <2> QED
    BY <1>3, <1>7, <2>1 DEF VenueChanges, VenueGarbles, readerVars
<1> QED
  BY <1>4, <1>5, <1>6, <1>7 DEF Next

\* The invariant holds before anybody reads.
LEMMA InitChain == Init => ChainInv
<1> SUFFICES ASSUME Init PROVE ChainInv
  OBVIOUS
<1>1. shape.frame \in Deltas => shape.replay = FALSE
  <2>1. PICK s \in StreamShapes : shape.frame = s.frame /\ shape.replay = s.replay
    BY DEF Init
  <2> QED
    BY <2>1, DeltasAreNotReplayed
<1>2. \A r \in Readers : queue[r] = <<>> /\ boot[r] = FALSE /\ out[r] = None
  BY DEF Init
<1>3. AskedAndIdle /\ YieldedIsReal
  BY <1>1, <1>2 DEF Init, AskedAndIdle, YieldedIsReal
<1>4. \A r \in Readers : Chain(r)
  BY <1>2 DEF Chain, NoHoles, HeadFits, TailFits, BookReal, Unbroken
<1> QED
  BY <1>3, <1>4, InitIInv DEF ChainInv

\* Every step keeps the invariant.
LEMMA NextChain == ChainInv /\ [Next]_vars => ChainInv'
<1> SUFFICES ASSUME ChainInv, [Next]_vars PROVE ChainInv'
  OBVIOUS
<1>1. IInv' /\ AskedAndIdle'
  BY NextIInv, AskedStep DEF ChainInv
<1>2. shape' = shape
  BY DEF Next, vars, Connect, Disconnect, VenueChanges, VenueGarbles, Open, Leave,
     OldQueueGone, Read
<1>3. ASSUME shape.frame \in Deltas PROVE \A r \in Readers : Chain(r)'
  <2>1. CASE UNCHANGED vars
    BY <1>3, <2>1, QuietChain DEF vars, ChainInv, IInv
  <2> QED
    BY <1>3, <2>1, OtherChain, ReadChain DEF Next, ChainInv
<1>4. YieldedIsReal'
  BY <1>3, YieldStep DEF ChainInv
<1> QED
  BY <1>1, <1>2, <1>3, <1>4 DEF ChainInv

\* Every value a stream yields is one the venue had at that frame, except out
\* of a book in doubt: one that, after its reader lost a frame, took a delta
\* whose number could not be compared.
THEOREM ValuesAreReal == Spec => []YieldedIsReal
<1>1. ChainInv => YieldedIsReal
  BY DEF ChainInv
<1> QED
  BY <1>1, InitChain, NextChain, PTL DEF Spec

\* A book built from deltas without checked numbers is the venue's book at
\* the last frame applied, for a reader whose queue dropped nothing and that
\* skipped nothing since its snapshot: for any number of readers and levels,
\* through reconnects, restarts and readers that come and go.
THEOREM PatchedBooksAreReal == Spec => []PatchedIsReal
<1>1. ChainInv => PatchedIsReal
  BY DEF ChainInv, PatchedIsReal, Chain, BookReal, Deltas, IInv, TypeOK
<1> QED
  BY <1>1, InitChain, NextChain, PTL DEF Spec

\* A reader's step is a step of the abstract stream, or shows nothing new.
LEMMA ShowsIsLive ==
    ASSUME IInv, YieldedIsReal', NEW r \in Readers, ShowsNewer(r), hist' = hist, shape' = shape
    PROVE  [Live!Next]_<<hist, Shown>>
<1>1. PICK o \in Yields \cup {None} :
        /\ out' = [out EXCEPT ![r] = o]
        /\ \/ o = out[r] \/ o = None
           \/ /\ ~shape.replay /\ out[r] # None => o.u >= out[r].u
              /\ o.u \in 1..Len(hist)
  BY DEF ShowsNewer
<1>2. out \in [Readers -> Yields \cup {None}] /\ out'[r] = o
  BY <1>1 DEF IInv, TypeOK
<1>3. CASE shape.replay
  BY <1>3 DEF Shown
<1>4. CASE ~shape.replay
  <2> DEFINE v == IF o = None \/ ~o.sure THEN None ELSE [u |-> o.u, book |-> o.book]
  <2>1. Shown' = [Shown EXCEPT ![r] = v]
    BY <1>1, <1>2, <1>4 DEF Shown
  <2>2. CASE o = out[r]
    BY <1>1, <1>2, <2>2 DEF Shown
  <2>3. CASE v = None
    <3>1. Live!StartOver(r)
      BY <2>1, <2>3 DEF Live!StartOver
    <3> QED
      BY <3>1 DEF Live!Next
  <2>4. CASE o # out[r] /\ o # None /\ o.sure
    <3>1. o.u \in 1..Len(hist) /\ o.book = hist[o.u]
      BY <1>1, <1>2, <2>4 DEF YieldedIsReal
    <3>2. Shown' = [Shown EXCEPT ![r] = [u |-> o.u, book |-> hist[o.u]]]
      BY <2>1, <2>4, <3>1
    <3>3. Shown[r] = None \/ o.u >= Shown[r].u
      BY <1>1, <1>4, <2>4 DEF Shown
    <3>4. Live!Show(r)
      BY <3>1, <3>2, <3>3 DEF Live!Show
    <3> QED
      BY <3>4 DEF Live!Next
  <2> QED
    BY <2>2, <2>3, <2>4
<1> QED
  BY <1>3, <1>4

\* Connections, bounded queues and stream methods implement the abstract
\* stream: what a reader is shown, books in doubt aside, are values the venue
\* had, in their order until the stream starts over.
THEOREM FeedsImplementLiveValue == Spec => ShowsLiveValue
<1>1. Init => Live!Init
  <2> SUFFICES ASSUME Init PROVE Live!Init
    OBVIOUS
  <2>1. NoBook \in Books
    BY FeedsAssumption DEF NoBook, Books
  <2>2. Shown = [r \in Readers |-> None]
    BY DEF Init, Shown
  <2> QED
    BY <2>1, <2>2 DEF Init, Live!Init
<1>2. ChainInv /\ [Next]_vars => [Live!Next]_<<hist, Shown>>
  <2> SUFFICES ASSUME ChainInv, [Next]_vars
               PROVE  [Live!Next]_<<hist, Shown>>
    OBVIOUS
  <2>0. IInv /\ YieldedIsReal'
    BY NextChain DEF ChainInv
  <2>1. ASSUME NEW l \in Levels, NEW q \in Qtys, VenueChanges(l, q) \/ VenueGarbles(l, q)
        PROVE  Live!Next
    <3> DEFINE b == [hist[Len(hist)] EXCEPT ![l] = q]
    <3>1. b \in Books
      <4>1. hist[Len(hist)] \in Books
        BY <2>0 DEF IInv, TypeOK
      <4> QED
        BY <4>1 DEF Books
    <3>2. hist' = Append(hist, b) /\ out' = out /\ shape' = shape
      BY <2>1 DEF VenueChanges, VenueGarbles, readerVars
    <3>3. Shown' = Shown
      BY <3>2 DEF Shown
    <3> QED
      BY <3>1, <3>2, <3>3 DEF Live!Next, Live!Publish
  <2>2. CASE \/ Connect \/ Disconnect
             \/ \E r \in Readers : Open(r) \/ OldQueueGone(r)
    <3>1. out' = out /\ hist' = hist /\ shape' = shape
      BY <2>0, <2>2, HubStep
    <3> QED
      BY <3>1 DEF Shown
  <2>3. ASSUME NEW r \in Readers, Leave(r)
        PROVE  [Live!Next]_<<hist, Shown>>
    <3>1. hist' = hist /\ shape' = shape /\ out' = [out EXCEPT ![r] = None]
      BY <2>0, <2>3, LeaveStep
    <3>2. ShowsNewer(r)
      BY <3>1 DEF ShowsNewer
    <3> QED
      BY <2>0, <3>1, <3>2, ShowsIsLive
  <2>4. ASSUME NEW r \in Readers, Read(r)
        PROVE  [Live!Next]_<<hist, Shown>>
    BY <2>0, <2>4, ReadStep, ShowsIsLive
  <2>5. CASE UNCHANGED vars
    BY <2>5 DEF vars, Shown
  <2> QED
    BY <2>1, <2>2, <2>3, <2>4, <2>5 DEF Next
<1> QED
  BY <1>1, <1>2, InitChain, NextChain, PTL DEF Spec, ShowsLiveValue, Live!Spec
=============================================================================
