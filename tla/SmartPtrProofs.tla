--------------------------- MODULE SmartPtrProofs ----------------------------
(***************************************************************************)
(* Proofs about SmartPtr, for any threads, variables, cells and members.   *)
(* The invariant speaks of the set of frames of all calls in progress;     *)
(* frames are apart, that is to say no two are on one variable, so that    *)
(* the set says as much as the stacks.                                     *)
(***************************************************************************)
EXTENDS SmartPtr, FiniteSetTheorems, SequenceTheorems, TLAPS

Frames == {f \in Frame : \E t \in Thread : \E i \in 1 .. Len(stack[t]) : stack[t][i] = f}

Apart == \A t, u \in Thread : \A i \in 1 .. Len(stack[t]), j \in 1 .. Len(stack[u]) :
           stack[t][i].ptr = stack[u][j].ptr => t = u /\ i = j

StackOK == stack \in [Thread -> Seq(Frame)]
Stacks == StackOK /\ Apart
-----------------------------------------------------------------------------
(* What a step does to the stack of a thread, said of the set of frames.   *)
LEMMA FrameOf ==
  ASSUME StackOK, NEW t \in Thread, NEW i \in 1 .. Len(stack[t])
  PROVE  stack[t][i] \in Frames /\ stack[t][i] \in Frame
BY DEF StackOK, Frames

LEMMA Entered ==
  ASSUME Stacks, NEW t \in Thread, stack[t] = <<>>, NEW f \in Frame,
         \A g \in Frames : g.ptr # f.ptr,
         stack' = [stack EXCEPT ![t] = <<f>>]
  PROVE  Stacks' /\ Frames' = Frames \cup {f}
<1> USE DEF Stacks
<1>1. stack'[t] = <<f>> /\ \A u \in Thread \ {t} : stack'[u] = stack[u]
  BY DEF StackOK
<1>2. StackOK'
  BY DEF StackOK
<1>3. Apart'
  <2> SUFFICES ASSUME NEW u \in Thread, NEW v \in Thread,
                      NEW i \in 1 .. Len(stack'[u]), NEW j \in 1 .. Len(stack'[v]),
                      stack'[u][i].ptr = stack'[v][j].ptr
               PROVE  u = v /\ i = j
    BY DEF Apart
  <2>1. CASE u = t /\ v = t
    BY <2>1, <1>1
  <2>2. CASE u = t /\ v # t
    BY <2>2, <1>1, FrameOf
  <2>3. CASE u # t /\ v = t
    BY <2>3, <1>1, FrameOf
  <2>4. CASE u # t /\ v # t
    BY <2>4, <1>1 DEF Apart
  <2> QED BY <2>1, <2>2, <2>3, <2>4
<1>4. ASSUME NEW g \in Frames' PROVE g \in Frames \cup {f}
  <2>1. PICK u \in Thread : \E i \in 1 .. Len(stack'[u]) : stack'[u][i] = g
    BY <1>4 DEF Frames
  <2> QED BY <2>1, <1>1, FrameOf
<1>5. ASSUME NEW g \in Frames \cup {f} PROVE g \in Frames'
  <2>1. CASE g = f
    <3>1. 1 \in 1 .. Len(stack'[t]) /\ stack'[t][1] = f
      BY <1>1
    <3> QED BY <2>1, <3>1 DEF Frames
  <2>2. CASE g \in Frames
    <3>1. PICK u \in Thread : \E i \in 1 .. Len(stack[u]) : stack[u][i] = g
      BY <2>2 DEF Frames
    <3>2. u # t
      BY <3>1
    <3> QED BY <2>2, <3>1, <3>2, <1>1 DEF Frames
  <2> QED BY <2>1, <2>2, <1>5
<1> QED BY <1>2, <1>3, <1>4, <1>5

(* The top frame becomes another one on the same variable.                 *)
LEMMA Replaced ==
  ASSUME Stacks, NEW t \in Thread, stack[t] # <<>>, NEW f \in Frame,
         f.ptr = Head(stack[t]).ptr,
         NEW rest, rest \in Seq(Frame), rest = <<f>> \o Tail(stack[t]),
         stack' = [stack EXCEPT ![t] = rest]
  PROVE  Stacks' /\ Frames' = (Frames \ {Head(stack[t])}) \cup {f}
<1> USE DEF Stacks
<1>1. /\ stack'[t] = rest /\ \A u \in Thread \ {t} : stack'[u] = stack[u]
      /\ StackOK'
  BY DEF StackOK
<1>2. /\ stack[t] \in Seq(Frame) /\ Len(stack[t]) >= 1 /\ Head(stack[t]) = stack[t][1]
      /\ 1 \in 1 .. Len(stack[t])
  BY DEF StackOK
<1>3. /\ Len(rest) = Len(stack[t]) /\ rest[1] = f
      /\ \A i \in 2 .. Len(stack[t]) : rest[i] = stack[t][i]
  BY <1>2
<1>4. \A u \in Thread : /\ Len(stack'[u]) = Len(stack[u])
                        /\ \A i \in 1 .. Len(stack[u]) :
                             /\ stack'[u][i].ptr = stack[u][i].ptr
                             /\ ~(u = t /\ i = 1) => stack'[u][i] = stack[u][i]
  BY <1>1, <1>2, <1>3
<1>5. Apart'
  BY <1>4 DEF Apart
<1>6. ASSUME NEW g \in Frames' PROVE g \in (Frames \ {Head(stack[t])}) \cup {f}
  <2>1. PICK u \in Thread : \E i \in 1 .. Len(stack'[u]) : stack'[u][i] = g
    BY <1>6 DEF Frames
  <2>2. PICK i \in 1 .. Len(stack'[u]) : stack'[u][i] = g
    BY <2>1
  <2>3. CASE u = t /\ i = 1
    BY <2>2, <2>3, <1>1, <1>3
  <2>4. CASE ~(u = t /\ i = 1)
    <3>1. i \in 1 .. Len(stack[u]) /\ stack[u][i] = g
      BY <2>2, <2>4, <1>4
    <3>2. stack[u][i].ptr # stack[t][1].ptr
      BY <3>1, <2>4, <1>2 DEF Apart
    <3> QED BY <3>1, <3>2, <1>2, FrameOf
  <2> QED BY <2>3, <2>4
<1>7. ASSUME NEW g \in (Frames \ {Head(stack[t])}) \cup {f} PROVE g \in Frames'
  <2>1. CASE g = f
    <3>1. 1 \in 1 .. Len(stack'[t]) /\ stack'[t][1] = f
      BY <1>1, <1>2, <1>3
    <3> QED BY <2>1, <3>1 DEF Frames
  <2>2. CASE g \in Frames /\ g # Head(stack[t])
    <3>1. PICK u \in Thread : \E i \in 1 .. Len(stack[u]) : stack[u][i] = g
      BY <2>2 DEF Frames
    <3>2. PICK i \in 1 .. Len(stack[u]) : stack[u][i] = g
      BY <3>1
    <3>3. ~(u = t /\ i = 1)
      BY <3>2, <2>2, <1>2
    <3>4. i \in 1 .. Len(stack'[u]) /\ stack'[u][i] = g
      BY <3>2, <3>3, <1>4
    <3> QED BY <2>2, <3>4 DEF Frames
  <2> QED BY <2>1, <2>2, <1>7
<1> QED BY <1>1, <1>5, <1>6, <1>7

(* The top frame goes.                                                     *)
LEMMA Returned ==
  ASSUME Stacks, NEW t \in Thread, stack[t] # <<>>,
         stack' = [stack EXCEPT ![t] = Tail(stack[t])]
  PROVE  Stacks' /\ Frames' = Frames \ {Head(stack[t])}
<1> USE DEF Stacks
<1>1. /\ stack'[t] = Tail(stack[t]) /\ \A u \in Thread \ {t} : stack'[u] = stack[u]
  BY DEF StackOK
<1>2. /\ stack[t] \in Seq(Frame) /\ Len(stack[t]) >= 1 /\ Head(stack[t]) = stack[t][1]
      /\ 1 \in 1 .. Len(stack[t])
  BY DEF StackOK
<1>3. /\ Tail(stack[t]) \in Seq(Frame) /\ Len(Tail(stack[t])) = Len(stack[t]) - 1
      /\ \A i \in 1 .. Len(stack[t]) - 1 : Tail(stack[t])[i] = stack[t][i + 1]
  BY <1>2
<1>4. StackOK'
  BY <1>3 DEF StackOK
<1> DEFINE from(u, i) == IF u = t THEN i + 1 ELSE i
<1>5. \A u \in Thread : \A i \in 1 .. Len(stack'[u]) :
        /\ from(u, i) \in 1 .. Len(stack[u]) /\ ~(u = t /\ from(u, i) = 1)
        /\ stack'[u][i] = stack[u][from(u, i)]
  <2> SUFFICES ASSUME NEW u \in Thread, NEW i \in 1 .. Len(stack'[u])
               PROVE  /\ from(u, i) \in 1 .. Len(stack[u]) /\ ~(u = t /\ from(u, i) = 1)
                      /\ stack'[u][i] = stack[u][from(u, i)]
    OBVIOUS
  <2>1. CASE u = t
    <3>1. i \in 1 .. Len(stack[t]) - 1 /\ stack'[u][i] = stack[t][i + 1]
      BY <2>1, <1>1, <1>3
    <3>2. i + 1 \in 1 .. Len(stack[t]) /\ i + 1 # 1
      BY <3>1, <1>2
    <3> QED BY <2>1, <3>1, <3>2
  <2>2. CASE u # t
    BY <2>2, <1>1
  <2> QED BY <2>1, <2>2
<1>6. Apart'
  <2> SUFFICES ASSUME NEW u \in Thread, NEW v \in Thread,
                      NEW i \in 1 .. Len(stack'[u]), NEW j \in 1 .. Len(stack'[v]),
                      stack'[u][i].ptr = stack'[v][j].ptr
               PROVE  u = v /\ i = j
    BY DEF Apart
  <2>1. /\ from(u, i) \in 1 .. Len(stack[u]) /\ stack'[u][i] = stack[u][from(u, i)]
        /\ from(v, j) \in 1 .. Len(stack[v]) /\ stack'[v][j] = stack[v][from(v, j)]
    BY <1>5
  <2>2. u = v /\ from(u, i) = from(v, j)
    <3> HIDE DEF from
    <3> QED BY <2>1 DEF Apart
  <2> QED BY <2>2
<1>7. ASSUME NEW g \in Frames' PROVE g \in Frames \ {Head(stack[t])}
  <2>1. PICK u \in Thread : \E i \in 1 .. Len(stack'[u]) : stack'[u][i] = g
    BY <1>7 DEF Frames
  <2>2. PICK i \in 1 .. Len(stack'[u]) : stack'[u][i] = g
    BY <2>1
  <2>3. from(u, i) \in 1 .. Len(stack[u]) /\ stack[u][from(u, i)] = g /\ ~(u = t /\ from(u, i) = 1)
    BY <2>2, <1>5
  <2>4. g.ptr # stack[t][1].ptr
    BY <2>3, <1>2 DEF Apart
  <2> HIDE DEF from
  <2> QED BY <2>3, <2>4, <1>2, FrameOf
<1>8. ASSUME NEW g \in Frames \ {Head(stack[t])} PROVE g \in Frames'
  <2>1. PICK u \in Thread : \E i \in 1 .. Len(stack[u]) : stack[u][i] = g
    BY <1>8 DEF Frames
  <2>2. PICK i \in 1 .. Len(stack[u]) : stack[u][i] = g
    BY <2>1
  <2>3. CASE u = t
    <3>1. i # 1
      BY <2>2, <2>3, <1>2, <1>8
    <3>2. i - 1 \in 1 .. Len(stack[t]) - 1 /\ (i - 1) + 1 = i
      BY <3>1, <2>3, <1>2
    <3>3. i - 1 \in 1 .. Len(stack'[t]) /\ stack'[t][i - 1] = g
      BY <3>2, <2>2, <2>3, <1>1, <1>3
    <3> QED BY <3>3, <1>8 DEF Frames
  <2>4. CASE u # t
    BY <2>2, <2>4, <1>1, <1>8 DEF Frames
  <2> QED BY <2>3, <2>4
<1> QED BY <1>4, <1>6, <1>7, <1>8

(* A frame on another variable goes on top of the top frame, which is       *)
(* replaced.                                                                *)
LEMMA Pushed ==
  ASSUME Stacks, NEW t \in Thread, stack[t] # <<>>, NEW f \in Frame, NEW n \in Frame,
         f.ptr = Head(stack[t]).ptr, \A g \in Frames : g.ptr # n.ptr,
         NEW rest, rest \in Seq(Frame), rest = <<f>> \o Tail(stack[t]),
         stack' = [stack EXCEPT ![t] = <<n>> \o rest]
  PROVE  Stacks' /\ Frames' = (Frames \ {Head(stack[t])}) \cup {f, n}
<1> USE DEF Stacks
<1>1. /\ stack'[t] = <<n>> \o rest /\ \A u \in Thread \ {t} : stack'[u] = stack[u]
      /\ StackOK'
  BY DEF StackOK
<1>2. /\ stack[t] \in Seq(Frame) /\ Len(stack[t]) >= 1 /\ Head(stack[t]) = stack[t][1]
      /\ 1 \in 1 .. Len(stack[t])
  BY DEF StackOK
<1>3. /\ Len(rest) = Len(stack[t]) /\ rest[1] = f
      /\ \A i \in 2 .. Len(stack[t]) : rest[i] = stack[t][i]
  BY <1>2
<1>4. /\ Len(stack'[t]) = Len(stack[t]) + 1 /\ stack'[t][1] = n /\ stack'[t][2] = f
      /\ \A i \in 3 .. Len(stack[t]) + 1 : stack'[t][i] = stack[t][i - 1]
  BY <1>1, <1>2, <1>3
<1> DEFINE from(u, i) == IF u = t THEN i - 1 ELSE i
<1>5. \A u \in Thread : \A i \in 1 .. Len(stack'[u]) :
        ~(u = t /\ i = 1) =>
          /\ from(u, i) \in 1 .. Len(stack[u])
          /\ stack'[u][i].ptr = stack[u][from(u, i)].ptr
          /\ ~(u = t /\ i = 2) => stack'[u][i] = stack[u][from(u, i)] /\ ~(u = t /\ from(u, i) = 1)
  <2> SUFFICES ASSUME NEW u \in Thread, NEW i \in 1 .. Len(stack'[u]), ~(u = t /\ i = 1)
               PROVE  /\ from(u, i) \in 1 .. Len(stack[u])
                      /\ stack'[u][i].ptr = stack[u][from(u, i)].ptr
                      /\ ~(u = t /\ i = 2) => stack'[u][i] = stack[u][from(u, i)] /\ ~(u = t /\ from(u, i) = 1)
    OBVIOUS
  <2>1. CASE u = t /\ i = 2
    BY <2>1, <1>2, <1>4
  <2>2. CASE u = t /\ i # 2
    BY <2>2, <1>2, <1>4
  <2>3. CASE u # t
    BY <2>3, <1>1
  <2> QED BY <2>1, <2>2, <2>3
<1>6. \A u \in Thread : \A i \in 1 .. Len(stack'[u]) :
        ~(u = t /\ i = 1) => stack'[u][i].ptr # n.ptr
  <2> SUFFICES ASSUME NEW u \in Thread, NEW i \in 1 .. Len(stack'[u]), ~(u = t /\ i = 1)
               PROVE  stack'[u][i].ptr # n.ptr
    OBVIOUS
  <2>1. from(u, i) \in 1 .. Len(stack[u]) /\ stack'[u][i].ptr = stack[u][from(u, i)].ptr
    BY <1>5
  <2> HIDE DEF from
  <2> QED BY <2>1, FrameOf
<1>7. Apart'
  <2> SUFFICES ASSUME NEW u \in Thread, NEW v \in Thread,
                      NEW i \in 1 .. Len(stack'[u]), NEW j \in 1 .. Len(stack'[v]),
                      stack'[u][i].ptr = stack'[v][j].ptr
               PROVE  u = v /\ i = j
    BY DEF Apart
  <2>1. CASE u = t /\ i = 1
    BY <2>1, <1>4, <1>6
  <2>2. CASE v = t /\ j = 1
    BY <2>2, <1>4, <1>6
  <2>3. CASE ~(u = t /\ i = 1) /\ ~(v = t /\ j = 1)
    <3>1. u = v /\ from(u, i) = from(v, j)
      BY <1>5, <2>3, SMTT(30) DEF Apart
    <3> QED BY <3>1
  <2> QED BY <2>1, <2>2, <2>3
<1>8. ASSUME NEW g \in Frames' PROVE g \in (Frames \ {Head(stack[t])}) \cup {f, n}
  <2>1. PICK u \in Thread : \E i \in 1 .. Len(stack'[u]) : stack'[u][i] = g
    BY <1>8 DEF Frames
  <2>2. PICK i \in 1 .. Len(stack'[u]) : stack'[u][i] = g
    BY <2>1
  <2>3. CASE u = t /\ i \in {1, 2}
    BY <2>2, <2>3, <1>4
  <2>4. CASE ~(u = t /\ i \in {1, 2})
    <3>1. from(u, i) \in 1 .. Len(stack[u]) /\ stack[u][from(u, i)] = g /\ ~(u = t /\ from(u, i) = 1)
      BY <2>2, <2>4, <1>5
    <3> HIDE DEF from
    <3>2. g.ptr # stack[t][1].ptr
      BY <3>1, <1>2 DEF Apart
    <3> QED BY <3>1, <3>2, <1>2, FrameOf
  <2> QED BY <2>3, <2>4
<1>9. ASSUME NEW g \in (Frames \ {Head(stack[t])}) \cup {f, n} PROVE g \in Frames'
  <2>1. CASE g \in {f, n}
    <3>1. 1 \in 1 .. Len(stack'[t]) /\ 2 \in 1 .. Len(stack'[t])
      BY <1>2, <1>4
    <3> QED BY <2>1, <3>1, <1>4, ZenonT(60) DEF Frames
  <2>2. CASE g \in Frames /\ g # Head(stack[t])
    <3>1. PICK u \in Thread : \E i \in 1 .. Len(stack[u]) : stack[u][i] = g
      BY <2>2 DEF Frames
    <3>2. PICK i \in 1 .. Len(stack[u]) : stack[u][i] = g
      BY <3>1
    <3>3. CASE u = t
      <4>1. i \in 2 .. Len(stack[t])
        BY <3>2, <3>3, <2>2, <1>2
      <4>2. i + 1 \in 1 .. Len(stack'[t]) /\ i + 1 \in 3 .. Len(stack[t]) + 1 /\ (i + 1) - 1 = i
        BY <4>1, <1>2, <1>4
      <4>3. stack'[t][i + 1] = g
        BY <4>2, <3>2, <3>3, <1>4
      <4> QED BY <2>2, <4>2, <4>3 DEF Frames
    <3>4. CASE u # t
      BY <3>2, <3>4, <1>1, <2>2 DEF Frames
    <3> QED BY <3>3, <3>4
  <2> QED BY <2>1, <2>2, <1>9
<1> QED BY <1>1, <1>7, <1>8, <1>9
-----------------------------------------------------------------------------
(* The invariant.  A variable that no call writes is either counted, once  *)
(* its lifetime has begun (Settled); one that a call writes is as far as   *)
(* the label of the frame says (Placed).  A counter has one executioner    *)
(* (Lone).  The source of a copy rests, and a member that a call reads or  *)
(* assigns is kept by a local variable that holds its object (Sourced).    *)
(* An object and its member live together (Together).                      *)
Busy(s) == \E f \in Frames : f.ptr = s

Dooms(f) == f.at \in {"destroy", "deleteCounter"}

Counted(s) == /\ ptr[s].counter \in counters
              /\ ptr[s].object = IF ptr[s].counter \in objects THEN ptr[s].counter ELSE None

Kept(m) == \E p \in Locals \cap constructed :
             /\ ~Busy(p)
             /\ ptr[p].object # None /\ MemberOf[ptr[p].object] = m

Settled == \A s \in Slot : ~Busy(s) =>
             IF s \in constructed THEN Counted(s) ELSE ptr[s].counter = None

PlacedAt(f, s) ==
  /\ f.at \in {"decrease", "destroy", "deleteCounter", "clear"} => s \in constructed
  /\ f.at \in {"lock", "takeCounter", "takeObject", "increase"} => f.other # None
  /\ f.at \in {"decrease", "destroy"} => Counted(s)
  /\ f.at = "deleteCounter" => ptr[s].counter \in counters \ objects
  /\ Dooms(f) => Holders(ptr[s].counter) = {}
  /\ f.at \in {"lock", "takeCounter"} => ptr[s].counter = None /\ ptr[s].object = None
  /\ f.at \in {"takeObject", "increase"} => ptr[s].counter = ptr[f.other].counter
  /\ f.at = "increase" => ptr[s].object = ptr[f.other].object

Placed == \A f \in Frames : PlacedAt(f, f.ptr)

Lone == \A f, g \in Frames :
          Dooms(f) /\ Dooms(g) /\ ptr[f.ptr].counter = ptr[g.ptr].counter => f = g

Sourced ==
  \A f \in Frames : f.other # None =>
    /\ f.other \in constructed /\ ~Busy(f.other)
    /\ f.other \in Members => Kept(f.other)
    /\ f.ptr \in Members => Kept(f.ptr)

Together ==
  /\ objects \subseteq counters /\ objects \cap released = {}
  /\ \A c \in objects \cup released : MemberOf[c] # None => MemberOf[c] \in constructed
  /\ \A f \in Frames, c \in objects \cup released : f.other = None => f.ptr # MemberOf[c]

Counts == \A c \in counters : count[c] = Cardinality(Holders(c))

Owned == \A c \in counters :
           Holders(c) # {} \/ \E f \in Frames : Dooms(f) /\ ptr[f.ptr].counter = c

Inv == /\ TypeOK /\ Apart /\ fault = "none"
       /\ Settled /\ Placed /\ Lone /\ Sourced /\ Together /\ Counts /\ Owned
-----------------------------------------------------------------------------
(* The sets of calls and phases that the actions ask for, by frames.       *)
Sharing == {"destroy", "deleteCounter", "clear", "takeObject", "increase"}

LEMMA CallsByFrames ==
  StackOK => \A s \in Slot :
    /\ Writers(s) = {} <=> ~Busy(s)
    /\ Readers(s) = {} <=> \A f \in Frames : f.other # s
<1> SUFFICES ASSUME StackOK, NEW s \in Slot
             PROVE  /\ Writers(s) = {} <=> ~Busy(s)
                    /\ Readers(s) = {} <=> \A f \in Frames : f.other # s
  OBVIOUS
<1>1. \A t \in Thread : \A i \in 1 .. Len(stack[t]) : stack[t][i] \in Frames
  BY FrameOf
<1>2. \A f \in Frames : \E t \in Thread : \E i \in 1 .. Len(stack[t]) : stack[t][i] = f
  BY DEF Frames
<1>3. Writers(s) = {} <=> ~Busy(s)
  BY <1>1, <1>2 DEF Writers, Busy
<1>4. Readers(s) = {} <=> \A f \in Frames : f.other # s
  BY <1>1, <1>2 DEF Readers
<1> QED BY <1>3, <1>4

LEMMA ByFrames ==
  StackOK => \A s \in Slot : Between(s) <=> \E f \in Frames : f.ptr = s /\ f.at \in Sharing
BY FrameOf DEF Between, Sharing, Frames

LEMMA ByFramesNext ==
  (StackOK => \A s \in Slot : Between(s) <=> \E f \in Frames : f.ptr = s /\ f.at \in Sharing)'
BY ByFrames, PTL

LEMMA OneFrame ==
  ASSUME Stacks, NEW f \in Frames, NEW g \in Frames, f.ptr = g.ptr
  PROVE  f = g
BY DEF Stacks, Apart, Frames

LEMMA TopFrame ==
  ASSUME StackOK, NEW t \in Thread, stack[t] # <<>>
  PROVE  /\ Head(stack[t]) \in Frames /\ Head(stack[t]) \in Frame
         /\ Self(t) = Head(stack[t]).ptr /\ Self(t) \in Slot
         /\ Other(t) = Head(stack[t]).other /\ Other(t) \in Slot \cup {None}
<1>1. stack[t] \in Seq(Frame) /\ 1 \in 1 .. Len(stack[t]) /\ Head(stack[t]) = stack[t][1]
  BY DEF StackOK
<1>2. Head(stack[t]) \in Frames /\ Head(stack[t]) \in Frame
  BY <1>1, FrameOf
<1> QED BY <1>2 DEF Self, Other, Frame

(* What the change of one frame means for the variables.                   *)
LEMMA Swapped ==
  ASSUME Stacks, Stacks', NEW h \in Frames, NEW g \in Frame, g.ptr = h.ptr,
         Frames' = (Frames \ {h}) \cup {g}
  PROVE  /\ \A f \in Frames' : f = g \/ (f \in Frames /\ f.ptr # h.ptr)
         /\ \A s \in Slot : Busy(s)' <=> Busy(s)
         /\ \A s \in Slot : Between(s)' <=> IF s = h.ptr THEN g.at \in Sharing ELSE Between(s)
<1>1. \A f \in Frames : f = h \/ f.ptr # h.ptr
  BY OneFrame
<1>2. \A s \in Slot : Busy(s)' <=> Busy(s)
  BY DEF Busy
<1>3. \A s \in Slot : Between(s)' <=> IF s = h.ptr THEN g.at \in Sharing ELSE Between(s)
  BY <1>1, ByFrames, ByFramesNext DEF Stacks
<1> QED BY <1>1, <1>2, <1>3

LEMMA Stacked ==
  ASSUME Stacks, Stacks', NEW h \in Frames, NEW g \in Frame, NEW n \in Frame,
         g.ptr = h.ptr, ~Busy(n.ptr), g.at \in Sharing, n.at \notin Sharing,
         Frames' = (Frames \ {h}) \cup {g, n}
  PROVE  /\ h.ptr # n.ptr
         /\ \A f \in Frames' : f = g \/ f = n \/ (f \in Frames /\ f.ptr # h.ptr /\ f.ptr # n.ptr)
         /\ \A s \in Slot : Busy(s)' <=> s = n.ptr \/ Busy(s)
         /\ \A s \in Slot : Between(s)' <=> s = h.ptr \/ Between(s)
<1>1. \A f \in Frames : (f = h \/ f.ptr # h.ptr) /\ f.ptr # n.ptr
  BY OneFrame DEF Busy
<1>2. \A s \in Slot : Busy(s)' <=> s = n.ptr \/ Busy(s)
  BY DEF Busy
<1>3. \A s \in Slot : Between(s)' <=> s = h.ptr \/ Between(s)
  BY <1>1, ByFrames, ByFramesNext DEF Stacks
<1> QED BY <1>1, <1>2, <1>3

(* The top frame goes to another label, in either form that the steps use. *)
Moves(t, label) ==
  \E rest : /\ rest = <<[Head(stack[t]) EXCEPT !.at = label]>> \o Tail(stack[t])
            /\ stack' = [stack EXCEPT ![t] = rest]

LEMMA GotoMoves ==
  ASSUME StackOK, NEW t \in Thread, stack[t] # <<>>, NEW label \in Labels, Goto(t, label)
  PROVE  Moves(t, label)
<1> DEFINE h == Head(stack[t])
           g == [h EXCEPT !.at = label]
           rest == <<g>> \o Tail(stack[t])
<1>1. stack[t] \in Seq(Frame) /\ h \in Frame /\ h = stack[t][1] /\ Len(stack[t]) >= 1
  BY TopFrame DEF StackOK
<1>2. g \in Frame
  BY <1>1 DEF Frame
<1>3. stack' = [stack EXCEPT ![t] = [stack[t] EXCEPT ![1] = g]]
  BY <1>1 DEF Goto, StackOK
<1>4. [stack[t] EXCEPT ![1] = g] = rest
  <2>1. /\ DOMAIN [stack[t] EXCEPT ![1] = g] = 1 .. Len(stack[t]) /\ DOMAIN rest = 1 .. Len(stack[t])
    BY <1>1, <1>2
  <2>2. \A i \in 1 .. Len(stack[t]) : [stack[t] EXCEPT ![1] = g][i] = rest[i]
    BY <1>1, <1>2
  <2> QED BY <1>1, <2>1, <2>2
<1> QED BY <1>3, <1>4 DEF Moves

LEMMA Went ==
  ASSUME Stacks, NEW t \in Thread, stack[t] # <<>>, NEW label \in Labels, Moves(t, label)
  PROVE  \E g \in Frames' :
           /\ Stacks' /\ g.ptr = Head(stack[t]).ptr /\ g.other = Head(stack[t]).other
           /\ g.at = label
           /\ \A f \in Frames' : f = g \/ (f \in Frames /\ f.ptr # g.ptr)
           /\ \A f \in Frames : f = Head(stack[t]) \/ f \in Frames'
           /\ \A s \in Slot : Busy(s)' <=> Busy(s)
           /\ \A s \in Slot : Between(s)' <=> IF s = g.ptr THEN label \in Sharing ELSE Between(s)
<1> DEFINE h == Head(stack[t])
           g == [h EXCEPT !.at = label]
           rest == <<g>> \o Tail(stack[t])
<1>1. /\ stack[t] \in Seq(Frame) /\ h \in Frames /\ h \in Frame
  BY TopFrame DEF Stacks, StackOK
<1>2. g \in Frame /\ g.ptr = h.ptr /\ g.other = h.other /\ g.at = label
  BY <1>1 DEF Frame
<1>3. rest \in Seq(Frame) /\ stack' = [stack EXCEPT ![t] = rest]
  BY <1>1, <1>2 DEF Moves
<1>4. Stacks' /\ Frames' = (Frames \ {h}) \cup {g}
  <2>1. rest = <<g>> \o Tail(stack[t])
    OBVIOUS
  <2> HIDE DEF g, rest
  <2> QED BY <1>2, <1>3, <2>1, Replaced
<1>5. h = Head(stack[t])
  OBVIOUS
<1> HIDE DEF h, g
<1>6. /\ \A f \in Frames' : f = g \/ (f \in Frames /\ f.ptr # h.ptr)
      /\ \A s \in Slot : Busy(s)' <=> Busy(s)
      /\ \A s \in Slot : Between(s)' <=> IF s = h.ptr THEN label \in Sharing ELSE Between(s)
  BY <1>1, <1>2, <1>4, Swapped
<1>7. g \in Frames' /\ \A f \in Frames : f = h \/ f \in Frames'
  BY <1>4
<1> QED BY <1>2, <1>4, <1>5, <1>6, <1>7

(* A thread whose call ends, or that is done with the member of an object. *)
LEMMA Gone ==
  ASSUME Stacks, NEW t \in Thread, stack[t] # <<>>, Return(t)
  PROVE  /\ Stacks' /\ \A f \in Frames' : f \in Frames /\ f.ptr # Self(t)
         /\ \A f \in Frames : f = Head(stack[t]) \/ f \in Frames'
         /\ \A s \in Slot : Busy(s)' <=> s # Self(t) /\ Busy(s)
         /\ \A s \in Slot : Between(s)' <=> s # Self(t) /\ Between(s)
<1> DEFINE h == Head(stack[t])
<1>1. h \in Frames /\ Self(t) = h.ptr
  BY TopFrame DEF Stacks
<1>2. Stacks' /\ Frames' = Frames \ {h}
  BY Returned DEF Return, Stacks, StackOK
<1> HIDE DEF h
<1>3. \A f \in Frames : f = h \/ f.ptr # h.ptr
  BY <1>1, OneFrame
<1>4. \A s \in Slot : Busy(s)' <=> s # h.ptr /\ Busy(s)
  BY <1>1, <1>2, <1>3 DEF Busy
<1>5. \A s \in Slot : Between(s)' <=> s # h.ptr /\ Between(s)
  BY <1>1, <1>2, <1>3, ByFrames, ByFramesNext DEF Stacks
<1> QED BY <1>1, <1>2, <1>3, <1>4, <1>5 DEF h

(* A thread that begins a call.                                            *)
LEMMA Begun ==
  ASSUME Stacks, NEW t \in Thread, stack[t] = <<>>, NEW at \in Labels, NEW x \in Slot,
         NEW other \in Slot \cup {None}, ~Busy(x), Enter(t, at, x, other)
  PROVE  \E n \in Frames' :
           /\ Stacks' /\ n.at = at /\ n.ptr = x /\ n.other = other
           /\ \A f \in Frames' : f = n \/ (f \in Frames /\ f.ptr # x)
           /\ Frames \subseteq Frames'
           /\ \A s \in Slot : Busy(s)' <=> s = x \/ Busy(s)
           /\ \A s \in Slot : Between(s)' <=> IF s = x THEN at \in Sharing ELSE Between(s)
<1> DEFINE n == [at |-> at, ptr |-> x, other |-> other]
<1>1. n \in Frame /\ n.ptr = x /\ n.at = at /\ n.other = other
  BY DEF Frame
<1>2. \A g \in Frames : g.ptr # x
  BY DEF Busy
<1>3. Stacks' /\ Frames' = Frames \cup {n}
  <2> HIDE DEF n
  <2>1. stack' = [stack EXCEPT ![t] = <<n>>]
    BY DEF Enter, n
  <2> QED BY <1>1, <1>2, <2>1, Entered
<1> HIDE DEF n
<1>4. \A s \in Slot : Busy(s)' <=> s = x \/ Busy(s)
  BY <1>1, <1>3 DEF Busy
<1>5. \A s \in Slot : Between(s)' <=> IF s = x THEN at \in Sharing ELSE Between(s)
  BY <1>1, <1>2, <1>3, ByFrames, ByFramesNext DEF Stacks
<1> QED BY <1>1, <1>2, <1>3, <1>4, <1>5

(* A thread that deletes an object, and with it the object's member m.     *)
LEMMA Nested ==
  ASSUME Stacks, NEW t \in Thread, stack[t] # <<>>, NEW m \in Slot, ~Busy(m),
         stack' = [stack EXCEPT ![t] =
                     <<[at |-> "decrease", ptr |-> m, other |-> None]>>
                     \o (<<[Head(stack[t]) EXCEPT !.at = "deleteCounter"]>> \o Tail(stack[t]))]
  PROVE  \E g, n \in Frames' :
           /\ Stacks' /\ g.ptr = Head(stack[t]).ptr /\ g.other = Head(stack[t]).other
           /\ g.at = "deleteCounter" /\ n.at = "decrease" /\ n.ptr = m /\ n.other = None
           /\ g.ptr # m
           /\ \A f \in Frames' : f = g \/ f = n \/ (f \in Frames /\ f.ptr # g.ptr /\ f.ptr # m)
           /\ \A f \in Frames : f = Head(stack[t]) \/ f \in Frames'
           /\ \A s \in Slot : Busy(s)' <=> s = m \/ Busy(s)
           /\ \A s \in Slot : Between(s)' <=> s = g.ptr \/ Between(s)
<1> DEFINE h == Head(stack[t])
           g == [h EXCEPT !.at = "deleteCounter"]
           n == [at |-> "decrease", ptr |-> m, other |-> None]
           rest == <<g>> \o Tail(stack[t])
<1>1. stack[t] \in Seq(Frame) /\ h \in Frames /\ h \in Frame
  BY TopFrame DEF Stacks, StackOK
<1>2. g \in Frame /\ g.ptr = h.ptr /\ g.other = h.other /\ g.at = "deleteCounter"
  BY <1>1 DEF Frame, Labels
<1>3. n \in Frame /\ n.ptr = m /\ n.at = "decrease" /\ n.other = None
  BY DEF Frame, Labels
<1>4. rest \in Seq(Frame)
  BY <1>1, <1>2
<1>5. \A f \in Frames : f.ptr # m
  BY DEF Busy
<1>6. Stacks' /\ Frames' = (Frames \ {h}) \cup {g, n}
  <2>1. stack' = [stack EXCEPT ![t] = <<n>> \o rest] /\ rest = <<g>> \o Tail(stack[t])
    OBVIOUS
  <2>2. g \in Frame /\ n \in Frame /\ rest \in Seq(Frame) /\ g.ptr = Head(stack[t]).ptr
        /\ \A f \in Frames : f.ptr # n.ptr
    BY <1>2, <1>3, <1>4, <1>5
  <2>3. h = Head(stack[t])
    OBVIOUS
  <2> HIDE DEF h, g, rest, n
  <2>4. Stacks' /\ Frames' = (Frames \ {Head(stack[t])}) \cup {g, n}
    BY <2>1, <2>2, Pushed
  <2> QED BY <2>3, <2>4
<1>7. h = Head(stack[t])
  OBVIOUS
<1> HIDE DEF h, g, n
<1>8. /\ h.ptr # m
      /\ \A f \in Frames' : f = g \/ f = n \/ (f \in Frames /\ f.ptr # h.ptr /\ f.ptr # m)
      /\ \A s \in Slot : Busy(s)' <=> s = m \/ Busy(s)
      /\ \A s \in Slot : Between(s)' <=> s = h.ptr \/ Between(s)
  BY <1>1, <1>2, <1>3, <1>6, Stacked DEF Sharing
<1>9. g \in Frames' /\ n \in Frames' /\ \A f \in Frames : f = h \/ f \in Frames'
  BY <1>6
<1> QED BY <1>2, <1>3, <1>6, <1>7, <1>8, <1>9
-----------------------------------------------------------------------------
(* What the holders of a counter are.                                      *)
LEMMA HoldersFinite ==
  \A c : IsFiniteSet(Holders(c)) /\ Cardinality(Holders(c)) \in Nat
<1>1. \A c : Holders(c) \subseteq Slot
  BY DEF Holders
<1> QED BY <1>1, SmartPtrAssumption, FS_Subset, FS_CardinalityType

LEMMA OneMore ==
  ASSUME NEW S, IsFiniteSet(S), NEW x, x \notin S
  PROVE  Cardinality(S \cup {x}) = Cardinality(S) + 1
BY FS_AddElement

LEMMA OneLess ==
  ASSUME NEW S, IsFiniteSet(S), NEW x \in S
  PROVE  /\ Cardinality(S \ {x}) = Cardinality(S) - 1
         /\ Cardinality(S) - 1 = 0 <=> S \ {x} = {}
<1>1. IsFiniteSet(S \ {x}) /\ Cardinality(S \ {x}) = Cardinality(S) - 1
  BY FS_RemoveElement
<1> QED BY <1>1, FS_EmptySet, FS_CardinalityType

LEMMA Bare ==
  \A s \in Slot : ptr \in [Slot -> Fields] =>
    /\ ptr[s].counter \in Cell \cup {None} /\ ptr[s].object \in Cell \cup {None}
    /\ ptr[s].method \in {"delete", "none"}
BY DEF Fields

(* A variable whose counter is None or that is Between holds nothing; one  *)
(* that is Counted and not Between is among the holders.                   *)
LEMMA NoneApart == None \notin Cell /\ None \notin Slot /\ None \notin Thread
BY SmartPtrAssumption

(* A step that leaves its frame at another label.                          *)
LEMMA Stepped ==
  ASSUME Stacks, NEW t \in Thread, NEW from, At(t, from), NEW label \in Labels,
         Goto(t, label) \/ Moves(t, label)
  PROVE  \E h \in Frames, g \in Frames' :
           /\ Self(t) \in Slot /\ Stacks'
           /\ h.ptr = Self(t) /\ h.other = Other(t) /\ h.at = from
           /\ g.ptr = Self(t) /\ g.other = Other(t) /\ g.at = label
           /\ \A f \in Frames' : f = g \/ (f \in Frames /\ f.ptr # Self(t))
           /\ \A f \in Frames : f = h \/ (f \in Frames' /\ f.ptr # Self(t))
           /\ \A x \in Slot : Busy(x)' <=> Busy(x)
           /\ \A x \in Slot : Between(x)' <=> IF x = Self(t) THEN label \in Sharing ELSE Between(x)
           /\ Between(Self(t)) <=> from \in Sharing
<1>1. stack[t] # <<>> /\ Head(stack[t]).at = from
  BY DEF At
<1>2. PICK h \in Frames : h = Head(stack[t]) /\ h.ptr = Self(t) /\ h.other = Other(t)
                         /\ h.at = from /\ Self(t) \in Slot
  BY <1>1, TopFrame DEF Stacks
<1>m. Moves(t, label)
  BY <1>1, GotoMoves DEF Stacks
<1>3. PICK g \in Frames' :
        /\ Stacks' /\ g.ptr = Head(stack[t]).ptr /\ g.other = Head(stack[t]).other
        /\ g.at = label
        /\ \A f \in Frames' : f = g \/ (f \in Frames /\ f.ptr # g.ptr)
        /\ \A f \in Frames : f = Head(stack[t]) \/ f \in Frames'
        /\ \A x \in Slot : Busy(x)' <=> Busy(x)
        /\ \A x \in Slot : Between(x)' <=> IF x = g.ptr THEN label \in Sharing ELSE Between(x)
  BY <1>1, <1>m, Went
<1>4. \A f \in Frames : f.ptr = Self(t) => f = h
  BY <1>2, OneFrame
<1>5. Between(Self(t)) <=> from \in Sharing
  BY <1>2, <1>4, ByFrames DEF Stacks
<1> QED BY <1>2, <1>3, <1>4, <1>5

LEMMA DecreaseKeeps ==
  ASSUME Inv, NEW t \in Thread, Decrease(t), TypeOK'
  PROVE  Inv'
<1>1. PICK s, c, label : s = Self(t) /\ c = ptr[s].counter /\ label = AfterDecrease(count'[c])
  OBVIOUS
<1>2. At(t, "decrease") /\ Stacks
  BY DEF Decrease, Inv, TypeOK, Stacks, StackOK
<1>3. s \in Slot /\ Counted(s) /\ s \in constructed /\ c \in counters /\ c \in Cell
  <2>1. Head(stack[t]) \in Frames /\ s = Head(stack[t]).ptr /\ s \in Slot
        /\ Head(stack[t]).at = "decrease"
    BY <1>1, <1>2, TopFrame DEF At, Stacks
  <2> QED BY <1>1, <2>1 DEF Inv, Placed, PlacedAt, Counted, TypeOK
<1>4. /\ count' = [count EXCEPT ![c] = @ - 1] /\ Goto(t, label)
      /\ UNCHANGED <<constructed, ptr, counters, objects, released, lock, fault>>
  BY <1>1, <1>3 DEF Decrease
<1>5. count'[c] = count[c] - 1 /\ \A d \in Cell \ {c} : count'[d] = count[d]
  BY <1>3, <1>4 DEF Inv, TypeOK
<1>6. label \in {"destroy", "clear"} /\ label \in Labels /\ label \in Sharing
      /\ (label = "destroy" <=> count[c] - 1 = 0)
  BY <1>1, <1>5 DEF AfterDecrease, Labels, Sharing
<1>7. PICK h \in Frames, g \in Frames' :
        /\ Stacks'
        /\ h.ptr = s /\ h.other = Other(t) /\ h.at = "decrease"
        /\ g.ptr = s /\ g.other = Other(t) /\ g.at = label
        /\ \A f \in Frames' : f = g \/ (f \in Frames /\ f.ptr # s)
        /\ \A f \in Frames : f = h \/ (f \in Frames' /\ f.ptr # s)
        /\ \A x \in Slot : Busy(x)' <=> Busy(x)
        /\ \A x \in Slot : Between(x)' <=> x = s \/ Between(x)
        /\ ~Between(s)
  <2>1. "decrease" \notin Sharing
    BY DEF Sharing
  <2> QED BY <2>1, <1>1, <1>2, <1>4, <1>6, Stepped
<1>8. /\ s \in Holders(c) /\ Holders(c)' = Holders(c) \ {s}
      /\ \A d : d # c => Holders(d)' = Holders(d)
  <2>1. ptr[s].counter = c /\ ptr' = ptr
    BY <1>1, <1>4
  <2> QED BY <2>1, <1>3, <1>7 DEF Holders
<1>9. /\ count[c] = Cardinality(Holders(c)) /\ count'[c] = Cardinality(Holders(c)')
      /\ (label = "destroy" <=> Holders(c)' = {})
  <2>1. count[c] = Cardinality(Holders(c))
    BY <1>3 DEF Inv, Counts
  <2> QED BY <2>1, <1>5, <1>6, <1>8, HoldersFinite, OneLess
<1>10. Settled'
  BY <1>4, <1>7 DEF Inv, Settled, Counted
<1>11. Placed'
  <2> SUFFICES ASSUME NEW f \in Frames' PROVE PlacedAt(f, f.ptr)'
    BY DEF Placed
  <2>1. CASE f = g
    <3>1. PlacedAt(h, s)
      BY <1>7 DEF Inv, Placed
    <3> QED BY <2>1, <3>1, <1>1, <1>3, <1>4, <1>6, <1>7, <1>9 DEF PlacedAt, Counted, Dooms
  <2>2. CASE f \in Frames
    <3>1. PlacedAt(f, f.ptr)
      BY <2>2 DEF Inv, Placed
    <3>2. Dooms(f) => ptr[f.ptr].counter # c
      BY <3>1, <1>8 DEF PlacedAt
    <3> QED BY <3>1, <3>2, <1>4, <1>8 DEF PlacedAt, Counted, Dooms
  <2> QED BY <2>1, <2>2, <1>7
<1>12. Lone'
  <2>1. \A f \in Frames : Dooms(f) => ptr[f.ptr].counter # c
    BY <1>8 DEF Inv, Placed, PlacedAt
  <2>2. ptr[g.ptr].counter = c
    BY <1>1, <1>7
  <2> QED BY <2>1, <2>2, <1>4, <1>7 DEF Inv, Lone, Dooms
<1>13. Sourced'
  <2>1. \A m : Kept(m) => Kept(m)'
    BY <1>4, <1>7 DEF Kept, Locals
  <2>2. \A f \in Frames : f.other # None => f.other \in Slot
    BY DEF Frames, Frame
  <2> QED BY <2>1, <2>2, <1>4, <1>7 DEF Inv, Sourced
<1>14. Together'
  BY <1>4, <1>7 DEF Inv, Together
<1>15. Counts'
  <2> SUFFICES ASSUME NEW d \in counters PROVE count'[d] = Cardinality(Holders(d)')
    BY <1>4 DEF Counts
  <2>1. d \in Cell /\ count[d] = Cardinality(Holders(d))
    BY DEF Inv, Counts, TypeOK
  <2> QED BY <2>1, <1>5, <1>8, <1>9
<1>16. Owned'
  <2> SUFFICES ASSUME NEW d \in counters
               PROVE  Holders(d)' # {} \/ \E f \in Frames' : Dooms(f) /\ ptr[f.ptr].counter = d
    BY <1>4 DEF Owned, Dooms
  <2>1. CASE d = c /\ label = "destroy"
    BY <2>1, <1>1, <1>7 DEF Dooms
  <2>2. CASE d = c /\ label # "destroy"
    BY <2>2, <1>9
  <2>3. CASE d # c
    <3>1. Holders(d) # {} \/ \E f \in Frames : Dooms(f) /\ ptr[f.ptr].counter = d
      BY DEF Inv, Owned
    <3> QED BY <3>1, <2>3, <1>7, <1>8 DEF Dooms
  <2> QED BY <2>1, <2>2, <2>3
<1> QED BY <1>4, <1>7, <1>10, <1>11, <1>12, <1>13, <1>14, <1>15, <1>16 DEF Inv, Stacks

(* A variable that is not in a phase where its share is given back or not  *)
(* yet taken, and has a counter, is counted.                               *)
LEMMA HeldCounted ==
  ASSUME Inv, NEW x \in Slot, ~Between(x), ptr[x].counter # None
  PROVE  Counted(x)
<1>1. CASE ~Busy(x)
  BY <1>1 DEF Inv, Settled
<1>2. CASE Busy(x)
  <2>1. PICK f \in Frames : f.ptr = x
    BY <1>2 DEF Busy
  <2>2. f.at \notin Sharing
    BY <2>1, ByFrames DEF Inv, TypeOK, StackOK
  <2>3. f.at \in Labels /\ PlacedAt(f, x)
    BY <2>1 DEF Frames, Frame, Inv, Placed
  <2> QED BY <2>2, <2>3 DEF PlacedAt, Labels, Sharing
<1> QED BY <1>1, <1>2

LEMMA FreeUnheld ==
  ASSUME Inv, NEW c, c # None, c \notin counters
  PROVE  Holders(c) = {}
BY HeldCounted DEF Holders, Counted

(* A member of an object that nothing holds is not kept for anyone.        *)
LEMMA NotKept ==
  ASSUME Inv, NEW c \in Cell, Holders(c) = {}, MemberOf[c] # None
  PROVE  ~Kept(MemberOf[c])
<1> SUFFICES ASSUME Kept(MemberOf[c]) PROVE FALSE
  OBVIOUS
<1>1. PICK p \in Slot : /\ p \in constructed /\ ~Busy(p) /\ ptr[p].object # None
                        /\ MemberOf[ptr[p].object] = MemberOf[c]
  BY DEF Kept, Locals
<1>2. ptr[p].object \in Cell
  BY <1>1, Bare DEF Inv, TypeOK
<1>3. ptr[p].object = c
  BY <1>1, <1>2, SmartPtrAssumption
<1>4. Counted(p)
  BY <1>1 DEF Inv, Settled
<1>5. ptr[p].counter = c
  BY <1>1, <1>3, <1>4 DEF Counted
<1>6. ~Between(p)
  BY <1>1, ByFrames DEF Inv, TypeOK, StackOK, Busy
<1> QED BY <1>5, <1>6 DEF Holders

LEMMA FrameFields ==
  \A f \in Frames : f.ptr \in Slot /\ f.other \in Slot \cup {None} /\ f.at \in Labels
BY DEF Frames, Frame

(* A member whose object nothing holds has no call at it.                  *)
LEMMA MemberAlone ==
  ASSUME Inv, NEW c \in objects, Holders(c) = {}, MemberOf[c] # None
  PROVE  /\ ~Busy(MemberOf[c]) /\ \A f \in Frames : f.other # MemberOf[c]
         /\ MemberOf[c] \in Members \cap constructed
<1>1. c \in Cell /\ ~Kept(MemberOf[c]) /\ MemberOf[c] \in Members
  BY NotKept DEF Inv, TypeOK, Members
<1>2. ~Busy(MemberOf[c])
  BY <1>1 DEF Busy, Inv, Together, Sourced
<1>3. \A f \in Frames : f.other # MemberOf[c]
  BY <1>1 DEF Inv, Sourced
<1>4. MemberOf[c] \in constructed
  BY DEF Inv, Together
<1> QED BY <1>1, <1>2, <1>3, <1>4

(* The object goes, by delete or into the caller's hands; its member, if   *)
(* it has one, begins to go with it when it is deleted.                    *)
LEMMA DestroyKeeps ==
  ASSUME Inv, NEW t \in Thread, Destroy(t), TypeOK'
  PROVE  Inv'
<1>1. PICK s, c, o : s = Self(t) /\ c = ptr[s].counter /\ o = ptr[s].object
  OBVIOUS
<1>2. At(t, "destroy") /\ Stacks /\ stack[t] # <<>>
  BY DEF Destroy, Inv, TypeOK, Stacks, StackOK, At
<1>3. PICK h \in Frames : h = Head(stack[t]) /\ h.ptr = s /\ h.other = Other(t) /\ h.at = "destroy"
  BY <1>1, <1>2, TopFrame DEF At, Stacks
<1>4. /\ s \in Slot /\ s \in constructed /\ c \in counters /\ c \in Cell
      /\ Holders(c) = {} /\ o = IF c \in objects THEN c ELSE None
      /\ PlacedAt(h, s) /\ Dooms(h)
  BY <1>1, <1>3, FrameFields DEF Inv, Placed, PlacedAt, Counted, Dooms, TypeOK
<1>5. UNCHANGED <<constructed, ptr, count, counters, lock>>
  BY DEF Destroy
<1>6. /\ \A f \in Frames : f # h /\ Dooms(f) => ptr[f.ptr].counter # c
      /\ \A x \in Slot : ptr[x].counter = c => Between(x)
  BY <1>1, <1>3, <1>4 DEF Inv, Lone, Holders
<1>7. /\ objects' = objects \ {c} /\ fault' = fault
      /\ \/ Moves(t, "deleteCounter") /\ (released' = released \/ (c \in objects /\ released' = released \cup {c}))
         \/ /\ c \in objects /\ released' = released /\ MemberOf[c] # None
            /\ stack' = [stack EXCEPT ![t] =
                 <<[at |-> "decrease", ptr |-> MemberOf[c], other |-> None]>>
                 \o (<<[Head(stack[t]) EXCEPT !.at = "deleteCounter"]>> \o Tail(stack[t]))]
  <2>1. CASE c \notin objects
    <3>1. o = None /\ objects \ {c} = objects
      BY <2>1, <1>4
    <3>2. ptr[Self(t)].object = None
      BY <3>1, <1>1
    <3>3. Moves(t, "deleteCounter") /\ UNCHANGED <<objects, released, fault>>
      <4>1. PICK rest : rest = <<[Head(stack[t]) EXCEPT !.at = "deleteCounter"]>> \o Tail(stack[t])
        OBVIOUS
      <4>2. stack' = [stack EXCEPT ![t] = rest] /\ UNCHANGED <<objects, released, fault>>
        BY <3>2, <4>1 DEF Destroy
      <4>3. Moves(t, "deleteCounter")
        BY <4>1, <4>2, Zenon DEF Moves
      <4> QED BY <4>2, <4>3
    <3> QED BY <3>1, <3>3
  <2>2. CASE c \in objects /\ ptr[s].method = "none"
    <3>1. o = c /\ o # None
      BY <2>2, <1>4, NoneApart
    <3> QED BY <2>2, <3>1, <1>1 DEF Destroy, Moves
  <2>3. CASE c \in objects /\ ptr[s].method # "none"
    <3>1. o = c /\ c # None
      BY <2>3, <1>4, NoneApart
    <3>2. PICK rest, more, new :
            /\ rest = <<[Head(stack[t]) EXCEPT !.at = "deleteCounter"]>> \o Tail(stack[t])
            /\ more = <<[at |-> "decrease", ptr |-> MemberOf[c], other |-> None]>> \o rest
            /\ new = IF MemberOf[c] = None THEN rest ELSE more
      OBVIOUS
    <3>3. objects' = objects \ {c} /\ UNCHANGED <<released, fault>> /\ stack' = [stack EXCEPT ![t] = new]
      BY <2>3, <3>1, <3>2, <1>1 DEF Destroy
    <3>4. CASE MemberOf[c] = None
      <4>1. new = rest
        BY <3>2, <3>4
      <4>2. stack' = [stack EXCEPT ![t] = rest]
        BY <3>3, <4>1
      <4>3. Moves(t, "deleteCounter")
        BY <3>2, <4>2, Zenon DEF Moves
      <4> QED BY <2>3, <3>3, <4>3
    <3>5. CASE MemberOf[c] # None
      <4>1. new = more
        BY <3>2, <3>5
      <4>2. stack' = [stack EXCEPT ![t] = more]
        BY <3>3, <4>1
      <4> QED BY <4>2, <2>3, <3>2, <3>3, <3>5
    <3> QED BY <3>4, <3>5
  <2> QED BY <2>1, <2>2, <2>3
<1>8. \A x \in Slot : ~Between(x) /\ Counted(x) => Counted(x)'
  BY <1>5, <1>6, <1>7 DEF Counted
<1>9. \A x \in Slot : ~Busy(x) => ~Between(x)
  BY <1>2, ByFrames DEF Stacks, Busy
<1>10. ASSUME \A d : Holders(d)' = Holders(d), NEW f \in Frames, f # h
       PROVE  PlacedAt(f, f.ptr)'
  <2>1. PlacedAt(f, f.ptr) /\ f.ptr \in Slot
    BY FrameFields DEF Inv, Placed
  <2>2. f.at = "decrease" => ~Between(f.ptr)
    <3>1. \A g \in Frames : g.ptr = f.ptr => g = f
      BY <1>2, <1>10, OneFrame
    <3> QED BY <3>1, <2>1, <1>2, ByFrames DEF Stacks, Sharing
  <2>3. f.at = "decrease" => Counted(f.ptr)'
    BY <2>1, <2>2, <1>8 DEF PlacedAt
  <2>4. f.at = "destroy" => Counted(f.ptr)'
    BY <2>1, <1>5, <1>6, <1>7, <1>10 DEF PlacedAt, Counted, Dooms
  <2> QED BY <2>1, <2>3, <2>4, <1>5, <1>7, <1>10 DEF PlacedAt, Dooms
<1>11. ASSUME Moves(t, "deleteCounter"),
              released' = released \/ (c \in objects /\ released' = released \cup {c})
       PROVE  Inv'
  <2>1. PICK g \in Frames' :
          /\ Stacks' /\ g.ptr = s /\ g.other = h.other /\ g.at = "deleteCounter"
          /\ \A f \in Frames' : f = g \/ (f \in Frames /\ f.ptr # s)
          /\ \A f \in Frames : f = h \/ f \in Frames'
          /\ \A x \in Slot : Busy(x)' <=> Busy(x)
          /\ \A x \in Slot : Between(x)' <=> Between(x)
    <3>1. "deleteCounter" \in Labels /\ "deleteCounter" \in Sharing /\ "destroy" \in Sharing
      BY DEF Labels, Sharing
    <3>2. Between(s)
      BY <1>2, <1>3, <1>4, <3>1, ByFrames DEF Stacks
    <3>3. PICK g \in Frames' :
            /\ Stacks' /\ g.ptr = Head(stack[t]).ptr /\ g.other = Head(stack[t]).other
            /\ g.at = "deleteCounter"
            /\ \A f \in Frames' : f = g \/ (f \in Frames /\ f.ptr # g.ptr)
            /\ \A f \in Frames : f = Head(stack[t]) \/ f \in Frames'
            /\ \A x \in Slot : Busy(x)' <=> Busy(x)
            /\ \A x \in Slot : Between(x)' <=> IF x = g.ptr THEN "deleteCounter" \in Sharing ELSE Between(x)
      BY <3>1, <1>2, <1>11, Went
    <3> QED BY <1>3, <3>1, <3>2, <3>3
  <2>2. \A d : Holders(d)' = Holders(d)
    BY <2>1, <1>5 DEF Holders
  <2>3. Settled'
    BY <2>1, <1>5, <1>8, <1>9 DEF Inv, Settled
  <2>4. Placed'
    <3>1. PlacedAt(g, s)'
      BY <2>1, <2>2, <1>1, <1>4, <1>5, <1>7 DEF PlacedAt, Dooms
    <3>2. \A f \in Frames : f # h => PlacedAt(f, f.ptr)'
      BY <2>2, <1>10
    <3> QED BY <2>1, <3>1, <3>2, <1>3 DEF Placed
  <2>5. Lone'
    BY <2>1, <1>1, <1>3, <1>4, <1>5, <1>6 DEF Inv, Lone, Dooms
  <2>6. Sourced'
    <3>1. \A m : Kept(m) => Kept(m)'
      BY <2>1, <1>5 DEF Kept, Locals
    <3> QED BY <3>1, <2>1, <1>3, <1>5, FrameFields DEF Inv, Sourced
  <2>7. Together'
    <3>1. objects' \cup released' \subseteq objects \cup released
      BY <1>7, <1>11
    <3> QED BY <3>1, <2>1, <1>3, <1>4, <1>5, <1>7, <1>11 DEF Inv, Together
  <2>8. Counts' /\ Owned'
    <3>1. Counts'
      BY <2>2, <1>5 DEF Inv, Counts
    <3>2. ASSUME NEW d \in counters
          PROVE  Holders(d) # {} \/ \E f \in Frames' : Dooms(f) /\ ptr[f.ptr].counter = d
      <4>1. CASE d = c
        BY <4>1, <2>1, <1>1 DEF Dooms
      <4>2. CASE d # c
        BY <4>2, <2>1, <1>1, <1>3 DEF Inv, Owned
      <4> QED BY <4>1, <4>2
    <3> QED BY <3>1, <3>2, <2>2, <1>5 DEF Owned, Dooms
  <2> QED BY <2>1, <2>3, <2>4, <2>5, <2>6, <2>7, <2>8, <1>7 DEF Inv, Stacks
<1>12. ASSUME c \in objects, released' = released, MemberOf[c] # None,
              stack' = [stack EXCEPT ![t] =
                 <<[at |-> "decrease", ptr |-> MemberOf[c], other |-> None]>>
                 \o (<<[Head(stack[t]) EXCEPT !.at = "deleteCounter"]>> \o Tail(stack[t]))]
       PROVE  Inv'
  <2>0. PICK m : m = MemberOf[c]
    OBVIOUS
  <2>1. m \in Slot /\ m \in Members /\ m \in constructed /\ ~Busy(m) /\ \A f \in Frames : f.other # m
    BY <2>0, <1>4, <1>12, MemberAlone DEF Inv, TypeOK
  <2>2. PICK g \in Frames', n \in Frames' :
          /\ Stacks' /\ g.ptr = s /\ g.other = h.other
          /\ g.at = "deleteCounter" /\ n.at = "decrease" /\ n.ptr = m /\ n.other = None
          /\ s # m
          /\ \A f \in Frames' : f = g \/ f = n \/ (f \in Frames /\ f.ptr # s /\ f.ptr # m)
          /\ \A f \in Frames : f = h \/ f \in Frames'
          /\ \A x \in Slot : Busy(x)' <=> x = m \/ Busy(x)
          /\ \A x \in Slot : Between(x)' <=> Between(x)
    <3>1. "destroy" \in Sharing
      BY DEF Sharing
    <3>2. Between(s)
      BY <1>2, <1>3, <1>4, <3>1, ByFrames DEF Stacks
    <3>3. PICK g \in Frames', n \in Frames' :
            /\ Stacks' /\ g.ptr = Head(stack[t]).ptr /\ g.other = Head(stack[t]).other
            /\ g.at = "deleteCounter" /\ n.at = "decrease" /\ n.ptr = m /\ n.other = None
            /\ g.ptr # m
            /\ \A f \in Frames' : f = g \/ f = n \/ (f \in Frames /\ f.ptr # g.ptr /\ f.ptr # m)
            /\ \A f \in Frames : f = Head(stack[t]) \/ f \in Frames'
            /\ \A x \in Slot : Busy(x)' <=> x = m \/ Busy(x)
            /\ \A x \in Slot : Between(x)' <=> x = g.ptr \/ Between(x)
      BY <2>0, <2>1, <1>2, <1>12, Nested, ZenonT(60)
    <3> QED BY <1>3, <3>2, <3>3
  <2>3. \A d : Holders(d)' = Holders(d)
    BY <2>2, <1>5 DEF Holders
  <2>4. Settled'
    BY <2>2, <1>5, <1>8, <1>9 DEF Inv, Settled
  <2>5. Placed'
    <3>1. PlacedAt(g, s)'
      BY <2>2, <2>3, <1>1, <1>4, <1>5, <1>7 DEF PlacedAt, Dooms
    <3>2. Counted(m)'
      BY <2>1, <1>8, <1>9 DEF Inv, Settled
    <3>3. PlacedAt(n, m)'
      BY <2>1, <2>2, <3>2, <1>5 DEF PlacedAt, Dooms
    <3>4. \A f \in Frames : f # h => PlacedAt(f, f.ptr)'
      BY <2>3, <1>10
    <3> QED BY <2>2, <3>1, <3>3, <3>4, <1>3 DEF Placed
  <2>6. Lone'
    BY <2>2, <1>1, <1>3, <1>4, <1>5, <1>6 DEF Inv, Lone, Dooms
  <2>7. Sourced'
    <3>1. \A x \in Members : Kept(x) => Kept(x)'
      BY <2>1, <2>2, <1>5 DEF Kept, Locals
    <3> QED BY <3>1, <2>1, <2>2, <1>3, <1>5, FrameFields DEF Inv, Sourced
  <2>8. Together'
    <3>1. objects' \cup released' \subseteq (objects \cup released) \ {c}
      BY <1>7, <1>12 DEF Inv, Together
    <3>2. \A d \in objects \cup released : MemberOf[d] = m => d = c
      BY <2>0, <1>4, <1>12, SmartPtrAssumption DEF Inv, TypeOK
    <3> QED BY <3>1, <3>2, <2>2, <1>3, <1>4, <1>5, <1>7, <1>12 DEF Inv, Together
  <2>9. Counts' /\ Owned'
    <3>1. Counts'
      BY <2>3, <1>5 DEF Inv, Counts
    <3>2. ASSUME NEW d \in counters
          PROVE  Holders(d) # {} \/ \E f \in Frames' : Dooms(f) /\ ptr[f.ptr].counter = d
      <4>1. CASE d = c
        BY <4>1, <2>2, <1>1 DEF Dooms
      <4>2. CASE d # c
        BY <4>2, <2>2, <1>1, <1>3 DEF Inv, Owned
      <4> QED BY <4>1, <4>2
    <3> QED BY <3>1, <3>2, <2>3, <1>5 DEF Owned, Dooms
  <2> QED BY <2>2, <2>4, <2>5, <2>6, <2>7, <2>8, <2>9, <1>7 DEF Inv, Stacks
<1> QED BY <1>7, <1>11, <1>12

(* The counter goes: nothing holds it, and its one executioner is here.    *)
LEMMA DeleteCounterKeeps ==
  ASSUME Inv, NEW t \in Thread, DeleteCounter(t), TypeOK'
  PROVE  Inv'
<1>1. PICK s, c : s = Self(t) /\ c = ptr[s].counter
  OBVIOUS
<1>2. At(t, "deleteCounter") /\ Stacks /\ stack[t] # <<>> /\ StackOK
  BY DEF DeleteCounter, Inv, TypeOK, Stacks, StackOK, At
<1>3. Head(stack[t]) \in Frames /\ s = Head(stack[t]).ptr /\ s \in Slot
      /\ Head(stack[t]).at = "deleteCounter"
  BY <1>1, <1>2, TopFrame DEF At
<1>4. c \in counters /\ c \notin objects /\ Holders(c) = {} /\ s \in constructed
  BY <1>1, <1>3 DEF Inv, Placed, PlacedAt, Dooms
<1>5. /\ counters' = counters \ {c} /\ Goto(t, "clear")
      /\ UNCHANGED <<constructed, ptr, count, objects, released, lock, fault>>
  BY <1>1, <1>4 DEF DeleteCounter
<1>6. PICK h \in Frames, g \in Frames' :
        /\ Stacks'
        /\ h.ptr = s /\ h.other = Other(t) /\ h.at = "deleteCounter"
        /\ g.ptr = s /\ g.other = Other(t) /\ g.at = "clear"
        /\ \A f \in Frames' : f = g \/ (f \in Frames /\ f.ptr # s)
        /\ \A f \in Frames : f = h \/ (f \in Frames' /\ f.ptr # s)
        /\ \A x \in Slot : Busy(x)' <=> Busy(x)
        /\ \A x \in Slot : Between(x)' <=> Between(x)
  <2>1. "clear" \in Labels /\ "clear" \in Sharing /\ "deleteCounter" \in Sharing
    BY DEF Labels, Sharing
  <2>2. \A x \in Slot : (Between(x)' <=> IF x = s THEN TRUE ELSE Between(x))
                        /\ Between(s) => (Between(x)' <=> Between(x))
    BY <2>1, <1>1, <1>2, <1>5, Stepped
  <2> QED BY <2>1, <1>1, <1>2, <1>5, Stepped
<1>7. \A d : Holders(d)' = Holders(d)
  BY <1>5, <1>6 DEF Holders
<1>8. /\ \A x \in Slot : ptr[x].counter = c => Between(x)
      /\ \A f \in Frames : f # h /\ Dooms(f) => ptr[f.ptr].counter # c
  BY <1>1, <1>4, <1>6 DEF Holders, Inv, Lone, Dooms
<1>9. \A x \in Slot : ptr[x].counter # c /\ Counted(x) => Counted(x)'
  BY <1>5 DEF Counted
<1>10. Settled'
  <2>1. \A x \in Slot : ~Busy(x) => ~Between(x)
    BY <1>2, ByFrames DEF Busy
  <2> QED BY <2>1, <1>5, <1>6, <1>8, <1>9 DEF Inv, Settled
<1>11. Placed'
  <2>1. PlacedAt(g, s)'
    BY <1>4, <1>5, <1>6 DEF PlacedAt, Dooms
  <2>2. ASSUME NEW f \in Frames, f.ptr # s PROVE PlacedAt(f, f.ptr)'
    <3>1. PlacedAt(f, f.ptr) /\ f.ptr \in Slot
      BY FrameFields DEF Inv, Placed
    <3>2. f.at = "decrease" => ptr[f.ptr].counter # c
      <4>1. \A e \in Frames : e.ptr = f.ptr => e = f
        BY <1>2, <2>2, OneFrame
      <4> QED BY <4>1, <3>1, <1>2, <1>8, ByFrames DEF Sharing
    <3>3. Dooms(f) => ptr[f.ptr].counter # c
      BY <2>2, <1>6, <1>8
    <3>4. f.at \in {"decrease", "destroy"} => Counted(f.ptr)'
      BY <3>1, <3>2, <3>3, <1>9 DEF PlacedAt, Dooms
    <3> QED BY <3>1, <3>3, <3>4, <1>5, <1>7 DEF PlacedAt, Dooms
  <2> QED BY <2>1, <2>2, <1>6 DEF Placed
<1>12. Lone'
  BY <1>5, <1>6 DEF Inv, Lone, Dooms
<1>13. Sourced'
  <2>1. \A m : Kept(m) => Kept(m)'
    BY <1>5, <1>6 DEF Kept, Locals
  <2> QED BY <2>1, <1>5, <1>6, FrameFields DEF Inv, Sourced
<1>14. Together'
  BY <1>4, <1>5, <1>6 DEF Inv, Together
<1>15. Counts'
  BY <1>5, <1>7 DEF Inv, Counts
<1>16. Owned'
  <2> SUFFICES ASSUME NEW d \in counters \ {c}
               PROVE  Holders(d)' # {} \/ \E f \in Frames' : Dooms(f) /\ ptr[f.ptr].counter = d
    BY <1>5 DEF Owned, Dooms
  <2> QED BY <1>1, <1>6, <1>7 DEF Inv, Owned
<1> QED BY <1>5, <1>6, <1>10, <1>11, <1>12, <1>13, <1>14, <1>15, <1>16 DEF Inv, Stacks

(* The fields are cleared: an assignment goes on to the copy, a destructor *)
(* is over.                                                                *)
LEMMA ClearKeeps ==
  ASSUME Inv, NEW t \in Thread, Clear(t), TypeOK'
  PROVE  Inv'
<1>1. PICK s : s = Self(t)
  OBVIOUS
<1>2. At(t, "clear") /\ Stacks /\ stack[t] # <<>> /\ StackOK
  BY DEF Clear, Inv, TypeOK, Stacks, StackOK, At
<1>3. PICK h \in Frames : h = Head(stack[t]) /\ s = h.ptr /\ s \in Slot /\ h.at = "clear"
                          /\ h.other = Other(t) /\ Other(t) \in Slot \cup {None}
  BY <1>1, <1>2, TopFrame DEF At
<1>4. s \in constructed /\ Busy(s)
  BY <1>3 DEF Inv, Placed, PlacedAt, Busy
<1>5. /\ ptr' = [ptr EXCEPT ![s] = [ptr[s] EXCEPT !.counter = None, !.object = None]]
      /\ UNCHANGED <<count, counters, objects, released, lock, fault>>
  BY <1>1 DEF Clear, Cleared, heap
<1>6. /\ ptr'[s].counter = None /\ ptr'[s].object = None
      /\ \A x \in Slot : x # s => ptr'[x] = ptr[x]
  BY <1>3, <1>5 DEF Inv, TypeOK, Fields
<1>7. \/ Other(t) # None /\ Goto(t, "lock") /\ constructed' = constructed
      \/ Other(t) = None /\ Return(t) /\ constructed' = constructed \ {s}
  BY <1>1 DEF Clear
<1>8. /\ Stacks'
      /\ \A f \in Frames' : \/ /\ f.ptr = s /\ f.other = Other(t) /\ f.at = "lock"
                               /\ Other(t) # None /\ constructed' = constructed
                            \/ f \in Frames /\ f.ptr # s
      /\ \A f \in Frames : f = h \/ (f \in Frames' /\ f.ptr # s)
      /\ \A x \in Slot : Busy(x)' => Busy(x)
      /\ \A x \in Slot : x # s => (Busy(x)' <=> Busy(x)) /\ (Between(x)' <=> Between(x))
      /\ ~Between(s)' /\ Between(s)
      /\ ~Busy(s)' => constructed' = constructed \ {s}
  <2>1. "clear" \in Sharing /\ "lock" \notin Sharing /\ "lock" \in Labels
    BY DEF Sharing, Labels
  <2>2. \A f \in Frames : f = h \/ f.ptr # s
    BY <1>2, <1>3, OneFrame
  <2>3. Between(s)
    BY <2>1, <1>2, <1>3, ByFrames
  <2>4. CASE Other(t) # None /\ Goto(t, "lock") /\ constructed' = constructed
    <3>1. PICK g \in Frames' :
            /\ Stacks' /\ g.ptr = Self(t) /\ g.other = Other(t) /\ g.at = "lock"
            /\ \A f \in Frames' : f = g \/ (f \in Frames /\ f.ptr # Self(t))
            /\ \A f \in Frames : f.ptr = Self(t) \/ f \in Frames'
            /\ \A x \in Slot : Busy(x)' <=> Busy(x)
            /\ \A x \in Slot : Between(x)' <=> IF x = Self(t) THEN "lock" \in Sharing ELSE Between(x)
      <4>1. PICK e \in Frames, g \in Frames' :
              /\ Self(t) \in Slot /\ Stacks'
              /\ e.ptr = Self(t) /\ e.other = Other(t) /\ e.at = "clear"
              /\ g.ptr = Self(t) /\ g.other = Other(t) /\ g.at = "lock"
              /\ \A f \in Frames' : f = g \/ (f \in Frames /\ f.ptr # Self(t))
              /\ \A f \in Frames : f = e \/ (f \in Frames' /\ f.ptr # Self(t))
              /\ \A x \in Slot : Busy(x)' <=> Busy(x)
              /\ \A x \in Slot : Between(x)' <=> IF x = Self(t) THEN "lock" \in Sharing ELSE Between(x)
        BY <2>1, <2>4, <1>2, Stepped
      <4>2. \A f \in Frames : f.ptr = Self(t) \/ f \in Frames'
        BY <4>1
      <4> QED BY <4>1, <4>2
    <3> QED BY <2>1, <2>2, <2>3, <2>4, <3>1, <1>1, <1>3, <1>4
  <2>5. CASE Other(t) = None /\ Return(t) /\ constructed' = constructed \ {s}
    BY <2>1, <2>2, <2>3, <2>5, <1>1, <1>2, <1>3, Gone
  <2> QED BY <2>4, <2>5, <1>7
<1>9. \A d : d # None => Holders(d)' = Holders(d)
  BY <1>6, <1>8 DEF Holders
<1>10. /\ \A x \in Slot : x # s /\ Counted(x) => Counted(x)'
       /\ \A f \in Frames : f.other # s
       /\ counters \subseteq Cell /\ None \notin Cell
  <2>1. \A x \in Slot : x # s /\ Counted(x) => Counted(x)'
    BY <1>5, <1>6 DEF Counted
  <2>2. \A f \in Frames : f.other # s
    BY <1>3, <1>4, NoneApart DEF Inv, Sourced
  <2>3. counters \subseteq Cell /\ None \notin Cell
    BY NoneApart DEF Inv, TypeOK
  <2> QED BY <2>1, <2>2, <2>3
<1>11. Settled'
  <2> SUFFICES ASSUME NEW x \in Slot, ~Busy(x)'
               PROVE  IF x \in constructed' THEN Counted(x)' ELSE ptr'[x].counter = None
    BY DEF Settled
  <2>1. CASE x = s
    BY <2>1, <1>6, <1>8
  <2>2. CASE x # s
    <3>1. ~Busy(x) /\ (x \in constructed' <=> x \in constructed)
      BY <2>2, <1>7, <1>8
    <3> QED BY <2>2, <3>1, <1>6, <1>10 DEF Inv, Settled
  <2> QED BY <2>1, <2>2
<1>12. Placed'
  <2> SUFFICES ASSUME NEW f \in Frames' PROVE PlacedAt(f, f.ptr)'
    BY DEF Placed
  <2>1. CASE f.ptr = s
    BY <2>1, <1>6, <1>8 DEF PlacedAt, Dooms
  <2>2. CASE f.ptr # s
    <3>1. f \in Frames /\ PlacedAt(f, f.ptr) /\ f.ptr \in Slot /\ f.other \in Slot \cup {None}
          /\ f.other # s
      BY <2>2, <1>8, <1>10, FrameFields DEF Inv, Placed
    <3>2. f.ptr \in constructed => f.ptr \in constructed'
      BY <2>2, <1>7
    <3>3. ptr'[f.ptr] = ptr[f.ptr] /\ (f.other # None => ptr'[f.other] = ptr[f.other])
      BY <2>2, <3>1, <1>6
    <3>4. Dooms(f) => Holders(ptr[f.ptr].counter)' = {}
      <4>1. Dooms(f) => ptr[f.ptr].counter \in counters
        <5>1. f.at = "destroy" => ptr[f.ptr].counter \in counters
          BY <3>1 DEF PlacedAt, Counted
        <5>2. f.at = "deleteCounter" => ptr[f.ptr].counter \in counters
          BY <3>1 DEF PlacedAt
        <5> QED BY <5>1, <5>2 DEF Dooms
      <4>2. PICK d : d = ptr[f.ptr].counter /\ d = ptr'[f.ptr].counter
        BY <3>3
      <4>3. Dooms(f) => Holders(d) = {} /\ d # None
        BY <4>1, <4>2, <3>1, <1>10 DEF PlacedAt
      <4>4. Dooms(f) => Holders(d)' = {}
        BY <4>3, <1>9
      <4> QED BY <4>2, <4>4
    <3>5. f.at \in {"decrease", "destroy"} => Counted(f.ptr)'
      BY <2>2, <3>1, <1>10 DEF PlacedAt
    <3> QED BY <3>1, <3>2, <3>3, <3>4, <3>5, <1>5 DEF PlacedAt, Dooms
  <2> QED BY <2>1, <2>2
<1>13. Lone'
  BY <1>6, <1>8, FrameFields DEF Inv, Lone, Dooms
<1>14. Sourced'
  <2>1. \A m : Kept(m) => Kept(m)'
    <3> SUFFICES ASSUME NEW m, Kept(m) PROVE Kept(m)'
      OBVIOUS
    <3>1. PICK p \in Locals \cap constructed : ~Busy(p) /\ ptr[p].object # None /\ MemberOf[ptr[p].object] = m
      BY DEF Kept
    <3>2. p \in Slot /\ p # s
      BY <3>1, <1>4 DEF Locals
    <3>3. p \in constructed'
      BY <3>1, <3>2, <1>7
    <3> QED BY <3>1, <3>2, <3>3, <1>6, <1>8 DEF Kept
  <2> SUFFICES ASSUME NEW f \in Frames', f.other # None
               PROVE  /\ f.other \in constructed' /\ ~Busy(f.other)'
                      /\ f.other \in Members => Kept(f.other)'
                      /\ f.ptr \in Members => Kept(f.ptr)'
    BY DEF Sourced
  <2>2. PICK e \in Frames : e.ptr = f.ptr /\ e.other = f.other
    BY <1>3, <1>8
  <2>3. e.other \in constructed /\ ~Busy(e.other) /\ e.other \in Slot /\ e.other # s
        /\ (e.other \in Members => Kept(e.other)) /\ (e.ptr \in Members => Kept(e.ptr))
    BY <2>2, <1>10, FrameFields DEF Inv, Sourced
  <2> QED BY <2>1, <2>2, <2>3, <1>7, <1>8
<1>15. Together'
  <2>1. CASE constructed' = constructed
    BY <2>1, <1>5, <1>8 DEF Inv, Together
  <2>2. CASE constructed' # constructed
    <3>1. h.other = None /\ constructed' = constructed \ {s}
      BY <2>2, <1>3, <1>7
    <3> QED BY <3>1, <1>3, <1>5, <1>8 DEF Inv, Together
  <2> QED BY <2>1, <2>2
<1>16. Counts'
  BY <1>5, <1>9, <1>10 DEF Inv, Counts
<1>17. Owned'
  <2> SUFFICES ASSUME NEW d \in counters
               PROVE  Holders(d)' # {} \/ \E f \in Frames' : Dooms(f) /\ ptr'[f.ptr].counter = d
    BY <1>5 DEF Owned, Dooms
  <2>1. CASE Holders(d) # {}
    BY <2>1, <1>9, <1>10
  <2>2. CASE Holders(d) = {}
    <3>1. PICK f \in Frames : Dooms(f) /\ ptr[f.ptr].counter = d
      BY <2>2 DEF Inv, Owned
    <3>2. f # h
      BY <3>1, <1>3 DEF Dooms
    <3> QED BY <3>1, <3>2, <1>6, <1>8, FrameFields
  <2> QED BY <2>1, <2>2
<1> QED BY <1>5, <1>8, <1>11, <1>12, <1>13, <1>14, <1>15, <1>16, <1>17 DEF Inv, Stacks

(* A step of a copy that takes no share and gives none back.               *)
LEMMA CopyKeeps ==
  ASSUME Inv, TypeOK', Stacks', NEW s \in Slot, NEW h \in Frames, NEW g \in Frames',
         h.ptr = s, g.ptr = s, g.other = h.other, h.other # None, ~Dooms(h), ~Dooms(g),
         \A f \in Frames' : f = g \/ (f \in Frames /\ f.ptr # s),
         \A f \in Frames : f = h \/ (f \in Frames' /\ f.ptr # s),
         \A x \in Slot : Busy(x)' <=> Busy(x),
         \A x \in Slot : x # s => (Between(x)' <=> Between(x)),
         Between(s) \/ ptr[s].counter = None,
         Between(s)' \/ ptr'[s].counter = None,
         \A x \in Slot : x # s => ptr'[x] = ptr[x],
         UNCHANGED <<constructed, count, counters, objects, released, fault>>,
         PlacedAt(g, s)'
  PROVE  Inv'
<1>1. \A d : d # None => Holders(d)' = Holders(d)
  BY DEF Holders
<1>2. Busy(s) /\ \A f \in Frames : f.other # s
  <2>1. Busy(s)
    BY DEF Busy
  <2> QED BY <2>1, NoneApart DEF Inv, Sourced
<1>3. counters \subseteq Cell /\ None \notin Cell
  BY NoneApart DEF Inv, TypeOK
<1>4. \A x \in Slot : x # s => (Counted(x)' <=> Counted(x))
  BY DEF Counted
<1>5. Settled'
  BY <1>2, <1>4 DEF Inv, Settled
<1>6. Placed'
  <2> SUFFICES ASSUME NEW f \in Frames, f.ptr # s PROVE PlacedAt(f, f.ptr)'
    BY DEF Placed
  <2>1. PlacedAt(f, f.ptr) /\ f.ptr \in Slot /\ f.other \in Slot \cup {None} /\ f.other # s
    BY <1>2, FrameFields DEF Inv, Placed
  <2>2. ptr'[f.ptr] = ptr[f.ptr] /\ (f.other # None => ptr'[f.other] = ptr[f.other])
        /\ (Counted(f.ptr)' <=> Counted(f.ptr))
    BY <2>1, <1>4
  <2>3. PICK d : d = ptr[f.ptr].counter /\ d = ptr'[f.ptr].counter
    BY <2>2
  <2>4. Dooms(f) => d \in counters
    <3>1. f.at = "destroy" => d \in counters
      BY <2>1, <2>3 DEF PlacedAt, Counted
    <3>2. f.at = "deleteCounter" => d \in counters
      BY <2>1, <2>3 DEF PlacedAt
    <3> QED BY <3>1, <3>2 DEF Dooms
  <2>5. Dooms(f) => Holders(d)' = {}
    <3>1. Dooms(f) => Holders(d) = {}
      BY <2>1, <2>3 DEF PlacedAt
    <3> QED BY <2>4, <3>1, <1>1, <1>3
  <2>6. Dooms(f) => Holders(ptr[f.ptr].counter)' = {}
    BY <2>3, <2>5
  <2> QED BY <2>1, <2>2, <2>6 DEF PlacedAt, Dooms
<1>7. Lone'
  BY FrameFields DEF Inv, Lone, Dooms
<1>8. Sourced'
  <2>1. \A m : Kept(m) => Kept(m)'
    BY <1>2 DEF Kept, Locals
  <2> QED BY <2>1, FrameFields DEF Inv, Sourced
<1>9. Together'
  BY DEF Inv, Together
<1>10. Counts'
  BY <1>1, <1>3 DEF Inv, Counts
<1>11. Owned'
  <2> SUFFICES ASSUME NEW d \in counters
               PROVE  Holders(d)' # {} \/ \E f \in Frames' : Dooms(f) /\ ptr'[f.ptr].counter = d
    BY DEF Owned, Dooms
  <2>1. CASE Holders(d) # {}
    BY <2>1, <1>1, <1>3
  <2>2. CASE Holders(d) = {}
    <3>1. PICK f \in Frames : Dooms(f) /\ ptr[f.ptr].counter = d
      BY <2>2 DEF Inv, Owned
    <3> QED BY <3>1, FrameFields DEF Dooms
  <2> QED BY <2>1, <2>2
<1> QED BY <1>5, <1>6, <1>7, <1>8, <1>9, <1>10, <1>11 DEF Inv, Stacks

LEMMA LockKeeps ==
  ASSUME Inv, NEW t \in Thread, Lock(t), TypeOK'
  PROVE  Inv'
<1>1. /\ At(t, "lock") /\ Stacks /\ Goto(t, "takeCounter")
      /\ UNCHANGED <<constructed, ptr, count, counters, objects, released, fault>>
  BY DEF Lock, heap, Inv, TypeOK, Stacks, StackOK
<1>2. "takeCounter" \in Labels
  BY DEF Labels
<1>3. PICK h \in Frames, g \in Frames' :
        /\ Self(t) \in Slot /\ Stacks'
        /\ h.ptr = Self(t) /\ h.other = Other(t) /\ h.at = "lock"
        /\ g.ptr = Self(t) /\ g.other = Other(t) /\ g.at = "takeCounter"
        /\ \A f \in Frames' : f = g \/ (f \in Frames /\ f.ptr # Self(t))
        /\ \A f \in Frames : f = h \/ (f \in Frames' /\ f.ptr # Self(t))
        /\ \A x \in Slot : Busy(x)' <=> Busy(x)
        /\ \A x \in Slot : Between(x)' <=> IF x = Self(t) THEN "takeCounter" \in Sharing ELSE Between(x)
  BY <1>1, <1>2, Stepped
<1>4. PICK s : s = Self(t)
  OBVIOUS
<1>5. ptr[s].counter = None /\ ptr[s].object = None /\ h.other # None
  BY <1>3, <1>4 DEF Inv, Placed, PlacedAt
<1>6. PlacedAt(g, s)' /\ ~Dooms(h) /\ ~Dooms(g)
  BY <1>1, <1>3, <1>5 DEF PlacedAt, Dooms
<1> QED BY <1>1, <1>3, <1>4, <1>5, <1>6, CopyKeeps

LEMMA TakeCounterKeeps ==
  ASSUME Inv, NEW t \in Thread, TakeCounter(t), TypeOK'
  PROVE  Inv'
<1>1. At(t, "takeCounter") /\ Stacks
  BY DEF TakeCounter, Inv, TypeOK, Stacks, StackOK
<1>2. PICK s, o : s = Self(t) /\ o = Other(t)
  OBVIOUS
<1>3. /\ s \in Slot /\ o \in Slot /\ o \in constructed /\ o # s
      /\ ptr[s].counter = None /\ ptr[s].object = None /\ o # None
  <2>1. Head(stack[t]) \in Frames /\ s = Head(stack[t]).ptr /\ o = Head(stack[t]).other
        /\ s \in Slot /\ o \in Slot \cup {None} /\ Head(stack[t]).at = "takeCounter"
    BY <1>1, <1>2, TopFrame DEF At, Stacks
  <2>2. o # None /\ ptr[s].counter = None /\ ptr[s].object = None /\ Busy(s)
    BY <2>1 DEF Inv, Placed, PlacedAt, Busy
  <2> QED BY <2>1, <2>2 DEF Inv, Sourced
<1>4. /\ ptr' = [ptr EXCEPT ![s].counter = ptr[o].counter, ![s].method = ptr[o].method]
      /\ Goto(t, "takeObject")
      /\ UNCHANGED <<constructed, count, counters, objects, released, fault>>
  BY <1>2, <1>3 DEF TakeCounter, heap
<1>5. "takeObject" \in Labels /\ "takeObject" \in Sharing
  BY DEF Labels, Sharing
<1>6. PICK h \in Frames, g \in Frames' :
        /\ Stacks'
        /\ h.ptr = s /\ h.other = o /\ h.at = "takeCounter"
        /\ g.ptr = s /\ g.other = o /\ g.at = "takeObject"
        /\ \A f \in Frames' : f = g \/ (f \in Frames /\ f.ptr # s)
        /\ \A f \in Frames : f = h \/ (f \in Frames' /\ f.ptr # s)
        /\ \A x \in Slot : Busy(x)' <=> Busy(x)
        /\ \A x \in Slot : Between(x)' <=> IF x = s THEN "takeObject" \in Sharing ELSE Between(x)
  BY <1>1, <1>2, <1>4, <1>5, Stepped
<1>7. ptr'[s].counter = ptr[o].counter /\ \A x \in Slot : x # s => ptr'[x] = ptr[x]
  BY <1>3, <1>4 DEF Inv, TypeOK, Fields
<1>8. PlacedAt(g, s)' /\ ~Dooms(h) /\ ~Dooms(g)
  BY <1>3, <1>6, <1>7 DEF PlacedAt, Dooms
<1> QED BY <1>3, <1>4, <1>5, <1>6, <1>7, <1>8, CopyKeeps

LEMMA TakeObjectKeeps ==
  ASSUME Inv, NEW t \in Thread, TakeObject(t), TypeOK'
  PROVE  Inv'
<1>1. At(t, "takeObject") /\ Stacks
  BY DEF TakeObject, Inv, TypeOK, Stacks, StackOK
<1>2. PICK s, o : s = Self(t) /\ o = Other(t)
  OBVIOUS
<1>3. /\ s \in Slot /\ o \in Slot /\ o \in constructed /\ o # s
      /\ ptr[s].counter = ptr[o].counter /\ o # None
  <2>1. Head(stack[t]) \in Frames /\ s = Head(stack[t]).ptr /\ o = Head(stack[t]).other
        /\ s \in Slot /\ o \in Slot \cup {None} /\ Head(stack[t]).at = "takeObject"
    BY <1>1, <1>2, TopFrame DEF At, Stacks
  <2>2. o # None /\ ptr[s].counter = ptr[o].counter /\ Busy(s)
    BY <2>1 DEF Inv, Placed, PlacedAt, Busy
  <2> QED BY <2>1, <2>2 DEF Inv, Sourced
<1>4. /\ ptr' = [ptr EXCEPT ![s].object = ptr[o].object]
      /\ Goto(t, "increase")
      /\ UNCHANGED <<constructed, count, counters, objects, released, fault>>
  BY <1>2, <1>3 DEF TakeObject, heap
<1>5. "increase" \in Labels /\ "increase" \in Sharing /\ "takeObject" \in Sharing
  BY DEF Labels, Sharing
<1>6. PICK h \in Frames, g \in Frames' :
        /\ Stacks'
        /\ h.ptr = s /\ h.other = o /\ h.at = "takeObject"
        /\ g.ptr = s /\ g.other = o /\ g.at = "increase"
        /\ \A f \in Frames' : f = g \/ (f \in Frames /\ f.ptr # s)
        /\ \A f \in Frames : f = h \/ (f \in Frames' /\ f.ptr # s)
        /\ \A x \in Slot : Busy(x)' <=> Busy(x)
        /\ \A x \in Slot : Between(x)' <=> IF x = s THEN "increase" \in Sharing ELSE Between(x)
        /\ Between(s) <=> "takeObject" \in Sharing
  BY <1>1, <1>2, <1>4, <1>5, Stepped
<1>7. /\ ptr'[s].counter = ptr[s].counter /\ ptr'[s].object = ptr[o].object
      /\ \A x \in Slot : x # s => ptr'[x] = ptr[x]
  BY <1>3, <1>4 DEF Inv, TypeOK, Fields
<1>8. PlacedAt(g, s)' /\ ~Dooms(h) /\ ~Dooms(g)
  BY <1>3, <1>6, <1>7 DEF PlacedAt, Dooms
<1> QED BY <1>3, <1>4, <1>5, <1>6, <1>7, <1>8, CopyKeeps

(* The share is taken: the source, which rests, kept the counter alive.    *)
LEMMA IncreaseKeeps ==
  ASSUME Inv, NEW t \in Thread, Increase(t), TypeOK'
  PROVE  Inv'
<1>1. At(t, "increase") /\ Stacks /\ stack[t] # <<>>
  BY DEF Increase, At, Inv, TypeOK, Stacks, StackOK
<1>2. PICK s, o, c : s = Self(t) /\ o = Other(t) /\ c = ptr[s].counter
  OBVIOUS
<1>3. PICK h \in Frames : h = Head(stack[t]) /\ h.ptr = s /\ h.other = o /\ h.at = "increase"
                          /\ s \in Slot /\ o \in Slot \cup {None}
  BY <1>1, <1>2, TopFrame DEF At, Stacks
<1>4. /\ o # None /\ o \in Slot /\ o \in constructed /\ o # s /\ ~Busy(o)
      /\ c = ptr[o].counter /\ ptr[s].object = ptr[o].object
  <2>1. o # None /\ c = ptr[o].counter /\ ptr[s].object = ptr[o].object /\ Busy(s)
    BY <1>2, <1>3 DEF Inv, Placed, PlacedAt, Busy
  <2> QED BY <2>1, <1>3 DEF Inv, Sourced
<1>5. Counted(o) /\ ~Between(o) /\ Counted(s) /\ c \in counters /\ c \in Cell
  <2>1. Counted(o) /\ ~Between(o)
    BY <1>1, <1>4, ByFrames DEF Inv, Settled, Stacks, Busy
  <2> QED BY <2>1, <1>2, <1>4 DEF Counted, Inv, TypeOK
<1>6. /\ count' = [count EXCEPT ![c] = @ + 1] /\ Return(t)
      /\ constructed' = constructed \cup {s}
      /\ UNCHANGED <<ptr, counters, objects, released, fault>>
  BY <1>2, <1>5 DEF Increase, Increased
<1>7. count'[c] = count[c] + 1 /\ \A d \in Cell \ {c} : count'[d] = count[d]
  BY <1>5, <1>6 DEF Inv, TypeOK
<1>8. /\ Stacks' /\ \A f \in Frames' : f \in Frames /\ f.ptr # s
      /\ \A f \in Frames : f = h \/ f \in Frames'
      /\ \A x \in Slot : Busy(x)' <=> x # s /\ Busy(x)
      /\ \A x \in Slot : Between(x)' <=> x # s /\ Between(x)
  BY <1>1, <1>2, <1>3, <1>6, Gone
<1>9. Between(s)
  <2>1. "increase" \in Sharing
    BY DEF Sharing
  <2> QED BY <2>1, <1>1, <1>3, ByFrames DEF Stacks
<1>10. /\ Holders(c)' = Holders(c) \cup {s} /\ s \notin Holders(c)
       /\ \A d : d # c => Holders(d)' = Holders(d)
  BY <1>2, <1>3, <1>6, <1>8, <1>9 DEF Holders
<1>11. Holders(c) # {}
  BY <1>4, <1>5 DEF Holders
<1>12. \A f \in Frames : Dooms(f) => ptr[f.ptr].counter # c
  BY <1>11 DEF Inv, Placed, PlacedAt
<1>13. Settled'
  BY <1>5, <1>6, <1>8 DEF Inv, Settled, Counted
<1>14. Placed'
  <2> SUFFICES ASSUME NEW f \in Frames' PROVE PlacedAt(f, f.ptr)'
    BY DEF Placed
  <2>1. f \in Frames /\ PlacedAt(f, f.ptr) /\ (Dooms(f) => ptr[f.ptr].counter # c)
    BY <1>8, <1>12 DEF Inv, Placed
  <2> QED BY <2>1, <1>6, <1>10 DEF PlacedAt, Counted, Dooms
<1>15. Lone'
  BY <1>6, <1>8 DEF Inv, Lone, Dooms
<1>16. Sourced'
  <2>1. \A m : Kept(m) => Kept(m)'
    BY <1>6, <1>8 DEF Kept, Locals
  <2> QED BY <2>1, <1>6, <1>8, FrameFields DEF Inv, Sourced
<1>17. Together'
  BY <1>6, <1>8 DEF Inv, Together
<1>18. Counts'
  <2> SUFFICES ASSUME NEW d \in counters PROVE count'[d] = Cardinality(Holders(d)')
    BY <1>6 DEF Counts
  <2>1. d \in Cell /\ count[d] = Cardinality(Holders(d))
    BY DEF Inv, Counts, TypeOK
  <2>2. Cardinality(Holders(c) \cup {s}) = Cardinality(Holders(c)) + 1
    BY <1>10, HoldersFinite, OneMore
  <2> QED BY <2>1, <2>2, <1>7, <1>10
<1>19. Owned'
  <2> SUFFICES ASSUME NEW d \in counters
               PROVE  Holders(d)' # {} \/ \E f \in Frames' : Dooms(f) /\ ptr[f.ptr].counter = d
    BY <1>6 DEF Owned, Dooms
  <2>1. Holders(d) # {} \/ \E f \in Frames : Dooms(f) /\ ptr[f.ptr].counter = d
    BY DEF Inv, Owned
  <2> QED BY <2>1, <1>3, <1>8, <1>10 DEF Dooms
<1> QED BY <1>6, <1>8, <1>13, <1>14, <1>15, <1>16, <1>17, <1>18, <1>19 DEF Inv, Stacks

LEMMA StepKeeps ==
  ASSUME Inv, NEW t \in Thread, Step(t), TypeOK'
  PROVE  Inv'
BY DecreaseKeeps, DestroyKeeps, DeleteCounterKeeps, ClearKeeps, LockKeeps,
   TakeCounterKeeps, TakeObjectKeeps, IncreaseKeeps DEF Step

-----------------------------------------------------------------------------
(* The calls.  What their guards say, by frames.                           *)
LEMMA MayDo ==
  ASSUME StackOK, NEW s \in Slot
  PROVE  /\ Unused(s) <=> ~Busy(s) /\ \A f \in Frames : f.other # s
         /\ MayEnd(s) => Unused(s) /\ ~Pinning(s)
         /\ Exclusive /\ MayRead(s) => ~Busy(s)
         /\ Exclusive /\ MayWrite(s) => Unused(s) /\ ~Pinning(s)
BY CallsByFrames DEF Unused, MayEnd, MayRead, MayWrite

LEMMA ReachedKept ==
  ASSUME StackOK, NEW m \in Members, NEW except, Reached(m, except)
  PROVE  \E p \in Locals \cap constructed :
           p \notin except /\ ~Busy(p) /\ ptr[p].object # None /\ MemberOf[ptr[p].object] = m
BY CallsByFrames DEF Reached, Locals

LEMMA Standing ==
  ASSUME Stacks, stack' = stack
  PROVE  /\ Stacks' /\ Frames' = Frames
         /\ \A x \in Slot : (Busy(x)' <=> Busy(x)) /\ (Between(x)' <=> Between(x))
BY DEF Stacks, StackOK, Apart, Frames, Busy, Between

(* New variables, N, with new counters, C, some of which count an object.  *)
LEMMA FreshKeeps ==
  ASSUME Inv, TypeOK', UNCHANGED <<stack, released, fault>>,
         NEW N \in SUBSET Slot, NEW C \in SUBSET Cell, NEW O \in SUBSET C,
         N \cap constructed = {},
         \A x \in N : ~Busy(x) /\ \A f \in Frames : f.other # x,
         C \cap (counters \cup objects \cup released) = {},
         constructed' = constructed \cup N,
         counters' = counters \cup C, objects' = objects \cup O,
         \A x \in Slot \ N : ptr'[x] = ptr[x],
         \A x \in N : /\ ptr'[x].counter \in C
                      /\ ptr'[x].object = IF ptr'[x].counter \in O THEN ptr'[x].counter ELSE None,
         \A x, y \in N : ptr'[x].counter = ptr'[y].counter => x = y,
         \A d \in C : \E x \in N : ptr'[x].counter = d,
         \A d \in C : count'[d] = 1,
         \A d \in Cell \ C : count'[d] = count[d],
         \A d \in O : MemberOf[d] # None => MemberOf[d] \in N
  PROVE  Inv'
<1>1. Stacks
  BY DEF Inv, TypeOK, Stacks, StackOK
<1>2. /\ Stacks' /\ Frames' = Frames
      /\ \A x \in Slot : (Busy(x)' <=> Busy(x)) /\ (Between(x)' <=> Between(x))
  BY <1>1, Standing
<1>3. /\ \A x \in N : ptr[x].counter = None /\ ~Between(x)
      /\ \A d \in C : Holders(d) = {} /\ d # None
      /\ None \notin Cell /\ counters \subseteq Cell
  <2>1. \A x \in N : ptr[x].counter = None /\ ~Between(x)
    BY <1>1, ByFrames DEF Inv, Settled, Busy, Stacks
  <2>2. None \notin Cell /\ counters \subseteq Cell
    BY NoneApart DEF Inv, TypeOK
  <2> QED BY <2>1, <2>2, FreeUnheld
<1>4. /\ \A d \in Cell \ C : Holders(d)' = Holders(d)
      /\ \A d \in C : \E x \in N : Holders(d)' = {x}
  <2>1. ASSUME NEW d \in Cell \ C PROVE Holders(d)' = Holders(d)
    BY <1>2, <1>3 DEF Holders
  <2>2. ASSUME NEW d \in C PROVE \E x \in N : Holders(d)' = {x}
    <3>1. PICK x \in N : ptr'[x].counter = d
      OBVIOUS
    <3>2. \A y \in Slot \ N : ~(ptr'[y].counter = d /\ ~Between(y)')
      BY <1>2, <1>3 DEF Holders
    <3>3. \A y \in N : ptr'[y].counter = d => y = x
      BY <3>1
    <3>4. Holders(d)' = {x}
      BY <3>1, <3>2, <3>3, <1>2, <1>3 DEF Holders
    <3> QED BY <3>4
  <2> QED BY <2>1, <2>2
<1>5. \A x \in Slot \ N : Counted(x) => Counted(x)'
  BY DEF Counted
<1>6. \A x \in N : Counted(x)'
  BY DEF Counted, Inv, Together
<1>7. Settled'
  BY <1>2, <1>5, <1>6 DEF Inv, Settled
<1>8. Placed'
  <2> SUFFICES ASSUME NEW f \in Frames PROVE PlacedAt(f, f.ptr)'
    BY <1>2 DEF Placed
  <2>1. PlacedAt(f, f.ptr) /\ f.ptr \in Slot \ N /\ f.other \in Slot \cup {None} /\ f.other \notin N
    BY FrameFields DEF Inv, Placed, Busy
  <2>2. PICK d : d = ptr[f.ptr].counter /\ d = ptr'[f.ptr].counter
    BY <2>1
  <2>3. Dooms(f) => d \in counters
    <3>1. f.at = "destroy" => d \in counters
      BY <2>1, <2>2 DEF PlacedAt, Counted
    <3>2. f.at = "deleteCounter" => d \in counters
      BY <2>1, <2>2 DEF PlacedAt
    <3> QED BY <3>1, <3>2 DEF Dooms
  <2>4. Dooms(f) => Holders(d)' = {} /\ d \notin C
    BY <2>1, <2>2, <2>3, <1>3, <1>4 DEF PlacedAt
  <2>5. Dooms(f) => Holders(ptr[f.ptr].counter)' = {}
    BY <2>2, <2>4
  <2>6. f.at = "deleteCounter" => (ptr[f.ptr].counter \in counters \ objects)'
    BY <2>1, <2>2, <2>4 DEF PlacedAt, Dooms
  <2>7. f.at \in {"decrease", "destroy"} => Counted(f.ptr)'
    BY <2>1, <1>5 DEF PlacedAt
  <2>8. ptr'[f.ptr] = ptr[f.ptr] /\ (f.other # None => ptr'[f.other] = ptr[f.other])
    BY <2>1
  <2> QED BY <2>1, <2>5, <2>6, <2>7, <2>8 DEF PlacedAt, Dooms
<1>9. Lone'
  <2>1. \A f \in Frames : ptr'[f.ptr] = ptr[f.ptr]
    BY FrameFields DEF Busy
  <2> QED BY <2>1, <1>2 DEF Inv, Lone, Dooms
<1>10. Sourced'
  <2>1. \A m : Kept(m) => Kept(m)'
    BY <1>2 DEF Kept, Locals
  <2> QED BY <2>1, <1>2, FrameFields DEF Inv, Sourced
<1>11. Together'
  <2>1. objects' \subseteq counters' /\ objects' \cap released' = {}
    BY DEF Inv, Together
  <2>2. \A c \in objects' \cup released' : MemberOf[c] # None => MemberOf[c] \in constructed'
    BY DEF Inv, Together
  <2>3. \A f \in Frames, c \in objects' \cup released' : f.other = None => f.ptr # MemberOf[c]
    <3>1. ASSUME NEW f \in Frames, NEW c \in O PROVE f.ptr # MemberOf[c]
      BY NoneApart, FrameFields DEF Busy
    <3> QED BY <3>1 DEF Inv, Together
  <2> QED BY <2>1, <2>2, <2>3, <1>2 DEF Together
<1>12. Counts'
  <2> SUFFICES ASSUME NEW d \in counters' PROVE count'[d] = Cardinality(Holders(d)')
    BY DEF Counts
  <2>1. CASE d \in C
    <3>1. PICK x : Holders(d)' = {x}
      BY <2>1, <1>4
    <3>2. Cardinality({x}) = 1
      BY FS_Singleton
    <3> QED BY <2>1, <3>1, <3>2
  <2>2. CASE d \notin C
    <3>1. d \in counters /\ d \in Cell
      BY <2>2, <1>3
    <3> QED BY <3>1, <2>2, <1>4 DEF Inv, Counts
  <2> QED BY <2>1, <2>2
<1>13. Owned'
  <2> SUFFICES ASSUME NEW d \in counters'
               PROVE  Holders(d)' # {} \/ \E f \in Frames : Dooms(f) /\ ptr'[f.ptr].counter = d
    BY <1>2 DEF Owned, Dooms
  <2>1. CASE d \in C
    BY <2>1, <1>4
  <2>2. CASE d \notin C
    <3>1. d \in counters /\ d \in Cell
      BY <2>2, <1>3
    <3>2. Holders(d) # {} \/ \E f \in Frames : Dooms(f) /\ ptr[f.ptr].counter = d
      BY <3>1 DEF Inv, Owned
    <3>3. \A f \in Frames : ptr'[f.ptr] = ptr[f.ptr]
      BY FrameFields DEF Busy
    <3> QED BY <3>1, <3>2, <3>3, <2>2, <1>4
  <2> QED BY <2>1, <2>2
<1> QED BY <1>2, <1>7, <1>8, <1>9, <1>10, <1>11, <1>12, <1>13 DEF Inv, Stacks

(* A call that gives back the share of s, to take that of o, or for good.  *)
LEMMA BeginKeeps ==
  ASSUME Inv, TypeOK', NEW t \in Thread, stack[t] = <<>>,
         NEW s \in Slot, NEW o \in Slot \cup {None}, Enter(t, "decrease", s, o),
         s \in constructed, ~Busy(s), \A f \in Frames : f.other # s,
         UNCHANGED <<constructed, ptr, count, counters, objects, fault>>,
         released' \subseteq released,
         s \in Members \/ ~Pinning(s),
         o # None => /\ o \in constructed /\ ~Busy(o) /\ o # s
                     /\ o \in Members => \E p \in Locals \cap constructed :
                          p # s /\ ~Busy(p) /\ ptr[p].object # None /\ MemberOf[ptr[p].object] = o
                     /\ s \in Members => Kept(s),
         o = None => \A c \in objects \cup released' : s # MemberOf[c]
  PROVE  Inv'
<1>1. Stacks
  BY DEF Inv, TypeOK, Stacks, StackOK
<1>2. "decrease" \in Labels /\ "decrease" \notin Sharing
  BY DEF Labels, Sharing
<1>3. PICK n \in Frames' :
        /\ Stacks' /\ n.at = "decrease" /\ n.ptr = s /\ n.other = o
        /\ \A f \in Frames' : f = n \/ (f \in Frames /\ f.ptr # s)
        /\ Frames \subseteq Frames'
        /\ \A x \in Slot : Busy(x)' <=> x = s \/ Busy(x)
        /\ \A x \in Slot : Between(x)' <=> IF x = s THEN "decrease" \in Sharing ELSE Between(x)
  BY <1>1, <1>2, Begun
<1>4. ~Between(s) /\ Counted(s)
  BY <1>1, ByFrames DEF Stacks, Busy, Inv, Settled
<1>5. \A d : Holders(d)' = Holders(d)
  BY <1>2, <1>3, <1>4 DEF Holders
<1>6. \A x \in Slot : Counted(x)' <=> Counted(x)
  BY DEF Counted
<1>7. Settled'
  BY <1>3, <1>6 DEF Inv, Settled
<1>8. Placed'
  <2>1. PlacedAt(n, s)'
    BY <1>3, <1>4, <1>6 DEF PlacedAt, Dooms
  <2>2. ASSUME NEW f \in Frames PROVE PlacedAt(f, f.ptr)'
    BY <1>5, <1>6, FrameFields DEF Inv, Placed, PlacedAt, Dooms
  <2> QED BY <2>1, <2>2, <1>3 DEF Placed
<1>9. Lone'
  BY <1>3 DEF Inv, Lone, Dooms
<1>10. Sourced'
  <2>1. ASSUME NEW f \in Frames, f.other # None, NEW m \in {f.other, f.ptr}, m \in Members
        PROVE  Kept(m)'
    <3>1. Kept(m) /\ m \in Slot /\ m # None
      BY <2>1, FrameFields, NoneApart DEF Inv, Sourced
    <3>2. PICK p \in Locals \cap constructed :
            ~Busy(p) /\ ptr[p].object # None /\ MemberOf[ptr[p].object] = m
      BY <3>1 DEF Kept
    <3>3. p # s
      <4>1. CASE s \in Members
        BY <4>1 DEF Locals
      <4>2. CASE ~Pinning(s)
        <5>1. ~Unused(m)
          BY <1>1, <2>1, <3>1, MayDo DEF Busy, Stacks
        <5> QED BY <4>2, <5>1, <3>1, <3>2 DEF Pinning
      <4> QED BY <4>1, <4>2
    <3> QED BY <3>2, <3>3, <1>3 DEF Kept, Locals
  <2>2. \A f \in Frames : f.other # None => f.other \in constructed /\ ~Busy(f.other)'
    BY <1>3, FrameFields DEF Inv, Sourced
  <2>3. o # None => /\ o \in constructed /\ ~Busy(o)'
                    /\ o \in Members => Kept(o)'
                    /\ s \in Members => Kept(s)'
    <3>1. o # None /\ s \in Members => Kept(s)'
      BY <1>3 DEF Kept, Locals
    <3>2. o # None /\ o \in Members => Kept(o)'
      BY <1>3 DEF Kept, Locals
    <3> QED BY <3>1, <3>2, <1>3
  <2> QED BY <2>1, <2>2, <2>3, <1>3 DEF Sourced
<1>11. Together'
  BY <1>3 DEF Inv, Together
<1>12. Counts' /\ Owned'
  BY <1>3, <1>5 DEF Inv, Counts, Owned, Dooms
<1> QED BY <1>3, <1>7, <1>8, <1>9, <1>10, <1>11, <1>12 DEF Inv, Stacks

LEMMA constructDefaultKeeps ==
  ASSUME Inv, TypeOK', NEW t \in Thread, NEW s \in Slot, constructDefault(t, s)
  PROVE  Inv'
<1>1. StackOK /\ ptr \in [Slot -> Fields] /\ count \in [Cell -> Int]
  BY DEF Inv, TypeOK, StackOK
<1>2. PICK c \in Free :
        /\ ptr' = [ptr EXCEPT ![s] = [Nowhere EXCEPT !.counter = c]]
        /\ count' = [count EXCEPT ![c] = 1]
        /\ counters' = counters \cup {c}
  BY DEF constructDefault
<1>3. /\ s \notin constructed /\ constructed' = constructed \cup {s}
      /\ UNCHANGED <<objects, released, stack, fault>>
  BY DEF constructDefault
<1>4. ~Busy(s) /\ \A f \in Frames : f.other # s
  BY <1>1, MayDo DEF constructDefault
<1>5. c \in Cell /\ c \notin counters \cup objects \cup released
  BY <1>2 DEF Free
<1>6. /\ ptr'[s].counter = c /\ ptr'[s].object = None
      /\ \A x \in Slot \ {s} : ptr'[x] = ptr[x]
      /\ count'[c] = 1 /\ \A d \in Cell \ {c} : count'[d] = count[d]
  BY <1>1, <1>2, <1>5 DEF Nowhere
<1>7. PICK N, C, O : N = {s} /\ C = {c} /\ O = {}
  OBVIOUS
<1>8. /\ N \in SUBSET Slot /\ C \in SUBSET Cell /\ O \in SUBSET C
      /\ N \cap constructed = {} /\ C \cap (counters \cup objects \cup released) = {}
      /\ \A x \in N : ~Busy(x) /\ \A f \in Frames : f.other # x
      /\ constructed' = constructed \cup N
      /\ counters' = counters \cup C /\ objects' = objects \cup O
  BY <1>2, <1>3, <1>4, <1>5, <1>7
<1>9. /\ \A x \in Slot \ N : ptr'[x] = ptr[x]
      /\ \A x \in N : /\ ptr'[x].counter \in C
                      /\ ptr'[x].object = IF ptr'[x].counter \in O THEN ptr'[x].counter ELSE None
      /\ \A x, y \in N : ptr'[x].counter = ptr'[y].counter => x = y
      /\ \A d \in C : \E x \in N : ptr'[x].counter = d
  BY <1>6, <1>7
<1>10. /\ \A d \in C : count'[d] = 1
       /\ \A d \in Cell \ C : count'[d] = count[d]
       /\ \A d \in O : MemberOf[d] # None => MemberOf[d] \in N
  BY <1>6, <1>7
<1>11. UNCHANGED <<stack, released, fault>>
  BY <1>3
<1> QED BY <1>8, <1>9, <1>10, <1>11, FreshKeeps, ZenonT(60)

(* The member of an object that is about to be allocated is at rest.       *)
LEMMA NewMember ==
  ASSUME Inv, NEW c \in Free, MemberOf[c] # None
  PROVE  /\ MemberOf[c] \in Members /\ MemberOf[c] \notin constructed
         /\ ~Busy(MemberOf[c]) /\ \A f \in Frames : f.other # MemberOf[c]
<1>1. PICK m : m = MemberOf[c]
  OBVIOUS
<1>2. c \in Cell /\ m \in Members /\ m \notin constructed /\ m \in Slot /\ c \notin counters
  BY <1>1, SmartPtrAssumption DEF Free, Members
<1>3. \A f \in Frames : f.other # m
  BY <1>2, SmartPtrAssumption DEF Inv, Sourced, Members
<1>4. ~Busy(m)
  <2> SUFFICES ASSUME NEW f \in Frames, f.ptr = m PROVE FALSE
    BY DEF Busy
  <2>1. f.other # None
    BY <1>2, FrameFields DEF Inv, Placed, PlacedAt, Labels
  <2>2. Kept(m) /\ Holders(c) = {}
    BY <2>1, <1>2, SmartPtrAssumption, FreeUnheld DEF Inv, Sourced
  <2> QED BY <2>2, <1>1, <1>2, NotKept
<1> QED BY <1>1, <1>2, <1>3, <1>4

LEMMA constructObjectKeeps ==
  ASSUME Inv, TypeOK', NEW t \in Thread, NEW s \in Slot, NEW method \in Methods,
         constructObject(t, s, method)
  PROVE  Inv'
<1>1. StackOK /\ ptr \in [Slot -> Fields] /\ count \in [Cell -> Int]
  BY DEF Inv, TypeOK, StackOK
<1>2. /\ s \in Locals \ constructed /\ UNCHANGED <<released, stack, fault>>
      /\ ~Busy(s) /\ \A f \in Frames : f.other # s
  BY <1>1, MayDo DEF constructObject
<1>3. PICK c \in Free :
        LET m == MemberOf[c]
            new == [counter |-> c, object |-> c, method |-> method]
        IN  /\ objects' = objects \cup {c}
            /\ IF m = None
               THEN /\ ptr' = [ptr EXCEPT ![s] = new]
                    /\ count' = [count EXCEPT ![c] = 1]
                    /\ counters' = counters \cup {c}
                    /\ constructed' = constructed \cup {s}
               ELSE \E d \in Free \ {c} :
                    /\ ptr' = [ptr EXCEPT ![s] = new,
                                          ![m] = [Nowhere EXCEPT !.counter = d]]
                    /\ count' = [count EXCEPT ![c] = 1, ![d] = 1]
                    /\ counters' = counters \cup {c, d}
                    /\ constructed' = constructed \cup {s, m}
  BY DEF constructObject
<1>4. PICK m, new : m = MemberOf[c] /\ new = [counter |-> c, object |-> c, method |-> method]
  OBVIOUS
<1>5. c \in Cell /\ c \notin counters \cup objects \cup released /\ objects' = objects \cup {c}
  BY <1>3 DEF Free
<1>6. CASE m = None
  <2>1. /\ ptr' = [ptr EXCEPT ![s] = new] /\ count' = [count EXCEPT ![c] = 1]
        /\ counters' = counters \cup {c} /\ constructed' = constructed \cup {s}
    BY <1>3, <1>4, <1>6
  <2>2. /\ ptr'[s].counter = c /\ ptr'[s].object = c
        /\ \A x \in Slot \ {s} : ptr'[x] = ptr[x]
        /\ count'[c] = 1 /\ \A d \in Cell \ {c} : count'[d] = count[d]
    BY <2>1, <1>1, <1>4, <1>5
  <2>3. PICK N, C, O : N = {s} /\ C = {c} /\ O = {c}
    OBVIOUS
  <2>4. /\ N \in SUBSET Slot /\ C \in SUBSET Cell /\ O \in SUBSET C
        /\ N \cap constructed = {} /\ C \cap (counters \cup objects \cup released) = {}
        /\ \A x \in N : ~Busy(x) /\ \A f \in Frames : f.other # x
        /\ constructed' = constructed \cup N
        /\ counters' = counters \cup C /\ objects' = objects \cup O
    BY <1>2, <1>5, <2>1, <2>3
  <2>5. /\ \A x \in Slot \ N : ptr'[x] = ptr[x]
        /\ \A x \in N : /\ ptr'[x].counter \in C
                        /\ ptr'[x].object = IF ptr'[x].counter \in O THEN ptr'[x].counter ELSE None
        /\ \A x, y \in N : ptr'[x].counter = ptr'[y].counter => x = y
        /\ \A d \in C : \E x \in N : ptr'[x].counter = d
    BY <2>2, <2>3
  <2>6. /\ \A d \in C : count'[d] = 1
        /\ \A d \in Cell \ C : count'[d] = count[d]
        /\ \A d \in O : MemberOf[d] # None => MemberOf[d] \in N
    BY <1>4, <1>6, <2>2, <2>3
  <2> QED BY <1>2, <2>4, <2>5, <2>6, FreshKeeps, ZenonT(60)
<1>7. CASE m # None
  <2>1. PICK d \in Free \ {c} :
          /\ ptr' = [ptr EXCEPT ![s] = new, ![m] = [Nowhere EXCEPT !.counter = d]]
          /\ count' = [count EXCEPT ![c] = 1, ![d] = 1]
          /\ counters' = counters \cup {c, d}
          /\ constructed' = constructed \cup {s, m}
    BY <1>3, <1>4, <1>7
  <2>2. d \in Cell /\ d \notin counters \cup objects \cup released /\ d # c
    BY <2>1 DEF Free
  <2>3. /\ m \in Slot /\ m \notin constructed /\ m # s /\ ~Busy(m)
        /\ \A f \in Frames : f.other # m
    <3>1. m \in Members /\ m \notin constructed /\ ~Busy(m) /\ \A f \in Frames : f.other # m
      BY <1>4, <1>7, NewMember
    <3>2. m \in Slot
      BY <1>4, <1>5, <1>7, SmartPtrAssumption
    <3> QED BY <3>1, <3>2, <1>2 DEF Locals
  <2>4. /\ ptr'[s].counter = c /\ ptr'[s].object = c
        /\ ptr'[m].counter = d /\ ptr'[m].object = None
        /\ \A x \in Slot \ {s, m} : ptr'[x] = ptr[x]
        /\ count'[c] = 1 /\ count'[d] = 1 /\ \A e \in Cell \ {c, d} : count'[e] = count[e]
    BY <2>1, <2>2, <2>3, <1>1, <1>4, <1>5 DEF Nowhere
  <2>5. PICK N, C, O : N = {s, m} /\ C = {c, d} /\ O = {c}
    OBVIOUS
  <2>6. /\ N \in SUBSET Slot /\ C \in SUBSET Cell /\ O \in SUBSET C
        /\ N \cap constructed = {} /\ C \cap (counters \cup objects \cup released) = {}
        /\ \A x \in N : ~Busy(x) /\ \A f \in Frames : f.other # x
        /\ constructed' = constructed \cup N
        /\ counters' = counters \cup C /\ objects' = objects \cup O
    BY <1>2, <1>5, <2>1, <2>2, <2>3, <2>5
  <2>7. /\ \A x \in Slot \ N : ptr'[x] = ptr[x]
        /\ \A x \in N : /\ ptr'[x].counter \in C
                        /\ ptr'[x].object = IF ptr'[x].counter \in O THEN ptr'[x].counter ELSE None
        /\ \A x, y \in N : ptr'[x].counter = ptr'[y].counter => x = y
        /\ \A e \in C : \E x \in N : ptr'[x].counter = e
    BY <2>2, <2>3, <2>4, <2>5
  <2>8. /\ \A e \in C : count'[e] = 1
        /\ \A e \in Cell \ C : count'[e] = count[e]
        /\ \A e \in O : MemberOf[e] # None => MemberOf[e] \in N
    BY <1>4, <2>4, <2>5
  <2> QED BY <1>2, <2>6, <2>7, <2>8, FreshKeeps, ZenonT(60)
<1> QED BY <1>6, <1>7

LEMMA copyConstructKeeps ==
  ASSUME Inv, TypeOK', Exclusive, NEW t \in Thread, NEW s \in Slot, NEW o \in Slot,
         copyConstruct(t, s, o)
  PROVE  Inv'
<1>1. Stacks /\ StackOK /\ ptr \in [Slot -> Fields]
  BY DEF Inv, TypeOK, Stacks, StackOK
<1>2. /\ s \in Locals /\ s \notin constructed /\ ~Busy(s) /\ \A f \in Frames : f.other # s
      /\ o \in constructed /\ ~Busy(o) /\ o # s /\ o # None
      /\ UNCHANGED <<constructed, count, counters, objects, released, fault>>
  BY <1>1, MayDo, NoneApart DEF copyConstruct, heap
<1>3. o \in Members => Kept(o)
  BY <1>1, ReachedKept DEF copyConstruct, Kept
<1>4. "lock" \in Labels /\ "lock" \notin Sharing
  BY DEF Labels, Sharing
<1>5. PICK n \in Frames' :
        /\ Stacks' /\ n.at = "lock" /\ n.ptr = s /\ n.other = o
        /\ \A f \in Frames' : f = n \/ (f \in Frames /\ f.ptr # s)
        /\ Frames \subseteq Frames'
        /\ \A x \in Slot : Busy(x)' <=> x = s \/ Busy(x)
        /\ \A x \in Slot : Between(x)' <=> IF x = s THEN "lock" \in Sharing ELSE Between(x)
  BY <1>1, <1>2, <1>4, Begun DEF copyConstruct, Idle
<1>6. /\ ptr'[s].counter = None /\ ptr'[s].object = None
      /\ \A x \in Slot : x # s => ptr'[x] = ptr[x]
      /\ ptr[s].counter = None
  BY <1>1, <1>2 DEF copyConstruct, Nowhere, Inv, Settled
<1>7. None \notin Cell /\ counters \subseteq Cell
  BY NoneApart DEF Inv, TypeOK
<1>8. \A d : d # None => Holders(d)' = Holders(d)
  BY <1>4, <1>5, <1>6 DEF Holders
<1>9. \A x \in Slot : x # s => (Counted(x)' <=> Counted(x))
  BY <1>2, <1>6 DEF Counted
<1>10. Settled'
  BY <1>2, <1>5, <1>6, <1>9 DEF Inv, Settled
<1>11. Placed'
  <2>1. PlacedAt(n, s)'
    BY <1>2, <1>5, <1>6 DEF PlacedAt, Dooms
  <2>2. ASSUME NEW f \in Frames PROVE PlacedAt(f, f.ptr)'
    <3>1. PlacedAt(f, f.ptr) /\ f.ptr \in Slot /\ f.ptr # s
          /\ f.other \in Slot \cup {None} /\ f.other # s
      BY <1>2, FrameFields DEF Inv, Placed, Busy
    <3>2. PICK d : d = ptr[f.ptr].counter /\ d = ptr'[f.ptr].counter
      BY <3>1, <1>6
    <3>3. Dooms(f) => d \in counters
      <4>1. f.at = "destroy" => d \in counters
        BY <3>1, <3>2 DEF PlacedAt, Counted
      <4>2. f.at = "deleteCounter" => d \in counters
        BY <3>1, <3>2 DEF PlacedAt
      <4> QED BY <4>1, <4>2 DEF Dooms
    <3>4. Dooms(f) => Holders(d)' = {}
      BY <3>1, <3>2, <3>3, <1>7, <1>8 DEF PlacedAt
    <3>5. Dooms(f) => Holders(ptr[f.ptr].counter)' = {}
      BY <3>2, <3>4
    <3>6. ptr'[f.ptr] = ptr[f.ptr] /\ (f.other # None => ptr'[f.other] = ptr[f.other])
      BY <3>1, <1>6
    <3>7. f.at \in {"decrease", "destroy"} => Counted(f.ptr)'
      BY <3>1, <1>9 DEF PlacedAt
    <3> QED BY <3>1, <3>5, <3>6, <3>7, <1>2 DEF PlacedAt, Dooms
  <2> QED BY <2>1, <2>2, <1>5 DEF Placed
<1>12. Lone'
  <2>1. \A f \in Frames : ptr'[f.ptr] = ptr[f.ptr]
    BY <1>2, <1>6, FrameFields DEF Busy
  <2> QED BY <2>1, <1>5 DEF Inv, Lone, Dooms
<1>13. Sourced'
  <2>1. \A m : Kept(m) => Kept(m)'
    BY <1>2, <1>5, <1>6 DEF Kept, Locals
  <2>2. s \notin Members
    BY <1>2 DEF Locals
  <2> QED BY <2>1, <2>2, <1>2, <1>3, <1>5, FrameFields DEF Inv, Sourced
<1>14. Together'
  BY <1>2, <1>5 DEF Inv, Together
<1>15. Counts'
  BY <1>2, <1>7, <1>8 DEF Inv, Counts
<1>16. Owned'
  <2> SUFFICES ASSUME NEW d \in counters
               PROVE  Holders(d)' # {} \/ \E f \in Frames' : Dooms(f) /\ ptr'[f.ptr].counter = d
    BY <1>2 DEF Owned, Dooms
  <2>1. Holders(d) # {} \/ \E f \in Frames : Dooms(f) /\ ptr[f.ptr].counter = d
    BY DEF Inv, Owned
  <2>2. \A f \in Frames : ptr'[f.ptr] = ptr[f.ptr]
    BY <1>2, <1>6, FrameFields DEF Busy
  <2> QED BY <2>1, <2>2, <1>5, <1>7, <1>8
<1> QED BY <1>2, <1>5, <1>10, <1>11, <1>12, <1>13, <1>14, <1>15, <1>16 DEF Inv, Stacks

LEMMA assignKeeps ==
  ASSUME Inv, TypeOK', Exclusive, Pinned, NEW t \in Thread, NEW s \in Slot, NEW o \in Slot,
         assign(t, s, o)
  PROVE  Inv'
<1>1. Stacks /\ StackOK
  BY DEF Inv, TypeOK, Stacks, StackOK
<1>2. /\ s \in constructed /\ ~Busy(s) /\ \A f \in Frames : f.other # s
      /\ ~Pinning(s) /\ stack[t] = <<>> /\ Enter(t, "decrease", s, o)
      /\ o \in constructed /\ ~Busy(o) /\ o # s /\ o # None
      /\ UNCHANGED <<constructed, ptr, count, counters, objects, released, fault>>
  BY <1>1, MayDo, NoneApart DEF assign, heap, Idle
<1>3. s \in Members => Kept(s)
  BY <1>1, ReachedKept DEF assign, Kept
<1>4. o \in Members => \E p \in Locals \cap constructed :
                         p # s /\ ~Busy(p) /\ ptr[p].object # None /\ MemberOf[ptr[p].object] = o
  <2>1. Reached(o, {s})
    BY DEF assign
  <2> QED BY <2>1, <1>1, ReachedKept
<1> QED BY <1>2, <1>3, <1>4, BeginKeeps

LEMMA destructKeeps ==
  ASSUME Inv, TypeOK', NEW t \in Thread, NEW s \in Slot, destruct(t, s)
  PROVE  Inv'
<1>1. StackOK
  BY DEF Inv, TypeOK, StackOK
<1>2. /\ s \in constructed /\ ~Busy(s) /\ \A f \in Frames : f.other # s
      /\ ~Pinning(s) /\ stack[t] = <<>> /\ Enter(t, "decrease", s, None)
      /\ UNCHANGED <<constructed, ptr, count, counters, objects, released, fault>>
  BY <1>1, MayDo DEF destruct, heap, Idle
<1>3. \A c \in objects \cup released : s # MemberOf[c]
  BY NoneApart DEF destruct, Locals, Members, Inv, TypeOK
<1> QED BY <1>2, <1>3, BeginKeeps

LEMMA setDestructMethodKeeps ==
  ASSUME Inv, TypeOK', NEW t \in Thread, NEW s \in Slot, NEW method \in Methods,
         setDestructMethod(t, s, method)
  PROVE  Inv'
<1>1. Stacks /\ ptr \in [Slot -> Fields]
  BY DEF Inv, TypeOK, Stacks, StackOK
<1>2. /\ ptr' = [ptr EXCEPT ![s].method = method]
      /\ UNCHANGED <<constructed, count, counters, objects, released, stack, fault>>
  BY DEF setDestructMethod, heap
<1>3. \A x \in Slot : ptr'[x].counter = ptr[x].counter /\ ptr'[x].object = ptr[x].object
  BY <1>1, <1>2 DEF Fields
<1>4. /\ Stacks' /\ Frames' = Frames
      /\ \A x \in Slot : (Busy(x)' <=> Busy(x)) /\ (Between(x)' <=> Between(x))
  BY <1>1, <1>2, Standing
<1>5. (\A d : Holders(d)' = Holders(d)) /\ \A x \in Slot : Counted(x)' <=> Counted(x)
  BY <1>2, <1>3, <1>4 DEF Holders, Counted
<1>6. Settled'
  BY <1>2, <1>3, <1>4, <1>5 DEF Inv, Settled
<1>7. Placed'
  <2> SUFFICES ASSUME NEW f \in Frames PROVE PlacedAt(f, f.ptr)'
    BY <1>4 DEF Placed
  <2>1. PlacedAt(f, f.ptr) /\ f.ptr \in Slot /\ f.other \in Slot \cup {None}
    BY FrameFields DEF Inv, Placed
  <2>2. PICK d : d = ptr[f.ptr].counter /\ d = ptr'[f.ptr].counter
    BY <2>1, <1>3
  <2>3. Dooms(f) => Holders(ptr[f.ptr].counter)' = {}
    <3>1. Dooms(f) => Holders(d)' = {}
      BY <2>1, <2>2, <1>5 DEF PlacedAt
    <3> QED BY <3>1, <2>2
  <2>4. /\ ptr'[f.ptr].counter = ptr[f.ptr].counter /\ ptr'[f.ptr].object = ptr[f.ptr].object
        /\ f.other # None => /\ ptr'[f.other].counter = ptr[f.other].counter
                             /\ ptr'[f.other].object = ptr[f.other].object
    BY <2>1, <1>3
  <2> QED BY <2>1, <2>3, <2>4, <1>2, <1>5 DEF PlacedAt, Dooms
<1>8. Lone' /\ Sourced'
  <2>1. Lone'
    BY <1>3, <1>4, FrameFields DEF Inv, Lone, Dooms
  <2>2. \A m : Kept(m) => Kept(m)'
    BY <1>2, <1>3, <1>4 DEF Kept, Locals
  <2> QED BY <2>1, <2>2, <1>2, <1>4, FrameFields DEF Inv, Sourced
<1>9. Together' /\ Counts'
  BY <1>2, <1>4, <1>5 DEF Inv, Together, Counts
<1>10. Owned'
  <2> SUFFICES ASSUME NEW d \in counters
               PROVE  Holders(d)' # {} \/ \E f \in Frames : Dooms(f) /\ ptr'[f.ptr].counter = d
    BY <1>2, <1>4 DEF Owned, Dooms
  <2>1. Holders(d) # {} \/ \E f \in Frames : Dooms(f) /\ ptr[f.ptr].counter = d
    BY DEF Inv, Owned
  <2> QED BY <2>1, <1>3, <1>5, FrameFields
<1> QED BY <1>2, <1>4, <1>6, <1>7, <1>8, <1>9, <1>10 DEF Inv, Stacks

LEMMA disposeKeeps ==
  ASSUME Inv, TypeOK', NEW t \in Thread, NEW c \in Cell, dispose(t, c)
  PROVE  Inv'
<1>1. Stacks /\ StackOK
  BY DEF Inv, TypeOK, Stacks, StackOK
<1>2. /\ c \in released /\ released' = released \ {c} /\ stack[t] = <<>>
      /\ UNCHANGED <<constructed, ptr, count, counters, objects, fault>>
  BY DEF dispose, Idle
<1>3. CASE MemberOf[c] = None
  <2>1. stack' = stack
    BY <1>3 DEF dispose
  <2>2. /\ Stacks' /\ Frames' = Frames
        /\ \A x \in Slot : (Busy(x)' <=> Busy(x)) /\ (Between(x)' <=> Between(x))
    BY <2>1, <1>1, Standing
  <2>3. (\A d : Holders(d)' = Holders(d)) /\ \A x \in Slot : Counted(x)' <=> Counted(x)
    BY <2>2, <1>2 DEF Holders, Counted
  <2>4. Settled' /\ Lone' /\ Together' /\ Counts' /\ Owned'
    BY <2>2, <2>3, <1>2 DEF Inv, Settled, Lone, Together, Counts, Owned, Dooms
  <2>5. Placed'
    BY <2>2, <2>3, <1>2, FrameFields DEF Inv, Placed, PlacedAt, Dooms
  <2>6. Sourced'
    <3>1. \A m : Kept(m) => Kept(m)'
      BY <2>2, <1>2 DEF Kept, Locals
    <3> QED BY <3>1, <2>2, <1>2, FrameFields DEF Inv, Sourced
  <2> QED BY <2>2, <2>4, <2>5, <2>6, <1>2 DEF Inv, Stacks
<1>4. CASE MemberOf[c] # None
  <2>1. PICK m : m = MemberOf[c]
    OBVIOUS
  <2>2. /\ m \in Slot /\ m \in Members /\ m \in constructed /\ Unused(m)
        /\ Enter(t, "decrease", m, None)
    BY <2>1, <1>2, <1>4, SmartPtrAssumption DEF dispose, Members, Inv, Together
  <2>3. ~Busy(m) /\ \A f \in Frames : f.other # m
    BY <2>2, <1>1, MayDo
  <2>4. \A d \in objects \cup released' : m # MemberOf[d]
    BY <2>1, <1>2, <1>4, SmartPtrAssumption DEF Inv, Together, TypeOK
  <2> QED BY <2>2, <2>3, <2>4, <1>2, BeginKeeps
<1> QED BY <1>3, <1>4

-----------------------------------------------------------------------------
(* Types.  What the calls and steps put into the stacks are frames.        *)
LEMMA PtrTyped ==
  ASSUME TypeOK, NEW s \in Slot
  PROVE  /\ ptr[s].counter \in Cell \cup {None} /\ ptr[s].object \in Cell \cup {None}
         /\ ptr[s].method \in {"delete", "none"} /\ ptr[s] \in Fields
BY DEF TypeOK, Fields

LEMMA EnterTyped ==
  ASSUME StackOK, NEW t \in Thread, NEW at \in Labels, NEW s \in Slot,
         NEW o \in Slot \cup {None}, Enter(t, at, s, o)
  PROVE  StackOK'
<1>1. [at |-> at, ptr |-> s, other |-> o] \in Frame
  BY DEF Frame
<1>2. <<[at |-> at, ptr |-> s, other |-> o]>> \in Seq(Frame)
  BY <1>1
<1> QED BY <1>2 DEF Enter, StackOK

LEMMA MovesTyped ==
  ASSUME StackOK, NEW t \in Thread, stack[t] # <<>>, NEW label \in Labels,
         Goto(t, label) \/ Moves(t, label)
  PROVE  StackOK'
<1>1. PICK g : g = [Head(stack[t]) EXCEPT !.at = label]
  OBVIOUS
<1>2. stack[t] \in Seq(Frame) /\ g \in Frame
  BY <1>1, TopFrame DEF StackOK, Frame
<1>3. <<g>> \o Tail(stack[t]) \in Seq(Frame)
  BY <1>2
<1>4. Moves(t, label)
  BY GotoMoves
<1> QED BY <1>1, <1>3, <1>4 DEF Moves, StackOK

LEMMA ReturnTyped ==
  ASSUME StackOK, NEW t \in Thread, stack[t] # <<>>, Return(t)
  PROVE  StackOK'
<1>1. Tail(stack[t]) \in Seq(Frame)
  BY DEF StackOK
<1> QED BY <1>1 DEF Return, StackOK

LEMMA CallTyped ==
  ASSUME TypeOK, NEW t \in Thread, Call(t)
  PROVE  TypeOK'
<1>1. StackOK
  BY DEF TypeOK, StackOK
<1>2. "lock" \in Labels /\ "decrease" \in Labels
  BY DEF Labels
<1>3. Locals \subseteq Slot /\ Free \subseteq Cell /\ Nowhere \in Fields /\ Methods \subseteq {"delete", "none"}
  BY SmartPtrAssumption DEF Locals, Free, Nowhere, Fields
<1>4. ASSUME NEW s \in Slot, constructDefault(t, s) PROVE TypeOK'
  <2>1. PICK c \in Free : /\ ptr' = [ptr EXCEPT ![s] = [Nowhere EXCEPT !.counter = c]]
                          /\ count' = [count EXCEPT ![c] = 1] /\ counters' = counters \cup {c}
    BY <1>4 DEF constructDefault
  <2>2. [Nowhere EXCEPT !.counter = c] \in Fields
    BY <1>3 DEF Fields
  <2> QED BY <2>1, <2>2, <1>3, <1>4 DEF constructDefault, TypeOK
<1>5. ASSUME NEW s \in Slot, destruct(t, s) PROVE TypeOK'
  <2>1. StackOK'
    BY <1>1, <1>2, <1>5, EnterTyped DEF destruct
  <2> QED BY <2>1, <1>5 DEF destruct, heap, TypeOK, StackOK
<1>6. ASSUME NEW s \in Slot, NEW method \in Methods, constructObject(t, s, method) PROVE TypeOK'
  <2>1. PICK c \in Free :
        LET m == MemberOf[c]
            new == [counter |-> c, object |-> c, method |-> method]
        IN  /\ objects' = objects \cup {c}
            /\ IF m = None
               THEN /\ ptr' = [ptr EXCEPT ![s] = new]
                    /\ count' = [count EXCEPT ![c] = 1]
                    /\ counters' = counters \cup {c}
                    /\ constructed' = constructed \cup {s}
               ELSE \E d \in Free \ {c} :
                    /\ ptr' = [ptr EXCEPT ![s] = new,
                                          ![m] = [Nowhere EXCEPT !.counter = d]]
                    /\ count' = [count EXCEPT ![c] = 1, ![d] = 1]
                    /\ counters' = counters \cup {c, d}
                    /\ constructed' = constructed \cup {s, m}
    BY <1>6 DEF constructObject
  <2>2. PICK new : new = [counter |-> c, object |-> c, method |-> method] /\ new \in Fields
    <3>1. [counter |-> c, object |-> c, method |-> method] \in Fields
      BY <1>3 DEF Fields
    <3> QED BY <3>1
  <2>3. objects' \subseteq Cell /\ UNCHANGED <<released, lock, stack, fault>>
    BY <2>1, <1>3, <1>6 DEF constructObject, TypeOK
  <2>4. CASE MemberOf[c] = None
    BY <2>1, <2>2, <2>3, <2>4, <1>3 DEF TypeOK
  <2>5. CASE MemberOf[c] # None
    <3>1. PICK d \in Free : /\ ptr' = [ptr EXCEPT ![s] = new,
                                             ![MemberOf[c]] = [Nowhere EXCEPT !.counter = d]]
                            /\ count' = [count EXCEPT ![c] = 1, ![d] = 1]
                            /\ counters' = counters \cup {c, d}
                            /\ constructed' = constructed \cup {s, MemberOf[c]}
      BY <2>1, <2>2, <2>5
    <3>2. [Nowhere EXCEPT !.counter = d] \in Fields /\ MemberOf[c] \in Slot
      BY <2>5, <1>3, SmartPtrAssumption DEF Fields
    <3> QED BY <2>2, <2>3, <3>1, <3>2, <1>3 DEF TypeOK
  <2> QED BY <2>4, <2>5
<1>7. ASSUME NEW s \in Slot, NEW method \in Methods, setDestructMethod(t, s, method) PROVE TypeOK'
  <2>1. [ptr[s] EXCEPT !.method = method] \in Fields
    BY <1>3, PtrTyped DEF Fields
  <2>2. ptr' = [ptr EXCEPT ![s] = [ptr[s] EXCEPT !.method = method]]
    BY <1>7 DEF setDestructMethod, TypeOK
  <2> QED BY <2>1, <2>2, <1>7 DEF setDestructMethod, heap, TypeOK
<1>8. ASSUME NEW s \in Slot, NEW o \in Slot, copyConstruct(t, s, o) PROVE TypeOK'
  <2>1. StackOK'
    BY <1>1, <1>2, <1>8, EnterTyped DEF copyConstruct
  <2> QED BY <2>1, <1>3, <1>8 DEF copyConstruct, heap, TypeOK, StackOK
<1>9. ASSUME NEW s \in Slot, NEW o \in Slot, assign(t, s, o) PROVE TypeOK'
  <2>1. StackOK'
    BY <1>1, <1>2, <1>9, EnterTyped DEF assign
  <2> QED BY <2>1, <1>9 DEF assign, heap, TypeOK, StackOK
<1>10. ASSUME NEW c \in Cell, dispose(t, c) PROVE TypeOK'
  <2>1. StackOK'
    <3>1. CASE MemberOf[c] = None
      BY <3>1, <1>1, <1>10 DEF dispose, StackOK
    <3>2. CASE MemberOf[c] # None
      <4>1. MemberOf[c] \in Slot
        BY <3>2, SmartPtrAssumption
      <4> QED BY <3>2, <4>1, <1>1, <1>2, <1>10, EnterTyped DEF dispose
    <3> QED BY <3>1, <3>2
  <2> QED BY <2>1, <1>10 DEF dispose, TypeOK, StackOK
<1> QED BY <1>4, <1>5, <1>6, <1>7, <1>8, <1>9, <1>10 DEF Call

LEMMA StepTyped ==
  ASSUME TypeOK, NEW t \in Thread, Step(t)
  PROVE  TypeOK'
<1>1. StackOK
  BY DEF TypeOK, StackOK
<1>2. stack[t] # <<>>
  BY DEF Step, At, Decrease, Destroy, DeleteCounter, Clear, Lock, TakeCounter, TakeObject, Increase
<1>3. PICK s, o : s = Self(t) /\ o = Other(t) /\ s \in Slot /\ o \in Slot \cup {None}
  BY <1>1, <1>2, TopFrame
<1>4. ptr[s].counter \in Cell \cup {None} /\ ptr[s].object \in Cell \cup {None} /\ ptr[s] \in Fields
  BY <1>3, PtrTyped
<1>5. \A label \in Labels : Goto(t, label) \/ Moves(t, label) => StackOK'
  BY <1>1, <1>2, MovesTyped
<1>6. CASE Decrease(t)
  <2>1. PICK c : c = ptr[s].counter
    OBVIOUS
  <2>2. CASE c \notin counters
    BY <2>1, <2>2, <1>3, <1>6 DEF Decrease, Crash, heap, TypeOK, Faults
  <2>3. CASE c \in counters
    <3>1. /\ count' = [count EXCEPT ![c] = @ - 1] /\ Goto(t, AfterDecrease(count'[c]))
          /\ UNCHANGED <<constructed, ptr, counters, objects, released, lock, fault>>
      BY <2>1, <2>3, <1>3, <1>6 DEF Decrease
    <3>2. AfterDecrease(count'[c]) \in Labels
      BY DEF AfterDecrease, Labels
    <3>3. StackOK'
      BY <3>1, <3>2, <1>5
    <3>4. count' \in [Cell -> Int]
      BY <2>3, <3>1 DEF TypeOK
    <3> QED BY <3>1, <3>3, <3>4 DEF TypeOK, StackOK
  <2> QED BY <2>2, <2>3
<1>7. CASE Destroy(t)
  <2>1. "deleteCounter" \in Labels /\ "decrease" \in Labels
    BY DEF Labels
  <2>2. PICK rest, d : /\ rest = <<[Head(stack[t]) EXCEPT !.at = "deleteCounter"]>> \o Tail(stack[t])
                       /\ d = ptr[s].object
    OBVIOUS
  <2>3. rest \in Seq(Frame)
    <3>1. [Head(stack[t]) EXCEPT !.at = "deleteCounter"] \in Frame /\ stack[t] \in Seq(Frame)
      BY <2>1, <1>1, <1>2, TopFrame DEF Frame, StackOK
    <3> QED BY <2>2, <3>1, <1>2
  <2>4. UNCHANGED <<constructed, ptr, count, counters, lock>>
    BY <1>7 DEF Destroy
  <2>5. /\ objects' \subseteq Cell /\ released' \subseteq Cell /\ fault' \in Faults
        /\ \/ stack' = stack
           \/ stack' = [stack EXCEPT ![t] = rest]
           \/ /\ MemberOf[d] # None /\ d \in Cell
              /\ stack' = [stack EXCEPT ![t] =
                   <<[at |-> "decrease", ptr |-> MemberOf[d], other |-> None]>> \o rest]
    <3>1. CASE d = None
      BY <3>1, <2>2, <1>3, <1>7 DEF Destroy, TypeOK
    <3>2. CASE d # None /\ ptr[s].method = "none"
      BY <3>2, <2>2, <1>3, <1>4, <1>7 DEF Destroy, TypeOK
    <3>3. CASE d # None /\ ptr[s].method # "none" /\ d \notin objects
      <4>1. fault' = "second delete of an object" /\ UNCHANGED <<objects, released, stack>>
        BY <3>3, <2>2, <1>3, <1>7 DEF Destroy
      <4> QED BY <4>1 DEF TypeOK, Faults
    <3>4. CASE d # None /\ ptr[s].method # "none" /\ d \in objects
      <4>1. /\ objects' = objects \ {d} /\ UNCHANGED <<released, fault>>
            /\ stack' = [stack EXCEPT ![t] =
                 IF MemberOf[d] = None THEN rest
                 ELSE <<[at |-> "decrease", ptr |-> MemberOf[d], other |-> None]>> \o rest]
        BY <3>4, <2>2, <1>3, <1>7 DEF Destroy
      <4>2. CASE MemberOf[d] = None
        BY <4>1, <4>2, <3>4 DEF TypeOK
      <4>3. CASE MemberOf[d] # None
        BY <4>1, <4>3, <3>4 DEF TypeOK
      <4> QED BY <4>2, <4>3
    <3> QED BY <3>1, <3>2, <3>3, <3>4
  <2>6. StackOK'
    <3>1. CASE stack' = stack
      BY <3>1, <1>1 DEF StackOK
    <3>2. CASE stack' = [stack EXCEPT ![t] = rest]
      BY <3>2, <2>3, <1>1 DEF StackOK
    <3>3. CASE /\ MemberOf[d] # None /\ d \in Cell
               /\ stack' = [stack EXCEPT ![t] =
                    <<[at |-> "decrease", ptr |-> MemberOf[d], other |-> None]>> \o rest]
      <4>1. [at |-> "decrease", ptr |-> MemberOf[d], other |-> None] \in Frame
        BY <3>3, <2>1, SmartPtrAssumption DEF Frame
      <4>2. <<[at |-> "decrease", ptr |-> MemberOf[d], other |-> None]>> \o rest \in Seq(Frame)
        BY <4>1, <2>3
      <4> QED BY <3>3, <4>2, <1>1 DEF StackOK
    <3> QED BY <2>5, <3>1, <3>2, <3>3
  <2> QED BY <2>4, <2>5, <2>6 DEF TypeOK, StackOK
<1>8. CASE DeleteCounter(t)
  <2>1. "clear" \in Labels
    BY DEF Labels
  <2>2. CASE ptr[s].counter \notin counters
    BY <2>2, <1>3, <1>8 DEF DeleteCounter, Crash, heap, TypeOK, Faults
  <2>3. CASE ptr[s].counter \in counters
    <3>1. /\ counters' = counters \ {ptr[s].counter} /\ Goto(t, "clear")
          /\ UNCHANGED <<constructed, ptr, count, objects, released, lock, fault>>
      BY <2>3, <1>3, <1>8 DEF DeleteCounter
    <3>2. StackOK'
      BY <2>1, <3>1, <1>5
    <3> QED BY <3>1, <3>2 DEF TypeOK, StackOK
  <2> QED BY <2>2, <2>3
<1>9. CASE Clear(t)
  <2>1. "lock" \in Labels /\ Cleared(s) \in Fields
    BY <1>4 DEF Labels, Cleared, Fields
  <2>2. /\ ptr' = [ptr EXCEPT ![s] = Cleared(s)]
        /\ constructed' \subseteq constructed /\ (Return(t) \/ Goto(t, "lock"))
        /\ UNCHANGED <<count, counters, objects, released, lock, fault>>
    BY <1>3, <1>9 DEF Clear, heap
  <2>3. StackOK'
    BY <2>1, <2>2, <1>1, <1>2, <1>5, ReturnTyped
  <2> QED BY <2>1, <2>2, <2>3 DEF TypeOK, StackOK
<1>10. CASE Lock(t)
  <2>1. "takeCounter" \in Labels
    BY DEF Labels
  <2>2. StackOK'
    BY <2>1, <1>5, <1>10 DEF Lock
  <2> QED BY <2>2, <1>10 DEF Lock, heap, TypeOK, StackOK
<1>11. CASE TakeCounter(t)
  <2>1. "takeObject" \in Labels
    BY DEF Labels
  <2>2. CASE o \notin constructed
    BY <2>2, <1>3, <1>11 DEF TakeCounter, Crash, heap, TypeOK, Faults
  <2>3. CASE o \in constructed
    <3>1. /\ ptr' = [ptr EXCEPT ![s].counter = ptr[o].counter, ![s].method = ptr[o].method]
          /\ Goto(t, "takeObject") /\ UNCHANGED <<constructed, heap, lock, fault>>
      BY <2>3, <1>3, <1>11 DEF TakeCounter
    <3>2. o \in Slot
      BY <2>3 DEF TypeOK
    <3>3. ptr' \in [Slot -> Fields]
      <4>1. ptr[o].counter \in Cell \cup {None} /\ ptr[o].method \in {"delete", "none"}
        BY <3>2, PtrTyped
      <4>2. PICK new : new = [[ptr[s] EXCEPT !.counter = ptr[o].counter]
                                EXCEPT !.method = ptr[o].method]
        OBVIOUS
      <4>3. new \in Fields
        BY <4>1, <4>2, <1>4 DEF Fields
      <4>4. ptr' = [ptr EXCEPT ![s] = new]
        BY <3>1, <4>2, <1>3 DEF TypeOK
      <4> QED BY <4>3, <4>4 DEF TypeOK
    <3>4. StackOK'
      BY <2>1, <3>1, <1>5
    <3> QED BY <3>1, <3>3, <3>4 DEF TypeOK, StackOK, heap
  <2> QED BY <2>2, <2>3
<1>12. CASE TakeObject(t)
  <2>1. "increase" \in Labels
    BY DEF Labels
  <2>2. CASE o \notin constructed
    BY <2>2, <1>3, <1>12 DEF TakeObject, Crash, heap, TypeOK, Faults
  <2>3. CASE o \in constructed
    <3>1. /\ ptr' = [ptr EXCEPT ![s].object = ptr[o].object]
          /\ Goto(t, "increase") /\ UNCHANGED <<constructed, heap, lock, fault>>
      BY <2>3, <1>3, <1>12 DEF TakeObject
    <3>2. o \in Slot
      BY <2>3 DEF TypeOK
    <3>3. ptr' \in [Slot -> Fields]
      <4>1. ptr[o].object \in Cell \cup {None}
        BY <3>2, PtrTyped
      <4> QED BY <3>1, <4>1, <1>3, ZenonT(60) DEF TypeOK, Fields
    <3>4. StackOK'
      BY <2>1, <3>1, <1>5
    <3> QED BY <3>1, <3>3, <3>4 DEF TypeOK, StackOK, heap
  <2> QED BY <2>2, <2>3
<1>13. CASE Increase(t)
  <2>1. CASE ptr[s].counter \notin counters
    BY <2>1, <1>3, <1>13 DEF Increase, Crash, heap, TypeOK, Faults
  <2>2. CASE ptr[s].counter \in counters
    <3>1. /\ count' = Increased(ptr[s].counter) /\ lock' = None
          /\ constructed' = constructed \cup {s} /\ Return(t)
          /\ UNCHANGED <<ptr, counters, objects, released, fault>>
      BY <2>2, <1>3, <1>13 DEF Increase, Unlocked
    <3>2. StackOK'
      BY <3>1, <1>1, <1>2, ReturnTyped
    <3> QED BY <2>2, <3>1, <3>2, <1>3 DEF TypeOK, StackOK, Increased
  <2> QED BY <2>1, <2>2
<1> QED BY <1>6, <1>7, <1>8, <1>9, <1>10, <1>11, <1>12, <1>13 DEF Step

LEMMA NextTyped ==
  TypeOK /\ [Next]_vars => TypeOK'
<1> SUFFICES ASSUME TypeOK, [Next]_vars PROVE TypeOK'
  OBVIOUS
<1>1. CASE Next
  BY <1>1, CallTyped, StepTyped DEF Next
<1>2. CASE UNCHANGED vars
  BY <1>2 DEF vars, TypeOK
<1> QED BY <1>1, <1>2
-----------------------------------------------------------------------------
(* Whatever the callers do, what the program keeps has its type.           *)
THEOREM SpecTypeOK == Spec => []TypeOK
<1>1. Init => TypeOK
  BY SmartPtrAssumption DEF Init, TypeOK, Nowhere, Fields, Faults
<1> QED BY <1>1, NextTyped, PTL DEF Spec

LEMMA InitKeeps == Init => Inv
<1> SUFFICES ASSUME Init PROVE Inv
  OBVIOUS
<1>1. TypeOK
  BY SmartPtrAssumption DEF Init, TypeOK, Nowhere, Fields, Faults
<1>2. Frames = {} /\ Apart
  BY DEF Init, Frames, Apart
<1> QED BY <1>1, <1>2 DEF Init, Inv, Settled, Placed, Lone, Sourced, Together, Counts, Owned,
                          Nowhere, Busy

LEMMA CallKeeps ==
  ASSUME Inv, TypeOK', Exclusive, Pinned, NEW t \in Thread, Call(t)
  PROVE  Inv'
<1>1. CASE \E s \in Slot : constructDefault(t, s) \/ destruct(t, s)
  BY <1>1, constructDefaultKeeps, destructKeeps
<1>2. CASE \E s \in Slot, m \in Methods : constructObject(t, s, m) \/ setDestructMethod(t, s, m)
  BY <1>2, constructObjectKeeps, setDestructMethodKeeps
<1>3. CASE \E s, other \in Slot : copyConstruct(t, s, other) \/ assign(t, s, other)
  BY <1>3, copyConstructKeeps, assignKeeps
<1>4. CASE \E c \in Cell : dispose(t, c)
  BY <1>4, disposeKeeps
<1> QED BY <1>1, <1>2, <1>3, <1>4 DEF Call

LEMMA StutterKeeps ==
  ASSUME Inv, UNCHANGED vars
  PROVE  Inv'
<1>1. Stacks
  BY DEF Inv, TypeOK, Stacks, StackOK
<1>2. /\ Stacks' /\ Frames' = Frames
      /\ \A x \in Slot : (Busy(x)' <=> Busy(x)) /\ (Between(x)' <=> Between(x))
  BY <1>1, Standing DEF vars
<1>3. (\A d : Holders(d)' = Holders(d)) /\ \A x \in Slot : Counted(x)' <=> Counted(x)
  BY <1>2 DEF Holders, Counted, vars
<1>4. Settled' /\ Lone' /\ Together' /\ Counts' /\ Owned'
  BY <1>2, <1>3 DEF Inv, Settled, Lone, Together, Counts, Owned, Dooms, vars
<1>5. Placed'
  BY <1>2, <1>3, FrameFields DEF Inv, Placed, PlacedAt, Dooms, vars
<1>6. Sourced'
  <2>1. \A m : Kept(m) => Kept(m)'
    BY <1>2 DEF Kept, Locals, vars
  <2> QED BY <2>1, <1>2, FrameFields DEF Inv, Sourced, vars
<1>7. TypeOK' /\ fault' = "none"
  BY DEF Inv, TypeOK, vars
<1> QED BY <1>2, <1>4, <1>5, <1>6, <1>7 DEF Inv, Stacks

LEMMA NextKeeps ==
  ASSUME Exclusive, Pinned, Inv, [Next]_vars
  PROVE  Inv'
<1>1. TypeOK'
  BY NextTyped DEF Inv
<1>2. CASE Next
  BY <1>1, <1>2, CallKeeps, StepKeeps DEF Next
<1>3. CASE UNCHANGED vars
  BY <1>3, StutterKeeps
<1> QED BY <1>2, <1>3

(* While callers keep copies of a variable and assignments to it apart and *)
(* hold the object whose member they copy, the invariant holds.            *)
THEOREM SharesKept ==
  ASSUME Exclusive, Pinned
  PROVE  Spec => []Inv
<1>1. Inv /\ [Next]_vars => Inv'
  BY NextKeeps
<1> QED BY <1>1, InitKeeps, PTL DEF Spec

(* No counter is touched or deleted once it is gone, no object is deleted  *)
(* twice and no destroyed variable is read, however the threads interleave.*)
THEOREM NoFaultHolds ==
  ASSUME Exclusive, Pinned
  PROVE  Spec => []NoFault
<1>1. Inv => NoFault
  BY DEF Inv, NoFault
<1> QED BY <1>1, SharesKept, PTL

(* Every counter is the number of the smart pointers that own a share.     *)
THEOREM CountIsReferencesHolds ==
  ASSUME Exclusive, Pinned
  PROVE  Spec => []CountIsReferences
<1>1. Inv => CountIsReferences
  BY DEF Inv, Counts, CountIsReferences
<1> QED BY <1>1, SharesKept, PTL

(* What a smart pointer that owns a share points at has not been deleted.  *)
THEOREM HeldObjectLivesHolds ==
  ASSUME Exclusive, Pinned
  PROVE  Spec => []HeldObjectLives
<1>1. ASSUME Inv, NEW s \in constructed, ptr[s].object # None, ~Between(s)
      PROVE  ptr[s].object \in objects \cup released
  <2>1. s \in Slot /\ StackOK
    BY <1>1 DEF Inv, TypeOK, StackOK
  <2>2. Counted(s)
    <3>1. CASE ~Busy(s)
      BY <1>1, <2>1, <3>1 DEF Inv, Settled
    <3>2. CASE Busy(s)
      <4>1. PICK f \in Frames : f.ptr = s
        BY <3>2 DEF Busy
      <4>2. f.at \notin Sharing /\ f.at \in Labels /\ PlacedAt(f, s)
        BY <1>1, <2>1, <4>1, ByFrames, FrameFields DEF Inv, Placed
      <4>3. f.at = "decrease"
        BY <1>1, <4>2 DEF PlacedAt, Labels, Sharing
      <4> QED BY <4>2, <4>3 DEF PlacedAt
    <3> QED BY <3>1, <3>2
  <2> QED BY <1>1, <2>2 DEF Counted
<1>2. Inv => HeldObjectLives
  BY <1>1 DEF HeldObjectLives
<1> QED BY <1>2, SharesKept, PTL

(* When no call is in progress, some smart pointer holds every counter and *)
(* every object that is allocated: the last to go deleted them.            *)
THEOREM NothingLeaksHolds ==
  ASSUME Exclusive, Pinned
  PROVE  Spec => []NothingLeaks
<1>1. ASSUME Inv, \A t \in Thread : stack[t] = <<>>
      PROVE  /\ counters = {ptr[s].counter : s \in constructed}
             /\ objects \subseteq {ptr[s].object : s \in constructed}
  <2>1. Frames = {}
    BY <1>1 DEF Frames
  <2>2. constructed \subseteq Slot /\ None \notin counters
    BY <1>1, NoneApart DEF Inv, TypeOK
  <2>3. \A s \in constructed : Counted(s)
    BY <1>1, <2>1, <2>2 DEF Inv, Settled, Busy
  <2>4. ASSUME NEW c \in counters PROVE \E s \in constructed : ptr[s].counter = c
    <3>1. PICK s \in Slot : ptr[s].counter = c
      BY <1>1, <2>1, <2>4 DEF Inv, Owned, Holders
    <3> QED BY <1>1, <2>1, <2>2, <3>1 DEF Inv, Settled, Busy
  <2>5. counters = {ptr[s].counter : s \in constructed}
    BY <2>3, <2>4 DEF Counted
  <2>6. ASSUME NEW c \in objects PROVE c \in {ptr[s].object : s \in constructed}
    <3>1. PICK s \in constructed : ptr[s].counter = c
      BY <1>1, <2>4, <2>6 DEF Inv, Together
    <3> QED BY <2>3, <2>6, <3>1 DEF Counted
  <2> QED BY <2>5, <2>6
<1>2. Inv => NothingLeaks
  BY <1>1 DEF NothingLeaks
<1> QED BY <1>2, SharesKept, PTL
=============================================================================
