----------------------------- MODULE TraceProofs -----------------------------
(***************************************************************************)
(* Proofs about module Trace, for every module tree, every set of          *)
(* addresses and every forward pass.                                       *)
(*                                                                         *)
(* What is drawn happened (IInv): what the tracer believes of a tensor is  *)
(* among what is true of it.  What happened is drawn (Traced): where the   *)
(* data of a tensor is from leads, over the links seen so far, to what the *)
(* tracer believes of it; and each of these links is drawn, level by level *)
(* through the containers between its ends.                                *)
(***************************************************************************)
EXTENDS Trace, FiniteSetTheorems, SequenceTheorems, WellFoundedInduction, TLAPS

-----------------------------------------------------------------------------
(* Fully qualified names                                                   *)

\* The names fqns are made of.
Piece == UNION {Range(m) : m \in Modules}

LEMMA Paths ==
    ASSUME NEW m \in Fqn
    PROVE  m \in Seq(Piece) /\ Len(m) \in Nat
<1>1. CASE m = Root
  BY <1>1, EmptySeq DEF Root
<1>2. CASE m \in Modules
  <2>1. m \in Seq(Range(m)) /\ Range(m) \subseteq Piece
    BY <1>2, TraceAssumption DEF Piece
  <2> QED BY <2>1, SeqMonotonic, LenProperties
<1> QED BY <1>1, <1>2 DEF Fqn

\* Two paths are equal when they agree name by name.
LEMMA SamePath ==
    ASSUME NEW S, NEW s \in Seq(S), NEW t \in Seq(S), Len(s) = Len(t),
           \A k \in 1..Len(s) : s[k] = t[k]
    PROVE  s = t
  BY SeqEqual

LEMMA Cut ==
    ASSUME NEW S, NEW s \in Seq(S), NEW i \in 0..Len(s)
    PROVE  /\ SubSeq(s, 1, i) \in Seq(S) /\ Len(SubSeq(s, 1, i)) = i
           /\ \A k \in 1..i : SubSeq(s, 1, i)[k] = s[k]
<1>1. Len(s) \in Nat
  BY LenProperties
<1>2. i \in Int /\ 1 \in Int /\ i >= 0
  BY <1>1
<1>3. \A k \in 1..i : s[k] \in S
  BY <1>1, ElementOfSeq
<1>4. /\ SubSeq(s, 1, i) \in Seq(S)
      /\ Len(SubSeq(s, 1, i)) = IF 1 <= i THEN i - 1 + 1 ELSE 0
      /\ \A k \in 1..(i - 1 + 1) : SubSeq(s, 1, i)[k] = s[1 + k - 1]
  BY <1>2, <1>3, SubSeqProperties
<1> QED BY <1>2, <1>4

LEMMA PrefixIs ==
    ASSUME NEW S, NEW s \in Seq(S), NEW t \in Seq(S)
    PROVE  IsPrefix(s, t) <=> Len(s) <= Len(t) /\ \A k \in 1..Len(s) : s[k] = t[k]
<1>1. Len(s) \in Nat /\ Len(t) \in Nat
  BY LenProperties
<1>2. SubSeq(s, 1, Len(s)) = s
  BY SubSeqFull
<1>3. CASE Len(s) <= Len(t)
  <2>1. /\ SubSeq(t, 1, Len(s)) \in Seq(S) /\ Len(SubSeq(t, 1, Len(s))) = Len(s)
        /\ \A k \in 1..Len(s) : SubSeq(t, 1, Len(s))[k] = t[k]
    BY <1>1, <1>3, Cut
  <2>2. s = SubSeq(t, 1, Len(s)) <=> \A k \in 1..Len(s) : s[k] = t[k]
    BY <2>1, SamePath
  <2> QED BY <1>2, <1>3, <2>2 DEF IsPrefix
<1>4. CASE ~(Len(s) <= Len(t))
  BY <1>4 DEF IsPrefix
<1> QED BY <1>3, <1>4

LEMMA FrontOfCut ==
    ASSUME NEW S, NEW s \in Seq(S), NEW i \in 0..(Len(s) - 1)
    PROVE  SubSeq(s, 1, i + 1) # <<>> /\ Front(SubSeq(s, 1, i + 1)) = SubSeq(s, 1, i)
<1> DEFINE t == SubSeq(s, 1, i + 1)
<1>1. Len(s) \in Nat /\ i \in 0..Len(s) /\ i + 1 \in 0..Len(s) /\ i \in Nat
  BY LenProperties
<1>2. t \in Seq(S) /\ Len(t) = i + 1 /\ \A k \in 1..(i + 1) : t[k] = s[k]
  BY <1>1, Cut
<1>3. /\ SubSeq(s, 1, i) \in Seq(S) /\ Len(SubSeq(s, 1, i)) = i
      /\ \A k \in 1..i : SubSeq(s, 1, i)[k] = s[k]
  BY <1>1, Cut
<1> HIDE DEF t
<1>4. /\ SubSeq(t, 1, i) \in Seq(S) /\ Len(SubSeq(t, 1, i)) = i
      /\ \A k \in 1..i : SubSeq(t, 1, i)[k] = t[k]
  BY <1>1, <1>2, Cut
<1>5. \A k \in 1..i : SubSeq(t, 1, i)[k] = SubSeq(s, 1, i)[k]
  BY <1>1, <1>2, <1>3, <1>4
<1>6. SubSeq(t, 1, i) = SubSeq(s, 1, i)
  BY <1>3, <1>4, <1>5, SamePath
<1>7. Front(t) = SubSeq(t, 1, i)
  BY <1>1, <1>2 DEF Front
<1>8. t # <<>>
  BY <1>1, <1>2, EmptySeq
<1> QED BY <1>6, <1>7, <1>8 DEF t

LEMMA Least ==
    ASSUME NEW S \in SUBSET Nat, S # {}
    PROVE  \E x \in S : \A y \in S : x <= y
<1>1. PICK x \in S : \A y \in S : ~ (<<y, x>> \in OpToRel(<, Nat))
  BY WFMin, NatLessThanWellFounded, Zenon
<1>2. \A y \in S : ~(y < x)
  BY <1>1, Zenon DEF OpToRel
<1> QED BY <1>2

LEMMA CutIsPrefix ==
    ASSUME NEW S, NEW s \in Seq(S), NEW i \in 0..Len(s)
    PROVE  IsPrefix(SubSeq(s, 1, i), s)
<1> DEFINE t == SubSeq(s, 1, i)
<1>1. t \in Seq(S) /\ Len(t) = i /\ \A k \in 1..i : t[k] = s[k]
  BY Cut
<1> HIDE DEF t
<1>2. Len(t) <= Len(s)
  BY <1>1, LenProperties
<1> QED BY <1>1, <1>2, PrefixIs DEF t

\* Every ancestor of a module is one: named_modules lists the parents too.
LEMMA CutIsFqn ==
    ASSUME NEW m \in Fqn, NEW i \in 0..Len(m)
    PROVE  SubSeq(m, 1, i) \in Fqn
<1> DEFINE Missing == {j \in 0..Len(m) : SubSeq(m, 1, Len(m) - j) \notin Fqn}
<1>1. m \in Seq(Piece) /\ Len(m) \in Nat
  BY Paths
<1>2. CASE Missing = {}
  <2>1. Len(m) - i \in 0..Len(m) /\ Len(m) - (Len(m) - i) = i
    BY <1>1
  <2> QED BY <1>2, <2>1
<1>3. CASE Missing # {}
  <2>1. Missing \in SUBSET Nat
    BY <1>1
  <2>2. PICK j \in Missing : \A k \in Missing : j <= k
    BY <1>3, <2>1, Least
  <2>3. j # 0
    <3>1. SubSeq(m, 1, Len(m)) = m /\ Len(m) - 0 = Len(m)
      BY <1>1, SubSeqFull
    <3>2. 0 \notin Missing
      BY <3>1
    <3> QED BY <2>2, <3>2
  <2>4. j \in 1..Len(m) /\ j - 1 \in 0..Len(m) /\ j - 1 \notin Missing
    BY <1>1, <2>2, <2>3
  <2> DEFINE n == Len(m) - j
  <2>5. n \in 0..(Len(m) - 1) /\ Len(m) - (j - 1) = n + 1
    BY <1>1, <2>4
  <2>6. SubSeq(m, 1, n + 1) \in Fqn
    BY <2>4, <2>5
  <2>7. SubSeq(m, 1, n + 1) # <<>> /\ Front(SubSeq(m, 1, n + 1)) = SubSeq(m, 1, n)
    BY <1>1, <2>5, FrontOfCut
  <2>8. SubSeq(m, 1, n) \in Fqn
    BY <2>6, <2>7, TraceAssumption DEF Fqn, Root
  <2> QED BY <2>2, <2>8
<1> QED BY <1>2, <1>3

\* A step of a chain is one level, between the two ends.
LEMMA Chains ==
    ASSUME NEW a \in Fqn, NEW d \in Fqn, NEW p \in ChainPairs(a, d)
    PROVE  /\ p[1] \in Fqn /\ p[2] \in Fqn /\ p = <<p[1], p[2]>>
           /\ p[2] # Root /\ Front(p[2]) = p[1]
           /\ IsPrefix(a, p[1]) /\ IsPrefix(p[2], d) /\ IsPrefix(p[1], d)
<1>1. /\ a \in Seq(Piece) /\ d \in Seq(Piece) /\ Len(a) \in Nat /\ Len(d) \in Nat
  BY Paths
<1>2. IsPrefix(a, d)
  BY DEF ChainPairs, Inside, IsStrictPrefix
<1>3. PICK i \in Len(a)..(Len(d) - 1) : p = <<SubSeq(d, 1, i), SubSeq(d, 1, i + 1)>>
  BY DEF ChainPairs
<1> DEFINE x == SubSeq(d, 1, i)
           y == SubSeq(d, 1, i + 1)
<1>4. i \in 0..Len(d) /\ i + 1 \in 0..Len(d) /\ i \in 0..(Len(d) - 1)
  BY <1>1
<1>5. x \in Fqn /\ y \in Fqn
  BY <1>4, CutIsFqn
<1>6. y # Root /\ Front(y) = x
  BY <1>1, <1>4, FrontOfCut DEF Root
<1>7. x \in Seq(Piece) /\ Len(x) = i /\ \A k \in 1..i : x[k] = d[k]
  BY <1>1, <1>4, Cut
<1>8. y \in Seq(Piece) /\ Len(y) = i + 1 /\ \A k \in 1..(i + 1) : y[k] = d[k]
  BY <1>1, <1>4, Cut
<1>9. p[1] = x /\ p[2] = y /\ p = <<x, y>>
  BY <1>3
<1> HIDE DEF x, y
<1>10. \A k \in 1..Len(a) : a[k] = d[k]
  BY <1>1, <1>2, PrefixIs
<1>11. IsPrefix(a, x)
  <2>1. Len(a) <= Len(x) /\ \A k \in 1..Len(a) : a[k] = x[k]
    BY <1>1, <1>4, <1>7, <1>10
  <2> QED BY <1>1, <1>7, <2>1, PrefixIs
<1>12. IsPrefix(y, d)
  <2>1. Len(y) <= Len(d) /\ \A k \in 1..Len(y) : y[k] = d[k]
    BY <1>1, <1>4, <1>8
  <2> QED BY <1>1, <1>8, <2>1, PrefixIs
<1>13. IsPrefix(x, d)
  <2>1. Len(x) <= Len(d) /\ \A k \in 1..Len(x) : x[k] = d[k]
    BY <1>1, <1>4, <1>7
  <2> QED BY <1>1, <1>7, <2>1, PrefixIs
<1> QED BY <1>5, <1>6, <1>9, <1>11, <1>12, <1>13

\* The two ancestors a rolled-up edge joins differ, below one parent.
LEMMA Diverging ==
    ASSUME NEW s \in Fqn, NEW t \in Fqn, Diverge(<<s, t>>)
    PROVE  \E i \in 1..Len(s) :
              /\ i <= Len(t) /\ s[i] # t[i]
              /\ DivergingAncestors(<<s, t>>) = <<SubSeq(s, 1, i), SubSeq(t, 1, i)>>
<1> DEFINE Apart(k) == s[k] # t[k] /\ SubSeq(s, 1, k - 1) = SubSeq(t, 1, k - 1)
           i == CHOOSE k \in 1..Len(s) : Apart(k)
           Differ == {k \in 1..Len(s) : k <= Len(t) /\ s[k] # t[k]}
<1>1. s \in Seq(Piece) /\ t \in Seq(Piece) /\ Len(s) \in Nat /\ Len(t) \in Nat
  BY Paths
<1>2. ~IsPrefix(s, t) /\ ~IsPrefix(t, s)
  BY DEF Diverge
<1>3. Differ # {}
  BY <1>1, <1>2, PrefixIs
<1>4. PICK k \in Differ : \A j \in Differ : k <= j
  <2>1. Differ \in SUBSET Nat
    BY <1>1
  <2> QED BY <1>3, <2>1, Least
<1>5. Apart(k)
  <2>1. /\ k - 1 \in 0..Len(s) /\ k - 1 \in 0..Len(t)
        /\ \A j \in 1..(k - 1) : j \in 1..Len(s) /\ j <= Len(t) /\ s[j] = t[j]
    BY <1>1, <1>4
  <2>2. /\ SubSeq(s, 1, k - 1) \in Seq(Piece) /\ Len(SubSeq(s, 1, k - 1)) = k - 1
        /\ \A j \in 1..(k - 1) : SubSeq(s, 1, k - 1)[j] = s[j]
    BY <1>1, <2>1, Cut
  <2>3. /\ SubSeq(t, 1, k - 1) \in Seq(Piece) /\ Len(SubSeq(t, 1, k - 1)) = k - 1
        /\ \A j \in 1..(k - 1) : SubSeq(t, 1, k - 1)[j] = t[j]
    BY <1>1, <2>1, Cut
  <2>4. SubSeq(s, 1, k - 1) = SubSeq(t, 1, k - 1)
    BY <2>1, <2>2, <2>3, SamePath
  <2> QED BY <1>4, <2>4
<1>6. i \in 1..Len(s) /\ Apart(i)
  BY <1>4, <1>5
<1>7. DivergingAncestors(<<s, t>>) = <<SubSeq(s, 1, i), SubSeq(t, 1, i)>>
  BY DEF DivergingAncestors
<1> HIDE DEF i
<1>8. i <= Len(t)
  <2> SUFFICES ASSUME Len(t) < i PROVE FALSE
    BY <1>1, <1>6
  <2>1. Len(t) <= i - 1 /\ i - 1 \in 0..Len(s) /\ Len(t) \in 0..Len(s) /\ i - 1 \in Int
    BY <1>1, <1>6
  <2>2. \A j \in 1..Len(t) : SubSeq(s, 1, i - 1)[j] = s[j]
    BY <1>1, <2>1, Cut
  <2>3. \A j \in 1..Len(t) : SubSeq(t, 1, i - 1)[j] = t[j]
    BY <1>1, <2>1
  <2>4. Len(t) <= Len(s) /\ \A j \in 1..Len(t) : t[j] = s[j]
    BY <1>1, <1>6, <2>1, <2>2, <2>3
  <2> QED BY <1>1, <1>2, <2>4, PrefixIs
<1> QED BY <1>6, <1>7, <1>8
-----------------------------------------------------------------------------
(* The inductive invariant                                                 *)

\* While forward() runs, the history has an entry for every tensor held and no
\* other, and what the tracer believes of a tensor is true of it.
Followed ==
    /\ phase = "forward" => frames # <<>> /\ DOMAIN data = Held(frames)
    /\ \A a \in DOMAIN data : data[a] \subseteq Fqn
    /\ \A a \in DOMAIN producer : a \in DOMAIN data /\ producer[a] \subseteq data[a]

\* What was traced was seen to happen.
Evidence ==
    /\ \A e \in edges : <<e[1], <<e[2], "in">>>> \in flows
    /\ \A x \in exits : Inside(x[1], x[2]) /\ <<x[1], <<x[2], "out">>>> \in flows

Sound ==
    /\ phase = "edges" => ported = Fqn
    /\ \A e \in drawn : Accepted(e) /\ Witnessed(e)

IInv == TypeOK /\ Followed /\ Evidence /\ Sound

-----------------------------------------------------------------------------
(* Frames                                                                  *)

LEMMA HeldIs ==
    ASSUME NEW fs \in Seq(Frame)
    PROVE  \A a : a \in Held(fs) <=> a = Input \/ \E i \in 1..Len(fs) : a \in fs[i].holds
  BY LenProperties DEF Held

LEMMA HeldIsAddr ==
    ASSUME NEW fs \in Seq(Frame)
    PROVE  Held(fs) \subseteq Addr
<1>1. \A i \in 1..Len(fs) : fs[i] \in Frame
  BY ElementOfSeq
<1>2. \A i \in 1..Len(fs) : fs[i].holds \subseteq Addr
  BY <1>1 DEF Frame
<1> QED BY <1>2, HeldIs, TraceAssumption

LEMMA TopIs ==
    ASSUME NEW fs \in Seq(Frame), fs # <<>>
    PROVE  /\ Len(fs) \in 1..Len(fs) /\ fs[Len(fs)] \in Frame
           /\ fs[Len(fs)].holds \subseteq Held(fs)
<1>1. Len(fs) \in 1..Len(fs)
  BY EmptySeq, LenProperties
<1>2. fs[Len(fs)] \in Frame
  BY <1>1, ElementOfSeq
<1> QED BY <1>1, <1>2, HeldIs

\* The top frame with other tensors.
LEMMA Rehold ==
    ASSUME NEW fs \in Seq(Frame), fs # <<>>, NEW f \in Frame, NEW gs,
           gs = [fs EXCEPT ![Len(fs)] = f]
    PROVE  /\ gs \in Seq(Frame) /\ Len(gs) = Len(fs) /\ gs # <<>>
           /\ gs[Len(gs)] = f
           /\ \A i \in 1..Len(fs) : i # Len(fs) => gs[i] = fs[i]
<1>1. Len(fs) \in 1..Len(fs) /\ fs[Len(fs)] \in Frame
  BY TopIs
<1>2. /\ gs \in Seq(Frame) /\ Len(gs) = Len(fs)
      /\ \A j \in 1..Len(fs) : gs[j] = IF j = Len(fs) THEN f ELSE fs[j]
  BY <1>1, ExceptSeq
<1>3. gs # <<>>
  BY <1>1, <1>2, EmptySeq
<1> QED BY <1>1, <1>2, <1>3

LEMMA GetsIs ==
    ASSUME NEW fs \in Seq(Frame), fs # <<>>, NEW T \in SUBSET Addr
    PROVE  /\ Gets(fs, T) \in Seq(Frame) /\ Gets(fs, T) # <<>>
           /\ Held(Gets(fs, T)) = Held(fs) \cup T
<1> DEFINE gs == Gets(fs, T)
           f == [fs[Len(fs)] EXCEPT !.holds = @ \cup T]
<1>1. Len(fs) \in 1..Len(fs) /\ fs[Len(fs)] \in Frame
  BY TopIs
<1>2. f \in Frame /\ f.holds = fs[Len(fs)].holds \cup T
  BY <1>1 DEF Frame
<1>3. gs = [fs EXCEPT ![Len(fs)] = f]
  BY DEF Gets
<1> HIDE DEF f, gs
<1>4. /\ gs \in Seq(Frame) /\ Len(gs) = Len(fs) /\ gs # <<>> /\ gs[Len(gs)] = f
      /\ \A i \in 1..Len(fs) : i # Len(fs) => gs[i] = fs[i]
  BY <1>2, <1>3, Rehold
<1>5. \A i \in 1..Len(fs) : gs[i].holds = fs[i].holds \cup (IF i = Len(fs) THEN T ELSE {})
  BY <1>2, <1>4
<1>6. \A a : a \in Held(gs) <=> a \in Held(fs) \/ a \in T
  BY <1>1, <1>4, <1>5, HeldIs
<1> QED BY <1>4, <1>6 DEF gs

LEMMA FewerIs ==
    ASSUME NEW fs \in Seq(Frame), fs # <<>>, NEW t
    PROVE  /\ [fs EXCEPT ![Len(fs)].holds = @ \ {t}] \in Seq(Frame)
           /\ [fs EXCEPT ![Len(fs)].holds = @ \ {t}] # <<>>
           /\ Held([fs EXCEPT ![Len(fs)].holds = @ \ {t}]) \subseteq Held(fs)
<1> DEFINE gs == [fs EXCEPT ![Len(fs)].holds = @ \ {t}]
           f == [fs[Len(fs)] EXCEPT !.holds = @ \ {t}]
<1>1. Len(fs) \in 1..Len(fs) /\ fs[Len(fs)] \in Frame
  BY TopIs
<1>2. f \in Frame /\ f.holds \subseteq fs[Len(fs)].holds
  BY <1>1 DEF Frame
<1>3. gs = [fs EXCEPT ![Len(fs)] = f]
  OBVIOUS
<1> HIDE DEF f, gs
<1>4. /\ gs \in Seq(Frame) /\ Len(gs) = Len(fs) /\ gs # <<>> /\ gs[Len(gs)] = f
      /\ \A i \in 1..Len(fs) : i # Len(fs) => gs[i] = fs[i]
  BY <1>2, <1>3, Rehold
<1>5. \A i \in 1..Len(fs) : gs[i].holds \subseteq fs[i].holds
  BY <1>2, <1>4
<1>6. Held(gs) \subseteq Held(fs)
  BY <1>4, <1>5, HeldIs
<1> QED BY <1>4, <1>6 DEF gs

LEMMA FrontIs ==
    ASSUME NEW fs \in Seq(Frame), Len(fs) > 1
    PROVE  Front(fs) \in Seq(Frame) /\ Front(fs) # <<>> /\ Held(Front(fs)) \subseteq Held(fs)
<1>1. Len(fs) \in Nat /\ Len(fs) - 1 \in 0..Len(fs)
  BY LenProperties
<1>2. /\ Front(fs) \in Seq(Frame) /\ Len(Front(fs)) = Len(fs) - 1
      /\ \A k \in 1..(Len(fs) - 1) : Front(fs)[k] = fs[k]
  BY <1>1, Cut DEF Front
<1>3. Front(fs) # <<>>
  BY <1>1, <1>2, EmptySeq
<1> QED BY <1>1, <1>2, <1>3, HeldIs

LEMMA PushIs ==
    ASSUME NEW fs \in Seq(Frame), fs # <<>>, NEW f \in Frame, f.holds \subseteq fs[Len(fs)].holds
    PROVE  /\ Append(fs, f) \in Seq(Frame) /\ Append(fs, f) # <<>>
           /\ Held(Append(fs, f)) = Held(fs)
<1> DEFINE gs == Append(fs, f)
<1>1. /\ gs \in Seq(Frame) /\ Len(gs) = Len(fs) + 1 /\ gs[Len(fs) + 1] = f
      /\ \A i \in 1..Len(fs) : gs[i] = fs[i]
  OBVIOUS
<1>2. Len(fs) \in 1..Len(fs) /\ Len(fs) \in Nat
  BY TopIs, LenProperties
<1>3. gs # <<>>
  BY <1>1, <1>2, EmptySeq
<1> HIDE DEF gs
<1>4. \A a : a \in Held(gs) <=> a \in Held(fs)
  BY <1>1, <1>2, HeldIs
<1> QED BY <1>1, <1>3, <1>4 DEF gs

\* What a call, an op or a return may use.
LEMMA Usable ==
    ASSUME IInv, phase = "forward", NEW T, T \in Some(Top.holds)
    PROVE  /\ frames \in Seq(Frame) /\ frames # <<>> /\ Top \in Frame
           /\ T \subseteq Top.holds /\ T \subseteq Held(frames) /\ T \subseteq Addr
           /\ Of(producer, T) \subseteq Of(data, T) /\ Of(data, T) \subseteq Fqn
<1>1. frames \in Seq(Frame) /\ frames # <<>>
  BY DEF IInv, TypeOK, Followed
<1>2. Top \in Frame /\ Top.holds \subseteq Held(frames) /\ T \subseteq Top.holds
  BY <1>1, TopIs DEF Top, Last, Some
<1>3. T \subseteq Addr
  BY <1>1, <1>2, HeldIsAddr
<1>4. Of(producer, T) \subseteq Of(data, T) /\ Of(data, T) \subseteq Fqn
  BY DEF Of, IInv, Followed
<1> QED BY <1>1, <1>2, <1>3, <1>4

-----------------------------------------------------------------------------
(* The forward pass                                                        *)

LEMMA SoundKept ==
    ASSUME Sound, drawn' = drawn, ported' = ported, flows \subseteq flows',
           phase' = "edges" => phase = "edges"
    PROVE  Sound'
<1>1. \A e \in drawn : Accepted(e)' /\ Witnessed(e)'
  BY DEF Sound, Accepted, Witnessed
<1> QED BY <1>1 DEF Sound

LEMMA BelowIsModule ==
    ASSUME NEW s \in Fqn, NEW c \in Fqn, Inside(s, c)
    PROVE  s \in Modules
<1> SUFFICES ASSUME s = Root PROVE FALSE
  BY DEF Fqn
<1>1. IsPrefix(c, s) /\ s # c /\ Len(c) \in Nat /\ c \in Seq(Piece)
  BY Paths DEF Inside, IsStrictPrefix
<1>2. Len(c) = 0
  BY <1>1, EmptySeq DEF IsPrefix, Root
<1> QED BY <1>1, <1>2, EmptySeq DEF Root

LEMMA CallStep ==
    ASSUME IInv, NEW m \in Modules, NEW T \in SUBSET Addr, Call(m, T)
    PROVE  IInv'
<1>1. /\ phase = "forward" /\ phase' = phase /\ T \in Some(Top.holds)
      /\ edges' = edges \cup Emitted(m, T)
      /\ frames' = Append(frames, [fqn |-> m, holds |-> T])
      /\ calls < MaxCalls /\ calls' = calls + 1
      /\ flows' = flows \cup (Of(data, T) \X {<<m, "in">>})
      /\ looped' = looped \cup (Of(producer, T) \cap {m})
      /\ producer' = producer /\ exits' = exits /\ ops' = ops /\ data' = data
      /\ nodes' = nodes /\ ported' = ported /\ drawn' = drawn
  BY DEF Call, committed
<1>2. /\ frames \in Seq(Frame) /\ frames # <<>> /\ T \subseteq Top.holds /\ T \subseteq Addr
      /\ Of(producer, T) \subseteq Of(data, T) /\ Of(data, T) \subseteq Fqn
  BY <1>1, Usable
<1>3. [fqn |-> m, holds |-> T] \in Frame
  BY <1>2 DEF Frame, Fqn
<1>4. frames' \in Seq(Frame) /\ frames' # <<>> /\ Held(frames') = Held(frames)
  BY <1>1, <1>2, <1>3, PushIs DEF Top, Last
<1>5. <<m, "in">> \in Port
  BY DEF Port, Fqn
<1>6. calls' \in 0..MaxCalls
  BY <1>1, TraceAssumption DEF IInv, TypeOK
<1>7. Emitted(m, T) \subseteq Fqn \X Modules
  BY <1>2 DEF Emitted
<1>8. TypeOK'
  BY <1>1, <1>2, <1>4, <1>5, <1>6, <1>7 DEF IInv, TypeOK
<1>9. Followed'
  BY <1>1, <1>4 DEF IInv, Followed
<1>10. Evidence'
  <2>1. \A e \in Emitted(m, T) : <<e[1], <<e[2], "in">>>> \in flows'
    BY <1>1, <1>2 DEF Emitted
  <2> QED BY <1>1, <2>1 DEF IInv, Evidence
<1>11. Sound'
  BY <1>1, SoundKept DEF IInv
<1> QED BY <1>8, <1>9, <1>10, <1>11 DEF IInv

LEMMA ProducerIs ==
    ASSUME TypeOK, NEW a \in DOMAIN producer
    PROVE  producer[a] \subseteq Fqn /\ producer[a] # {}
  BY DEF TypeOK

LEMMA NonEmpty ==
    ASSUME NEW S, NEW T, T \subseteq S, T # {}
    PROVE  T \in (SUBSET S) \ {{}}
  OBVIOUS

\* What a stamp makes of the producers, on the tensors still held.
LEMMA DropIs ==
    ASSUME NEW f, NEW fs
    PROVE  /\ DOMAIN Drop(f, fs) = DOMAIN f \cap Held(fs)
           /\ \A a \in DOMAIN Drop(f, fs) : Drop(f, fs)[a] = f[a]
  BY DEF Drop, Restrict

LEMMA StampIs ==
    ASSUME NEW T, NEW srcs
    PROVE  /\ DOMAIN Stamp(T, srcs) \subseteq DOMAIN producer \cup T
           /\ \A a \in DOMAIN Stamp(T, srcs) :
                 \/ a \in T /\ srcs # {} /\ Stamp(T, srcs)[a] = srcs
                 \/ /\ a \in DOMAIN producer /\ Stamp(T, srcs)[a] = producer[a]
                    /\ a \notin T \/ srcs = {}
  BY DEF Stamp

LEMMA LeavingIs ==
    ASSUME IInv, NEW c \in Fqn, NEW T, Of(producer, T) \subseteq Of(data, T),
           Of(data, T) \subseteq Fqn
    PROVE  /\ Leaving(c, T) \subseteq Modules \X Fqn
           /\ \A x \in Leaving(c, T) : Inside(x[1], x[2]) /\ x[1] \in Of(data, T) /\ x[2] = c
  BY BelowIsModule DEF Leaving

LEMMA ReturnStep ==
    ASSUME IInv, NEW T \in SUBSET Addr, Return(T)
    PROVE  IInv'
<1> DEFINE m == Top.fqn
           rest == Gets(Front(frames), T)
           came == [a \in DOMAIN data \cup T |->
                       Of(data, {a}) \cup (IF a \in T THEN {m} ELSE {})]
<1>1. /\ phase = "forward" /\ phase' = phase /\ T \in Some(Top.holds) /\ Len(frames) > 1
      /\ exits' = exits \cup Leaving(m, T)
      /\ producer' = Drop(Stamp(T, {m}), rest)
      /\ frames' = rest
      /\ data' = Restrict(came, Held(rest))
      /\ flows' = flows \cup (Of(data, T) \X {<<m, "out">>})
      /\ edges' = edges /\ calls' = calls /\ ops' = ops /\ looped' = looped
      /\ nodes' = nodes /\ ported' = ported /\ drawn' = drawn
  BY DEF Return, committed
<1>2. /\ frames \in Seq(Frame) /\ frames # <<>> /\ Top \in Frame
      /\ T \subseteq Held(frames) /\ T \subseteq Addr
      /\ Of(producer, T) \subseteq Of(data, T) /\ Of(data, T) \subseteq Fqn
  BY <1>1, Usable
<1>3. m \in Fqn
  BY <1>2 DEF Frame
<1>4. /\ Front(frames) \in Seq(Frame) /\ Front(frames) # <<>>
      /\ Held(Front(frames)) \subseteq Held(frames)
  BY <1>1, <1>2, FrontIs
<1>5. /\ rest \in Seq(Frame) /\ rest # <<>>
      /\ Held(rest) = Held(Front(frames)) \cup T /\ Held(rest) \subseteq Held(frames)
  BY <1>2, <1>4, GetsIs
<1>6. DOMAIN data = Held(frames)
  BY <1>1 DEF IInv, Followed
<1> HIDE DEF m, rest
<1>7. /\ DOMAIN data' = Held(rest)
      /\ \A a \in DOMAIN data' :
            data'[a] = data[a] \cup (IF a \in T THEN {m} ELSE {})
  <2>1. \A a \in DOMAIN data : Of(data, {a}) = data[a]
    BY DEF Of
  <2>2. \A a \in Held(rest) : a \in DOMAIN data /\ a \in DOMAIN came /\ data'[a] = came[a]
    BY <1>1, <1>5, <1>6 DEF Restrict
  <2>3. DOMAIN data' = Held(rest)
    BY <1>1 DEF Restrict
  <2> QED BY <2>1, <2>2, <2>3
<1> HIDE DEF came
<1>8. /\ DOMAIN producer' \subseteq (DOMAIN producer \cup T) \cap Held(rest)
      /\ \A a \in DOMAIN producer' :
            \/ a \in T /\ producer'[a] = {m}
            \/ a \in DOMAIN producer /\ producer'[a] = producer[a]
  <2> DEFINE st == Stamp(T, {m})
  <2>1. /\ DOMAIN st \subseteq DOMAIN producer \cup T
        /\ \A a \in DOMAIN st :
              \/ a \in T /\ st[a] = {m}
              \/ a \in DOMAIN producer /\ st[a] = producer[a]
    BY DEF Stamp
  <2>2. producer' = Drop(st, rest)
    BY <1>1
  <2> HIDE DEF st
  <2> QED BY <2>1, <2>2, DropIs
<1>9. /\ Leaving(m, T) \subseteq Modules \X Fqn
      /\ \A x \in Leaving(m, T) : Inside(x[1], x[2]) /\ x[1] \in Of(data, T) /\ x[2] = m
  BY <1>2, <1>3, LeavingIs
<1>10. <<m, "out">> \in Port
  BY <1>3 DEF Port
<1>11. Held(rest) \subseteq Addr
  BY <1>5, HeldIsAddr
<1>12. TypeOK'
  <2>1. /\ DOMAIN producer' \subseteq Addr
        /\ \A a \in DOMAIN producer' : producer'[a] \in (SUBSET Fqn) \ {{}}
    <3>1. \A a \in DOMAIN producer' : producer'[a] \subseteq Fqn /\ producer'[a] # {}
      BY <1>3, <1>8, ProducerIs DEF IInv
    <3> QED BY <1>8, <1>11, <3>1, NonEmpty
  <2>2. exits' \subseteq Modules \X Fqn /\ flows' \subseteq Fqn \X Port
    BY <1>1, <1>2, <1>9, <1>10 DEF IInv, TypeOK
  <2>3. DOMAIN producer' \subseteq Held(frames') /\ DOMAIN data' \subseteq Addr
    BY <1>1, <1>7, <1>8, <1>11
  <2> QED BY <1>1, <1>5, <2>1, <2>2, <2>3 DEF IInv, TypeOK
<1>13. Followed'
  <2>1. \A a \in DOMAIN data' : a \in DOMAIN data /\ data'[a] \subseteq Fqn
    BY <1>3, <1>5, <1>6, <1>7 DEF IInv, Followed
  <2>2. \A a \in DOMAIN producer' : a \in DOMAIN data' /\ producer'[a] \subseteq data'[a]
    BY <1>7, <1>8 DEF IInv, Followed
  <2> QED BY <1>1, <1>5, <1>7, <2>1, <2>2 DEF Followed
<1>14. Evidence'
  BY <1>1, <1>9 DEF IInv, Evidence
<1>15. Sound'
  BY <1>1, SoundKept DEF IInv
<1> QED BY <1>12, <1>13, <1>14, <1>15 DEF IInv

LEMMA OpStep ==
    ASSUME IInv, NEW T \in SUBSET Addr, NEW out \in Addr, Op(T, out)
    PROVE  IInv'
<1>1. /\ phase = "forward" /\ phase' = phase /\ T \in Some(Top.holds) /\ ops < MaxOps
      /\ out \in T \/ out \notin Held(frames)
      /\ producer' = Stamp({out}, Of(producer, T))
      /\ frames' = Gets(frames, {out}) /\ ops' = ops + 1
      /\ data' = [a \in DOMAIN data \cup {out} |-> IF a = out THEN Of(data, T) ELSE data[a]]
      /\ edges' = edges /\ exits' = exits /\ calls' = calls
      /\ flows' = flows /\ looped' = looped
      /\ nodes' = nodes /\ ported' = ported /\ drawn' = drawn
  BY DEF Op, committed
<1>2. /\ frames \in Seq(Frame) /\ frames # <<>> /\ T \subseteq Held(frames) /\ T \subseteq Addr
      /\ Of(producer, T) \subseteq Of(data, T) /\ Of(data, T) \subseteq Fqn
  BY <1>1, Usable
<1>3. frames' \in Seq(Frame) /\ frames' # <<>> /\ Held(frames') = Held(frames) \cup {out}
  BY <1>1, <1>2, GetsIs
<1>4. DOMAIN data = Held(frames) /\ DOMAIN producer \subseteq Held(frames)
  BY <1>1 DEF IInv, Followed, TypeOK
<1>5. ops' \in 0..MaxOps
  BY <1>1, TraceAssumption DEF IInv, TypeOK
<1>6. /\ DOMAIN data' = Held(frames') /\ data'[out] = Of(data, T)
      /\ \A a \in DOMAIN data : a # out => data'[a] = data[a]
  BY <1>1, <1>3, <1>4
<1>7. /\ DOMAIN producer' \subseteq DOMAIN producer \cup {out}
      /\ \A a \in DOMAIN producer' :
            \/ a = out /\ Of(producer, T) # {} /\ producer'[a] = Of(producer, T)
            \/ /\ a \in DOMAIN producer /\ producer'[a] = producer[a]
               /\ a # out \/ Of(producer, T) = {}
  BY <1>1, StampIs
<1>8. out \in DOMAIN producer => Of(producer, T) # {}
  <2> SUFFICES ASSUME out \in DOMAIN producer PROVE Of(producer, T) # {}
    OBVIOUS
  <2>1. out \in T /\ producer[out] # {}
    BY <1>1, <1>4, ProducerIs DEF IInv
  <2>2. producer[out] \subseteq Of(producer, T)
    BY <2>1 DEF Of
  <2> QED BY <2>1, <2>2
<1>9. \A a \in DOMAIN producer' :
         \/ a = out /\ Of(producer, T) # {} /\ producer'[a] = Of(producer, T)
         \/ a # out /\ a \in DOMAIN producer /\ producer'[a] = producer[a]
  BY <1>7, <1>8
<1>10. TypeOK'
  <2>1. /\ DOMAIN producer' \subseteq Addr
        /\ \A a \in DOMAIN producer' : producer'[a] \in (SUBSET Fqn) \ {{}}
    <3>1. \A a \in DOMAIN producer' : producer'[a] \subseteq Fqn /\ producer'[a] # {}
      BY <1>2, <1>9, ProducerIs DEF IInv
    <3>2. DOMAIN producer' \subseteq Addr
      BY <1>7 DEF IInv, TypeOK
    <3> QED BY <3>1, <3>2, NonEmpty
  <2>2. DOMAIN producer' \subseteq Held(frames') /\ DOMAIN data' \subseteq Addr
    BY <1>3, <1>4, <1>6, <1>7 DEF IInv, TypeOK
  <2> QED BY <1>1, <1>3, <1>5, <2>1, <2>2 DEF IInv, TypeOK
<1>11. Followed'
  BY <1>1, <1>2, <1>3, <1>6, <1>9 DEF IInv, Followed
<1>12. Evidence'
  BY <1>1 DEF IInv, Evidence
<1>13. Sound'
  BY <1>1, SoundKept DEF IInv
<1> QED BY <1>10, <1>11, <1>12, <1>13 DEF IInv

LEMMA ForgetStep ==
    ASSUME IInv, NEW t \in Addr, Forget(t)
    PROVE  IInv'
<1> DEFINE fewer == [frames EXCEPT ![Len(frames)].holds = @ \ {t}]
<1>1. /\ phase = "forward" /\ phase' = phase
      /\ frames' = fewer
      /\ producer' = Drop(producer, fewer)
      /\ data' = Restrict(data, Held(fewer))
      /\ edges' = edges /\ exits' = exits /\ calls' = calls /\ ops' = ops
      /\ flows' = flows /\ looped' = looped
      /\ nodes' = nodes /\ ported' = ported /\ drawn' = drawn
  BY DEF Forget, committed
<1>2. frames \in Seq(Frame) /\ frames # <<>> /\ DOMAIN data = Held(frames)
  BY <1>1 DEF IInv, TypeOK, Followed
<1>3. fewer \in Seq(Frame) /\ fewer # <<>> /\ Held(fewer) \subseteq Held(frames)
  BY <1>2, FewerIs
<1> HIDE DEF fewer
<1>4. /\ DOMAIN producer' = DOMAIN producer \cap Held(fewer)
      /\ \A a \in DOMAIN producer' : producer'[a] = producer[a]
  BY <1>1, DropIs
<1>5. DOMAIN data' = Held(fewer) /\ \A a \in DOMAIN data' : data'[a] = data[a]
  BY <1>1 DEF Restrict
<1>6. Held(fewer) \subseteq Addr
  BY <1>3, HeldIsAddr
<1>7. TypeOK'
  BY <1>1, <1>3, <1>4, <1>5, <1>6 DEF IInv, TypeOK
<1>8. Followed'
  BY <1>1, <1>2, <1>3, <1>4, <1>5 DEF IInv, Followed
<1>9. Evidence'
  BY <1>1 DEF IInv, Evidence
<1>10. Sound'
  BY <1>1, SoundKept DEF IInv
<1> QED BY <1>7, <1>8, <1>9, <1>10 DEF IInv

LEMMA NoFrames == <<>> \in Seq(Frame) /\ DOMAIN <<>> = {}
  BY EmptySeq

LEMMA FinishStep ==
    ASSUME IInv, NEW T \in SUBSET Addr, Finish(T)
    PROVE  IInv'
<1>1. /\ phase = "forward" /\ phase' = "nodes" /\ T \in Some(Top.holds)
      /\ exits' = exits \cup Leaving(Root, T)
      /\ flows' = flows \cup (Of(data, T) \X {<<Root, "out">>})
      /\ frames' = <<>> /\ producer' = <<>> /\ data' = <<>>
      /\ calls' = 0 /\ ops' = 0 /\ edges' = edges /\ looped' = looped
      /\ nodes' = nodes /\ ported' = ported /\ drawn' = drawn
  BY DEF Finish, committed
<1>2. Of(producer, T) \subseteq Of(data, T) /\ Of(data, T) \subseteq Fqn
  BY <1>1, Usable
<1>3. Root \in Fqn /\ <<Root, "out">> \in Port
  BY DEF Fqn, Port
<1>4. /\ Leaving(Root, T) \subseteq Modules \X Fqn
      /\ \A x \in Leaving(Root, T) : Inside(x[1], x[2]) /\ x[1] \in Of(data, T) /\ x[2] = Root
  BY <1>2, <1>3, LeavingIs
<1>5. 0 \in 0..MaxCalls /\ 0 \in 0..MaxOps
  BY TraceAssumption
<1>6. TypeOK'
  BY <1>1, <1>2, <1>3, <1>4, <1>5, NoFrames DEF IInv, TypeOK, Phases
<1>7. Followed'
  BY <1>1, NoFrames DEF Followed
<1>8. Evidence'
  BY <1>1, <1>4 DEF IInv, Evidence
<1>9. Sound'
  BY <1>1, SoundKept DEF IInv
<1> QED BY <1>6, <1>7, <1>8, <1>9 DEF IInv
-----------------------------------------------------------------------------
(* Drawing                                                                 *)

LEMMA TodoIs ==
    ASSUME NEW e \in Todo
    PROVE  e \in PeerEdges \cup TunnelIn \cup TunnelOut
  BY DEF Todo

\* Between diverging modules the data went out of one ancestor, into the other.
LEMMA PeerIsReal ==
    ASSUME IInv, ported = Fqn, NEW d \in PeerEdges
    PROVE  d \in Edge /\ Accepted(d) /\ Witnessed(d)
<1>1. PICK e \in Across : d = <<<<DivergingAncestors(e)[1], "out">>, <<DivergingAncestors(e)[2], "in">>>>
  BY DEF PeerEdges, Join
<1>2. e = <<e[1], e[2]>> /\ e[1] \in Fqn /\ e[2] \in Fqn /\ Diverge(e) /\ e \in edges
  BY DEF Across, IInv, TypeOK, Fqn
<1>3. PICK i \in 1..Len(e[1]) :
        /\ i <= Len(e[2]) /\ e[1][i] # e[2][i]
        /\ DivergingAncestors(e) = <<SubSeq(e[1], 1, i), SubSeq(e[2], 1, i)>>
  BY <1>2, Diverging
<1>4. /\ e[1] \in Seq(Piece) /\ e[2] \in Seq(Piece) /\ Len(e[1]) \in Nat /\ Len(e[2]) \in Nat
  BY <1>2, Paths
<1> DEFINE x == SubSeq(e[1], 1, i)
           y == SubSeq(e[2], 1, i)
<1>5. d = <<<<x, "out">>, <<y, "in">>>>
  BY <1>1, <1>3
<1>6. i \in 0..Len(e[1]) /\ i \in 0..Len(e[2])
  BY <1>3, <1>4
<1>7. x \in Fqn /\ y \in Fqn
  BY <1>2, <1>6, CutIsFqn
<1>8. IsPrefix(x, e[1]) /\ IsPrefix(y, e[2])
  BY <1>4, <1>6, CutIsPrefix
<1> HIDE DEF x, y
<1>9. <<e[1], <<e[2], "in">>>> \in flows
  BY <1>2 DEF IInv, Evidence
<1>10. Witnessed(d)
  BY <1>5, <1>8, <1>9 DEF Witnessed, Within
<1> QED BY <1>5, <1>7, <1>10 DEF Accepted, LegalFlow, Edge, Port

\* Data that came from outside a container entered it level by level.
LEMMA TunnelInIsReal ==
    ASSUME IInv, ported = Fqn, NEW d \in TunnelIn
    PROVE  d \in Edge /\ Accepted(d) /\ Witnessed(d)
<1>1. PICK p \in (UNION {ChainPairs(Root, e[2]) : e \in Entering})
                   \cup UNION {ChainPairs(DivergingAncestors(e)[2], e[2]) : e \in Across} :
        d = <<<<p[1], "in">>, <<p[2], "in">>>>
  BY DEF TunnelIn, Join
<1>2. \E e \in edges :
        /\ p[1] \in Fqn /\ p[2] \in Fqn /\ p[2] # Root /\ Front(p[2]) = p[1]
        /\ IsPrefix(p[2], e[2])
        /\ e[1] = Root \/ ~IsPrefix(p[1], e[1])
  <2>1. CASE \E e \in Entering : p \in ChainPairs(Root, e[2])
    <3>1. PICK e \in Entering : p \in ChainPairs(Root, e[2])
      BY <2>1
    <3>2. e \in edges /\ e[1] = Root /\ e[2] \in Fqn /\ Root \in Fqn
      BY DEF Entering, IInv, TypeOK, Fqn
    <3> QED BY <3>1, <3>2, Chains
  <2>2. CASE \E e \in Across : p \in ChainPairs(DivergingAncestors(e)[2], e[2])
    <3>1. PICK e \in Across : p \in ChainPairs(DivergingAncestors(e)[2], e[2])
      BY <2>2
    <3>2. e = <<e[1], e[2]>> /\ e[1] \in Fqn /\ e[2] \in Fqn /\ Diverge(e) /\ e \in edges
      BY DEF Across, IInv, TypeOK, Fqn
    <3>3. PICK i \in 1..Len(e[1]) :
            /\ i <= Len(e[2]) /\ e[1][i] # e[2][i]
            /\ DivergingAncestors(e) = <<SubSeq(e[1], 1, i), SubSeq(e[2], 1, i)>>
      BY <3>2, Diverging
    <3>4. /\ e[1] \in Seq(Piece) /\ e[2] \in Seq(Piece)
          /\ Len(e[1]) \in Nat /\ Len(e[2]) \in Nat
      BY <3>2, Paths
    <3> DEFINE y == SubSeq(e[2], 1, i)
    <3>5. i \in 0..Len(e[2])
      BY <3>3, <3>4
    <3>6. y \in Fqn
      BY <3>2, <3>5, CutIsFqn
    <3>7. Len(y) = i /\ y[i] = e[2][i] /\ y \in Seq(Piece)
      BY <3>3, <3>4, <3>5, Cut
    <3>8. DivergingAncestors(e)[2] = y
      BY <3>3
    <3> HIDE DEF y
    <3>9. /\ p[1] \in Fqn /\ p[2] \in Fqn /\ p[2] # Root /\ Front(p[2]) = p[1]
          /\ IsPrefix(y, p[1]) /\ IsPrefix(p[2], e[2])
      BY <3>1, <3>2, <3>6, <3>8, Chains
    <3>10. p[1] \in Seq(Piece) /\ Len(p[1]) \in Nat
      BY <3>9, Paths
    <3>11. i <= Len(p[1]) /\ p[1][i] = e[2][i] /\ i \in 1..Len(p[1])
      <4>1. Len(y) <= Len(p[1]) /\ \A k \in 1..Len(y) : y[k] = p[1][k]
        BY <3>7, <3>9, <3>10, PrefixIs
      <4>2. i \in 1..i /\ i <= Len(p[1])
        BY <3>3, <3>4, <3>7, <4>1
      <4> QED BY <3>7, <3>10, <4>1, <4>2
    <3>12. ~IsPrefix(p[1], e[1])
      BY <3>3, <3>4, <3>10, <3>11, PrefixIs
    <3> QED BY <3>2, <3>9, <3>12
  <2>3. \/ \E e \in Entering : p \in ChainPairs(Root, e[2])
        \/ \E e \in Across : p \in ChainPairs(DivergingAncestors(e)[2], e[2])
    OBVIOUS
  <2> QED BY <2>1, <2>2, <2>3
<1>3. PICK e \in edges :
        /\ p[1] \in Fqn /\ p[2] \in Fqn /\ p[2] # Root /\ Front(p[2]) = p[1]
        /\ IsPrefix(p[2], e[2])
        /\ e[1] = Root \/ ~IsPrefix(p[1], e[1])
  BY <1>2
<1>4. <<e[1], <<e[2], "in">>>> \in flows
  BY DEF IInv, Evidence
<1>5. Witnessed(d)
  BY <1>1, <1>3, <1>4 DEF Witnessed, Within
<1> QED BY <1>1, <1>3, <1>5 DEF Accepted, LegalFlow, Edge, Port

\* What left a container left it level by level.
LEMMA TunnelOutIsReal ==
    ASSUME IInv, ported = Fqn, NEW d \in TunnelOut
    PROVE  d \in Edge /\ Accepted(d) /\ Witnessed(d)
<1>1. PICK p \in UNION {ChainPairs(x[2], x[1]) : x \in exits} :
        d = <<<<p[2], "out">>, <<p[1], "out">>>>
  BY DEF TunnelOut, Join
<1>5. PICK x \in exits : p \in ChainPairs(x[2], x[1])
  OBVIOUS
<1>2. x[1] \in Fqn /\ x[2] \in Fqn /\ <<x[1], <<x[2], "out">>>> \in flows
  BY DEF IInv, TypeOK, Evidence, Fqn
<1>3. /\ p[1] \in Fqn /\ p[2] \in Fqn /\ p[2] # Root /\ Front(p[2]) = p[1]
      /\ IsPrefix(x[2], p[1]) /\ IsPrefix(p[2], x[1])
  BY <1>2, <1>5, Chains
<1>4. Witnessed(d)
  BY <1>1, <1>2, <1>3 DEF Witnessed, Within
<1> QED BY <1>1, <1>3, <1>4 DEF Accepted, LegalFlow, Edge, Port

LEMMA TodoIsReal ==
    ASSUME IInv, phase = "edges", NEW d \in Todo
    PROVE  d \in Edge /\ Accepted(d) /\ Witnessed(d)
<1>1. ported = Fqn
  BY DEF IInv, Sound
<1> QED BY <1>1, TodoIs, PeerIsReal, TunnelInIsReal, TunnelOutIsReal

-----------------------------------------------------------------------------
(* The commits                                                             *)

\* There is always a next node to commit.
LEMMA ShallowestIs ==
    ASSUME NEW ms \in SUBSET Fqn, ms # {}
    PROVE  Shallowest(ms) \in ms
<1> DEFINE Depths == {Len(m) : m \in ms}
<1>1. Depths \in SUBSET Nat /\ Depths # {}
  BY Paths
<1>2. PICK n \in Depths : \A k \in Depths : n <= k
  BY <1>1, Least
<1>3. PICK m \in ms : Len(m) = n
  OBVIOUS
<1>4. \A x \in ms : Len(m) <= Len(x)
  BY <1>2, <1>3
<1> QED BY <1>4 DEF Shallowest

LEMMA CommitNodeStep ==
    ASSUME IInv, CommitNode
    PROVE  IInv'
<1>1. /\ phase = "nodes" /\ phase' = phase /\ Fqn \ nodes # {}
      /\ nodes' = nodes \cup {Shallowest(Fqn \ nodes)}
      /\ UNCHANGED <<frames, producer, edges, exits, ported, drawn, calls, ops, data, flows, looped>>
  BY DEF CommitNode, traced
<1>2. Shallowest(Fqn \ nodes) \in Fqn
  BY <1>1, ShallowestIs
<1>3. TypeOK'
  BY <1>1, <1>2 DEF IInv, TypeOK
<1>4. Followed' /\ Evidence'
  BY <1>1 DEF IInv, Followed, Evidence
<1>5. Sound'
  BY <1>1, SoundKept DEF IInv
<1> QED BY <1>3, <1>4, <1>5 DEF IInv

LEMMA CommitPortsStep ==
    ASSUME IInv, CommitPorts
    PROVE  IInv'
<1>1. /\ phase = "nodes" /\ phase' = phase /\ ported' = nodes
      /\ UNCHANGED <<frames, producer, edges, exits, nodes, drawn, calls, ops, data, flows, looped>>
  BY DEF CommitPorts, traced
<1>2. TypeOK'
  BY <1>1 DEF IInv, TypeOK
<1>3. Followed' /\ Evidence'
  BY <1>1 DEF IInv, Followed, Evidence
<1>4. Sound'
  <2>1. ported \subseteq ported'
    BY <1>1 DEF IInv, TypeOK
  <2>2. \A e \in drawn : Accepted(e)' /\ Witnessed(e)'
    BY <1>1, <2>1 DEF IInv, Sound, Accepted, Witnessed
  <2> QED BY <1>1, <2>2 DEF Sound
<1> QED BY <1>2, <1>3, <1>4 DEF IInv

LEMMA NodesDoneStep ==
    ASSUME IInv, NodesDone
    PROVE  IInv'
<1>1. /\ phase = "nodes" /\ phase' = "edges" /\ ported = Fqn
      /\ UNCHANGED <<frames, producer, edges, exits, nodes, ported, drawn, calls, ops, data,
                     flows, looped>>
  BY DEF NodesDone, traced, committed
<1>2. TypeOK'
  BY <1>1 DEF IInv, TypeOK, Phases
<1>3. Followed' /\ Evidence'
  BY <1>1 DEF IInv, Followed, Evidence
<1>4. Sound'
  <2>1. \A e \in drawn : Accepted(e)' /\ Witnessed(e)'
    BY <1>1 DEF IInv, Sound, Accepted, Witnessed
  <2> QED BY <1>1, <2>1 DEF Sound
<1> QED BY <1>2, <1>3, <1>4 DEF IInv

LEMMA CommitEdgeStep ==
    ASSUME IInv, CommitEdge
    PROVE  IInv'
<1> DEFINE e == CHOOSE x \in Todo : TRUE
<1>1. /\ phase = "edges" /\ phase' = phase /\ Todo # {} /\ drawn' = drawn \cup {e}
      /\ UNCHANGED <<frames, producer, edges, exits, nodes, ported, calls, ops, data, flows, looped>>
  BY DEF CommitEdge, traced
<1>2. e \in Todo
  BY <1>1
<1> HIDE DEF e
<1>3. e \in Edge /\ Accepted(e) /\ Witnessed(e)
  BY <1>1, <1>2, TodoIsReal
<1>4. TypeOK'
  BY <1>1, <1>3 DEF IInv, TypeOK
<1>5. Followed' /\ Evidence'
  BY <1>1 DEF IInv, Followed, Evidence
<1>6. Sound'
  <2>1. \A d \in drawn' : Accepted(d)' /\ Witnessed(d)'
    BY <1>1, <1>3 DEF IInv, Sound, Accepted, Witnessed
  <2> QED BY <1>1, <2>1 DEF IInv, Sound
<1> QED BY <1>4, <1>5, <1>6 DEF IInv

LEMMA ImportedStep ==
    ASSUME IInv, Imported
    PROVE  IInv'
<1>1. /\ phase = "edges" /\ phase' = "imported"
      /\ UNCHANGED <<frames, producer, edges, exits, nodes, ported, drawn, calls, ops, data,
                     flows, looped>>
  BY DEF Imported, traced, committed
<1>2. TypeOK'
  BY <1>1 DEF IInv, TypeOK, Phases
<1>3. Followed' /\ Evidence'
  BY <1>1 DEF IInv, Followed, Evidence
<1>4. Sound'
  BY <1>1, SoundKept DEF IInv
<1> QED BY <1>2, <1>3, <1>4 DEF IInv

LEMMA FailsStep ==
    ASSUME IInv, Fails
    PROVE  IInv'
<1>1. /\ phase' = "failed"
      /\ frames' = <<>> /\ producer' = <<>> /\ edges' = {} /\ exits' = {}
      /\ calls' = 0 /\ ops' = 0 /\ data' = <<>> /\ looped' = {}
      /\ flows' = IF drawn = {} THEN {} ELSE flows
      /\ nodes' = nodes /\ ported' = ported /\ drawn' = drawn
  BY DEF Fails, committed
<1>2. 0 \in 0..MaxCalls /\ 0 \in 0..MaxOps
  BY TraceAssumption
<1>3. TypeOK'
  BY <1>1, <1>2, NoFrames DEF IInv, TypeOK, Phases
<1>4. Followed' /\ Evidence'
  BY <1>1, NoFrames DEF Followed, Evidence
<1>5. Sound'
  <2>1. \A e \in drawn : Accepted(e)' /\ Witnessed(e)'
    BY <1>1 DEF IInv, Sound, Accepted, Witnessed
  <2> QED BY <1>1, <2>1 DEF Sound
<1> QED BY <1>3, <1>4, <1>5 DEF IInv

-----------------------------------------------------------------------------
(* The theorems                                                            *)

LEMMA InitOK ==
    ASSUME Init
    PROVE  IInv
<1>1. /\ edges = {} /\ exits = {} /\ nodes = {} /\ ported = {} /\ drawn = {}
      /\ calls = 0 /\ ops = 0 /\ flows = {} /\ looped = {} /\ data = producer
  BY DEF Init
<1>2. 0 \in 0..MaxCalls /\ 0 \in 0..MaxOps /\ Input \in Addr
  BY TraceAssumption
<1>3. CASE phase = "forward"
  <2> DEFINE f == [fqn |-> Root, holds |-> {Input}]
  <2>1. frames = <<f>> /\ producer = [a \in {Input} |-> {Root}]
    BY <1>3 DEF Init
  <2>2. f \in Frame /\ f.holds = {Input}
    BY <1>2 DEF Frame, Fqn
  <2> HIDE DEF f
  <2>3. frames \in Seq(Frame) /\ Len(frames) = 1 /\ frames[1] = f /\ frames # <<>>
    BY <2>1, <2>2
  <2>4. Held(frames) = {Input}
    BY <2>2, <2>3, HeldIs
  <2>5. DOMAIN producer = {Input} /\ producer[Input] = {Root} /\ Root \in Fqn
    BY <2>1 DEF Fqn
  <2>6. TypeOK
    BY <1>1, <1>2, <1>3, <2>3, <2>4, <2>5 DEF TypeOK, Phases
  <2>7. Followed /\ Evidence /\ Sound
    BY <1>1, <1>3, <2>3, <2>4, <2>5 DEF Followed, Evidence, Sound
  <2> QED BY <2>6, <2>7 DEF IInv
<1>4. CASE phase = "nodes"
  <2>1. frames = <<>> /\ producer = <<>>
    BY <1>4 DEF Init
  <2>2. TypeOK
    BY <1>1, <1>2, <1>4, <2>1, NoFrames DEF TypeOK, Phases
  <2>3. Followed /\ Evidence /\ Sound
    BY <1>1, <1>4, <2>1, NoFrames DEF Followed, Evidence, Sound
  <2> QED BY <2>2, <2>3 DEF IInv
<1> QED BY <1>3, <1>4 DEF Init

LEMMA NextOK ==
    ASSUME IInv, [Next]_vars
    PROVE  IInv'
<1>1. CASE Forward
  BY <1>1, CallStep, ReturnStep, FinishStep, OpStep, ForgetStep DEF Forward
<1>2. CASE Commit
  BY <1>2, CommitNodeStep, CommitPortsStep, NodesDoneStep, CommitEdgeStep, ImportedStep DEF Commit
<1>3. CASE Fails
  BY <1>3, FailsStep
<1>4. CASE UNCHANGED vars
  <2>1. UNCHANGED <<phase, frames, producer, edges, exits, nodes, ported, drawn, calls, ops,
                    data, flows, looped>>
    BY <1>4 DEF vars, traced, committed
  <2>2. TypeOK' /\ Followed' /\ Evidence'
    BY <2>1 DEF IInv, TypeOK, Followed, Evidence
  <2>3. Sound'
    BY <2>1, SoundKept DEF IInv
  <2> QED BY <2>2, <2>3 DEF IInv
<1> QED BY <1>1, <1>2, <1>3, <1>4 DEF Next

\* What the tracer believes, drew and is about to draw, in every forward pass
\* and wherever the import stops (importer/torch_export.py import_model).
THEOREM Faithful == Spec => []IInv
<1>1. Init => IInv
  BY InitOK
<1>2. IInv /\ [Next]_vars => IInv'
  BY NextOK
<1> QED BY <1>1, <1>2, PTL DEF Spec

\* Only live tensors have producers, the trace speaks of modules of the model,
\* and ports follow their nodes.
THEOREM TypeCorrect == Spec => []TypeOK
<1>1. IInv => TypeOK
  BY DEF IInv
<1> QED BY <1>1, Faithful, PTL

\* Every data_flow edge the import commits is one the kernel accepts and data
\* took, although ids of dead tensors are used again (_run_forward_trace,
\* weakref.finalize), and no edge left to commit will be refused.
THEOREM NothingInvented == Spec => []DrawnIsReal
<1>1. IInv => DrawnIsReal
  <2> SUFFICES ASSUME IInv PROVE DrawnIsReal
    OBVIOUS
  <2>1. edges \subseteq {<<f[1], f[2][1]>> : f \in flows}
    <3> SUFFICES ASSUME NEW e \in edges PROVE e \in {<<f[1], f[2][1]>> : f \in flows}
      OBVIOUS
    <3>1. e = <<e[1], e[2]>>
      BY DEF IInv, TypeOK
    <3>2. <<e[1], <<e[2], "in">>>> \in flows
      BY DEF IInv, Evidence
    <3> DEFINE f == <<e[1], <<e[2], "in">>>>
    <3>3. f \in flows /\ f[1] = e[1] /\ f[2][1] = e[2]
      BY <3>2
    <3> HIDE DEF f
    <3> QED BY <3>1, <3>3
  <2>2. phase = "edges" => \A e \in Todo : Accepted(e)
    BY TodoIsReal
  <2> QED BY <2>1, <2>2 DEF DrawnIsReal, IInv, Sound
<1> QED BY <1>1, Faithful, PTL

-----------------------------------------------------------------------------
(* Joined ports                                                            *)

\* y is in every set that has x and follows the links of L.
Follows(S, L) == \A l \in L : l[1] \in S => l[2] \in S
Joins(L, x, y) == \A S : x \in S /\ Follows(S, L) => y \in S

LEMMA JoinsSelf == ASSUME NEW L, NEW x PROVE Joins(L, x, x)
BY DEF Joins

LEMMA JoinsOne == ASSUME NEW L, NEW l \in L PROVE Joins(L, l[1], l[2])
BY DEF Joins, Follows

LEMMA JoinsOn ==
    ASSUME NEW L, NEW x, NEW y, NEW z, Joins(L, x, y), Joins(L, y, z)
    PROVE  Joins(L, x, z)
BY DEF Joins

LEMMA JoinsMore ==
    ASSUME NEW L, NEW M, L \subseteq M, NEW x, NEW y, Joins(L, x, y)
    PROVE  Joins(M, x, y)
<1> SUFFICES ASSUME NEW S, x \in S, Follows(S, M) PROVE y \in S
  BY DEF Joins
<1>1. Follows(S, L)
  BY DEF Follows
<1> QED BY <1>1 DEF Joins

\* Every link of L is a way through M.
LEMMA JoinsThrough ==
    ASSUME NEW L, NEW M, \A l \in L : Joins(M, l[1], l[2]), NEW x, NEW y, Joins(L, x, y)
    PROVE  Joins(M, x, y)
<1> SUFFICES ASSUME NEW S, x \in S, Follows(S, M) PROVE y \in S
  BY DEF Joins
<1>1. Follows(S, L)
  BY DEF Follows, Joins
<1> QED BY <1>1 DEF Joins

-----------------------------------------------------------------------------
(* Reach stops growing before its last row                                 *)

LEMMA PortsFinite == IsFiniteSet(Port) /\ Cardinality(Port) \in Nat
<1>1. IsFiniteSet({Root}) /\ IsFiniteSet(Modules) /\ IsFiniteSet({"in", "out"})
  <2>1. IsFiniteSet({Root}) /\ IsFiniteSet({"in"})
    BY FS_Singleton
  <2>2. IsFiniteSet({"in"} \cup {"out"})
    BY <2>1, FS_AddElement
  <2>3. {"in"} \cup {"out"} = {"in", "out"}
    OBVIOUS
  <2> QED BY <2>1, <2>2, <2>3, TraceAssumption
<1>2. IsFiniteSet(Fqn)
  BY <1>1, FS_Union DEF Fqn
<1>3. IsFiniteSet(Port)
  BY <1>1, <1>2, FS_Product DEF Port
<1> QED BY <1>3, FS_CardinalityType

Wider(S) == S \cup {l[2] : l \in {x \in Links : x[1] \in S}}
Rows(from, p, n) == from = [i \in 0..n |-> IF i = 0 THEN {p} ELSE Wider(from[i - 1])]

LEMMA RowsExist ==
    ASSUME NEW p, NEW n \in Nat PROVE \E from : Rows(from, p, n)
<1> DEFINE S == {m \in Nat : ~ \E from : Rows(from, p, m)}
<1> SUFFICES ASSUME S # {} PROVE FALSE
  OBVIOUS
<1>1. PICK m \in S : \A y \in S : m <= y
  BY Least
<1>2. CASE m = 0
  <2> DEFINE from == [i \in 0..0 |-> {p}]
  <2>1. Rows(from, p, 0)
    BY DEF Rows
  <2> QED BY <1>2, <2>1
<1>3. CASE m # 0
  <2>1. m - 1 \in Nat /\ m - 1 \notin S
    BY <1>1, <1>3
  <2>2. PICK from : Rows(from, p, m - 1)
    BY <2>1
  <2> DEFINE longer == [i \in 0..m |-> IF i = m THEN Wider(from[m - 1]) ELSE from[i]]
  <2>3. \A i \in 0..(m - 1) : from[i] = IF i = 0 THEN {p} ELSE Wider(from[i - 1])
    BY <2>2 DEF Rows
  <2>4. ASSUME NEW i \in 0..m
        PROVE  longer[i] = IF i = 0 THEN {p} ELSE Wider(longer[i - 1])
    <3>1. CASE i = m
      <4>1. i # 0 /\ i - 1 \in 0..m /\ i - 1 # m /\ longer[i - 1] = from[m - 1]
        BY <2>1, <3>1
      <4> QED BY <3>1, <4>1
    <3>2. CASE i # m /\ i # 0
      <4>1. i \in 0..(m - 1) /\ i - 1 \in 0..m /\ i - 1 # m
        BY <2>1, <3>2
      <4>2. longer[i] = from[i] /\ longer[i - 1] = from[i - 1]
        BY <3>2, <4>1
      <4> QED BY <2>3, <3>2, <4>1, <4>2
    <3>3. CASE i = 0
      <4>1. i \in 0..(m - 1) /\ i # m
        BY <2>1, <3>3
      <4> QED BY <2>3, <3>3, <4>1
    <3> QED BY <3>1, <3>2, <3>3
  <2> HIDE DEF longer
  <2>5. longer = [i \in 0..m |-> longer[i]]
    <3> QED BY DEF longer
  <2>6. Rows(longer, p, m)
    BY <2>4, <2>5 DEF Rows
  <2> QED BY <1>1, <2>6
<1> QED BY <1>2, <1>3

LEMMA ReachIs ==
    ASSUME NEW p
    PROVE  \E from : Rows(from, p, Cardinality(Port)) /\ Reach(p) = from[Cardinality(Port)]
<1> DEFINE n == Cardinality(Port)
           from == CHOOSE f : Rows(f, p, n)
<1>1. Rows(from, p, n)
  BY RowsExist, PortsFinite
<1>2. Reach(p) = from[n]
  BY DEF Reach, Rows, Wider
<1> QED BY <1>1, <1>2

LEMMA LinksArePorts ==
    ASSUME TypeOK, NEW l \in Links
    PROVE  l[1] \in Port /\ l[2] \in Port
<1>1. CASE l \in drawn
  BY <1>1 DEF TypeOK, Edge
<1>2. CASE l \in {<<<<m, "in">>, <<m, "out">>>> : m \in Fqn}
  BY <1>2 DEF Port
<1>3. CASE l \in {<<<<m, "out">>, <<m, "in">>>> : m \in looped}
  BY <1>3 DEF Port, Fqn, TypeOK
<1>4. CASE l \in {<<<<e[1], "out">>, <<e[2], "in">>>> : e \in edges \ (Across \cup Entering)}
  BY <1>4 DEF Port, Fqn, TypeOK
<1>5. CASE l \in UNION {{<<<<e[1], "out">>, <<c, "out">>>> :
                    c \in {x \in Modules : Inside(e[1], x) /\ ~Within(e[2], x)}} : e \in edges}
  BY <1>5 DEF Port, Fqn, TypeOK
<1> QED BY <1>1, <1>2, <1>3, <1>4, <1>5 DEF Links, Silent

LEMMA WiderIs ==
    ASSUME TypeOK, NEW S \in SUBSET Port
    PROVE  /\ S \subseteq Wider(S) /\ Wider(S) \in SUBSET Port
           /\ Wider(S) = S <=> Follows(S, Links)
BY LinksArePorts DEF Wider, Follows

\* A row that is not the last word has more ports than the one before.
LEMMA ReachFollows ==
    ASSUME TypeOK, NEW p \in Port
    PROVE  p \in Reach(p) /\ Follows(Reach(p), Links)
<1> DEFINE n == Cardinality(Port)
<1>1. n \in Nat /\ IsFiniteSet(Port)
  BY PortsFinite
<1>2. PICK from : Rows(from, p, n) /\ Reach(p) = from[n]
  BY ReachIs
<1>3. \A i \in 0..n : from[i] = IF i = 0 THEN {p} ELSE Wider(from[i - 1])
  BY <1>2 DEF Rows
<1> HIDE DEF n
<1> DEFINE Grows(i) == /\ from[i] \in SUBSET Port /\ p \in from[i]
                       /\ Follows(from[i], Links) \/ Cardinality(from[i]) >= i + 1
           Bad == {i \in 0..n : ~Grows(i)}
<1>4. CASE Bad # {}
  <2>1. PICK i \in Bad : \A j \in Bad : i <= j
    <3>1. Bad \in SUBSET Nat
      BY <1>1
    <3> HIDE DEF Bad
    <3> QED BY <1>4, <3>1, Least
  <2>2. i \in 0..n /\ ~Grows(i)
    OBVIOUS
  <2>3. CASE i = 0
    <3>1. from[0] = {p}
      BY <1>1, <1>3
    <3>2. Cardinality({p}) = 1
      BY FS_Singleton
    <3> QED BY <2>2, <2>3, <3>1, <3>2
  <2>4. CASE i # 0
    <3>1. i - 1 \in 0..n /\ i - 1 \notin Bad
      BY <1>1, <2>1, <2>2, <2>4
    <3>2. Grows(i - 1) /\ from[i] = Wider(from[i - 1])
      BY <1>3, <2>2, <2>4, <3>1
    <3> DEFINE S == from[i - 1]
               W == from[i]
    <3>3. S \in SUBSET Port /\ p \in S /\ W = Wider(S)
      BY <3>2
    <3>4. S \subseteq W /\ W \in SUBSET Port /\ (W = S <=> Follows(S, Links))
      BY <3>3, WiderIs
    <3>5. Follows(S, Links) \/ Cardinality(S) >= i
      BY <2>2, <3>2, <1>1
    <3>6. IsFiniteSet(W) /\ IsFiniteSet(S) /\ Cardinality(W) \in Nat /\ Cardinality(S) \in Nat
      BY <1>1, <3>3, <3>4, FS_Subset, FS_CardinalityType
    <3>7. ~(Follows(W, Links) \/ Cardinality(W) >= i + 1)
      BY <2>2, <3>3, <3>4
    <3> HIDE DEF S, W
    <3>8. W # S
      BY <3>4, <3>7
    <3>9. Cardinality(S) <= Cardinality(W) /\ Cardinality(S) # Cardinality(W)
      BY <3>4, <3>6, <3>8, FS_Subset
    <3>10. Cardinality(S) >= i
      BY <3>4, <3>5, <3>8
    <3> QED BY <1>1, <2>2, <3>6, <3>7, <3>9, <3>10
  <2> QED BY <2>3, <2>4
<1>5. CASE Bad = {}
  <2>1. Grows(n)
    BY <1>1, <1>5
  <2>2. Cardinality(from[n]) <= n
    BY <1>1, <2>1, FS_Subset DEF n
  <2>3. Cardinality(from[n]) \in Nat
    BY <1>1, <2>1, FS_Subset, FS_CardinalityType
  <2> QED BY <1>1, <1>2, <2>1, <2>2, <2>3
<1> QED BY <1>4, <1>5

LEMMA JoinedIsReached ==
    ASSUME TypeOK, NEW p \in Port, NEW q, Joins(Links, p, q)
    PROVE  q \in Reach(p)
BY ReachFollows DEF Joins

-----------------------------------------------------------------------------
(* What was traced, drawn                                                  *)

\* From a container to what is inside it, level by level.
LEMMA ChainDown ==
    ASSUME NEW M, NEW side, NEW a \in Fqn, NEW d \in Fqn, IsPrefix(a, d),
           \A p \in ChainPairs(a, d) : Joins(M, <<p[1], side>>, <<p[2], side>>)
    PROVE  Joins(M, <<a, side>>, <<d, side>>)
<1>1. /\ a \in Seq(Piece) /\ d \in Seq(Piece) /\ Len(a) \in Nat /\ Len(d) \in Nat
  BY Paths
<1>2. Len(a) <= Len(d) /\ SubSeq(d, 1, Len(a)) = a /\ SubSeq(d, 1, Len(d)) = d
  BY <1>1, SubSeqFull DEF IsPrefix
<1>3. CASE a = d
  BY <1>3, JoinsSelf
<1>4. CASE a # d
  <2>1. Inside(d, a)
    BY <1>4 DEF Inside, IsStrictPrefix
  <2> DEFINE At(i) == SubSeq(d, 1, i)
             Bad == {i \in Len(a)..Len(d) : ~Joins(M, <<a, side>>, <<At(i), side>>)}
  <2>2. ASSUME NEW i \in Len(a)..(Len(d) - 1) PROVE Joins(M, <<At(i), side>>, <<At(i + 1), side>>)
    <3>1. <<At(i), At(i + 1)>> \in ChainPairs(a, d)
      BY <2>1 DEF ChainPairs
    <3> DEFINE p == <<At(i), At(i + 1)>>
    <3>2. p \in ChainPairs(a, d) /\ p[1] = At(i) /\ p[2] = At(i + 1)
      BY <3>1
    <3> HIDE DEF p, At
    <3> QED BY <3>2
  <2>3. CASE Bad = {}
    <3>1. Len(d) \in Len(a)..Len(d) /\ At(Len(d)) = d
      BY <1>1, <1>2
    <3> HIDE DEF At
    <3> QED BY <2>3, <3>1
  <2>4. CASE Bad # {}
    <3>1. PICK i \in Bad : \A j \in Bad : i <= j
      <4>1. Bad \in SUBSET Nat
        BY <1>1
      <4> HIDE DEF Bad
      <4> QED BY <2>4, <4>1, Least
    <3>2. At(Len(a)) = a
      BY <1>2
    <3> HIDE DEF At
    <3>3. i # Len(a)
      BY <3>1, <3>2, JoinsSelf
    <3>4. /\ i - 1 \in Len(a)..(Len(d) - 1) /\ i - 1 \in Len(a)..Len(d)
          /\ i - 1 < i /\ (i - 1) + 1 = i
      BY <1>1, <3>1, <3>3
    <3>5. i - 1 \notin Bad
      <4>1. ~(i <= i - 1)
        BY <1>1, <3>1, <3>4
      <4> HIDE DEF Bad
      <4> QED BY <3>1, <4>1
    <3>6. Joins(M, <<a, side>>, <<At(i - 1), side>>) /\ Joins(M, <<At(i - 1), side>>, <<At(i), side>>)
      BY <2>2, <3>4, <3>5
    <3>7. Joins(M, <<a, side>>, <<At(i), side>>)
      BY <3>6, JoinsOn
    <3> QED BY <3>1, <3>7
  <2> QED BY <2>3, <2>4
<1> QED BY <1>3, <1>4

\* And the other way.
LEMMA ChainUp ==
    ASSUME NEW M, NEW side, NEW a \in Fqn, NEW d \in Fqn, IsPrefix(a, d),
           \A p \in ChainPairs(a, d) : Joins(M, <<p[2], side>>, <<p[1], side>>)
    PROVE  Joins(M, <<d, side>>, <<a, side>>)
<1>1. /\ a \in Seq(Piece) /\ d \in Seq(Piece) /\ Len(a) \in Nat /\ Len(d) \in Nat
  BY Paths
<1>2. Len(a) <= Len(d) /\ SubSeq(d, 1, Len(a)) = a /\ SubSeq(d, 1, Len(d)) = d
  BY <1>1, SubSeqFull DEF IsPrefix
<1>3. CASE a = d
  BY <1>3, JoinsSelf
<1>4. CASE a # d
  <2>1. Inside(d, a)
    BY <1>4 DEF Inside, IsStrictPrefix
  <2> DEFINE At(i) == SubSeq(d, 1, i)
             Bad == {i \in Len(a)..Len(d) : ~Joins(M, <<At(i), side>>, <<a, side>>)}
  <2>2. ASSUME NEW i \in Len(a)..(Len(d) - 1) PROVE Joins(M, <<At(i + 1), side>>, <<At(i), side>>)
    <3>1. <<At(i), At(i + 1)>> \in ChainPairs(a, d)
      BY <2>1 DEF ChainPairs
    <3> DEFINE p == <<At(i), At(i + 1)>>
    <3>2. p \in ChainPairs(a, d) /\ p[1] = At(i) /\ p[2] = At(i + 1)
      BY <3>1
    <3> HIDE DEF p, At
    <3> QED BY <3>2
  <2>3. CASE Bad = {}
    <3>1. Len(d) \in Len(a)..Len(d) /\ At(Len(d)) = d
      BY <1>1, <1>2
    <3> HIDE DEF At
    <3> QED BY <2>3, <3>1
  <2>4. CASE Bad # {}
    <3>1. PICK i \in Bad : \A j \in Bad : i <= j
      <4>1. Bad \in SUBSET Nat
        BY <1>1
      <4> HIDE DEF Bad
      <4> QED BY <2>4, <4>1, Least
    <3>2. At(Len(a)) = a
      BY <1>2
    <3> HIDE DEF At
    <3>3. i # Len(a)
      BY <3>1, <3>2, JoinsSelf
    <3>4. /\ i - 1 \in Len(a)..(Len(d) - 1) /\ i - 1 \in Len(a)..Len(d)
          /\ i - 1 < i /\ (i - 1) + 1 = i
      BY <1>1, <3>1, <3>3
    <3>5. i - 1 \notin Bad
      <4>1. ~(i <= i - 1)
        BY <1>1, <3>1, <3>4
      <4> HIDE DEF Bad
      <4> QED BY <3>1, <4>1
    <3>6. Joins(M, <<At(i - 1), side>>, <<a, side>>) /\ Joins(M, <<At(i), side>>, <<At(i - 1), side>>)
      BY <2>2, <3>4, <3>5
    <3>7. Joins(M, <<At(i), side>>, <<a, side>>)
      BY <3>6, JoinsOn
    <3> QED BY <3>1, <3>7
  <2> QED BY <2>3, <2>4
<1> QED BY <1>3, <1>4

\* The steps data was seen to take.
Leafs ==
    {<<RootSide(e[1]), <<e[2], "in">>>> : e \in edges}
    \cup {<<<<x[1], "out">>, <<x[2], "out">>>> : x \in exits}
    \cup {<<<<m, "in">>, <<m, "out">>>> : m \in Fqn}
    \cup {<<<<m, "out">>, <<m, "in">>>> : m \in looped}
AllDrawn == PeerEdges \cup TunnelIn \cup TunnelOut \subseteq drawn

LEMMA PrefixOfSelf ==
    ASSUME NEW m \in Fqn PROVE IsPrefix(m, m) /\ IsPrefix(Root, m)
<1>1. m \in Seq(Piece) /\ Root \in Seq(Piece) /\ Len(Root) = 0 /\ Len(m) \in Nat
  BY Paths, EmptySeq DEF Root, Fqn
<1>2. IsPrefix(m, m)
  BY <1>1, PrefixIs
<1>3. IsPrefix(Root, m)
  <2>1. Len(Root) <= Len(m) /\ \A k \in 1..Len(Root) : Root[k] = m[k]
    BY <1>1
  <2> QED BY <1>1, <2>1, PrefixIs
<1> QED BY <1>2, <1>3

LEMMA DrawnJoins ==
    ASSUME NEW d, d \in drawn \cup Silent PROVE Joins(Links, d[1], d[2])
BY JoinsOne DEF Links

\* Into a module from outside: out of the ancestor that is beside one of its
\* own, into that, and down.
LEMMA AcrossJoins ==
    ASSUME IInv, AllDrawn, NEW e \in Across
    PROVE  Joins(Links, <<e[1], "out">>, <<e[2], "in">>)
<1>1. e = <<e[1], e[2]>> /\ e[1] \in Fqn /\ e[2] \in Fqn /\ Diverge(e) /\ e \in edges
  BY DEF Across, IInv, TypeOK, Fqn
<1>2. PICK i \in 1..Len(e[1]) :
        /\ i <= Len(e[2]) /\ e[1][i] # e[2][i]
        /\ DivergingAncestors(e) = <<SubSeq(e[1], 1, i), SubSeq(e[2], 1, i)>>
  BY <1>1, Diverging
<1>3. /\ e[1] \in Seq(Piece) /\ e[2] \in Seq(Piece) /\ Len(e[1]) \in Nat /\ Len(e[2]) \in Nat
  BY <1>1, Paths
<1> DEFINE x == SubSeq(e[1], 1, i)
           y == SubSeq(e[2], 1, i)
<1>4. i \in 0..Len(e[1]) /\ i \in 0..Len(e[2])
  BY <1>2, <1>3
<1>5. x \in Fqn /\ y \in Fqn /\ IsPrefix(x, e[1]) /\ IsPrefix(y, e[2])
  BY <1>1, <1>3, <1>4, CutIsFqn, CutIsPrefix
<1>6. /\ x \in Seq(Piece) /\ Len(x) = i /\ x[i] = e[1][i]
  BY <1>2, <1>3, <1>4, Cut
<1>7. DivergingAncestors(e) = <<x, y>>
  BY <1>2
<1> HIDE DEF x, y
<1>8. Joins(Links, <<x, "out">>, <<y, "in">>)
  <2> DEFINE d == <<<<x, "out">>, <<y, "in">>>>
  <2>1. d \in PeerEdges
    BY <1>7 DEF PeerEdges, Join
  <2>2. d[1] = <<x, "out">> /\ d[2] = <<y, "in">>
    OBVIOUS
  <2> HIDE DEF d
  <2> QED BY <2>1, <2>2, DrawnJoins DEF AllDrawn
<1>9. Joins(Links, <<y, "in">>, <<e[2], "in">>)
  <2>1. ASSUME NEW p \in ChainPairs(y, e[2])
        PROVE  Joins(Links, <<p[1], "in">>, <<p[2], "in">>)
    <3> DEFINE d == <<<<p[1], "in">>, <<p[2], "in">>>>
    <3>1. DivergingAncestors(e)[2] = y
      BY <1>7
    <3>2. d \in TunnelIn
      BY <3>1 DEF TunnelIn, Join
    <3>3. d[1] = <<p[1], "in">> /\ d[2] = <<p[2], "in">>
      OBVIOUS
    <3> HIDE DEF d
    <3> QED BY <3>2, <3>3, DrawnJoins DEF AllDrawn
  <2> QED BY <1>1, <1>5, <2>1, ChainDown
<1>10. Joins(Links, <<e[1], "out">>, <<x, "out">>)
  <2>1. CASE e[1] = x
    BY <2>1, JoinsSelf
  <2>2. CASE e[1] # x
    <3>1. Inside(e[1], x)
      BY <1>5, <2>2 DEF Inside, IsStrictPrefix
    <3>2. ~Within(e[2], x)
      BY <1>2, <1>3, <1>6, PrefixIs DEF Within
    <3>3. x \in Modules
      BY <1>2, <1>3, <1>5, <1>6, EmptySeq DEF Fqn, Root
    <3> DEFINE d == <<<<e[1], "out">>, <<x, "out">>>>
    <3>4. d \in Silent
      BY <1>1, <3>1, <3>2, <3>3 DEF Silent
    <3>5. d[1] = <<e[1], "out">> /\ d[2] = <<x, "out">>
      OBVIOUS
    <3> HIDE DEF d
    <3> QED BY <3>4, <3>5, DrawnJoins
  <2> QED BY <2>1, <2>2
<1> QED BY <1>8, <1>9, <1>10, JoinsOn

LEMMA EnteringJoins ==
    ASSUME IInv, AllDrawn, NEW e \in Entering
    PROVE  Joins(Links, <<Root, "in">>, <<e[2], "in">>)
<1>1. e[2] \in Fqn /\ Root \in Fqn /\ IsPrefix(Root, e[2])
  BY PrefixOfSelf DEF Entering, IInv, TypeOK, Fqn
<1>2. ASSUME NEW p \in ChainPairs(Root, e[2])
      PROVE  Joins(Links, <<p[1], "in">>, <<p[2], "in">>)
  <2> DEFINE d == <<<<p[1], "in">>, <<p[2], "in">>>>
  <2>1. d \in TunnelIn
    BY DEF TunnelIn, Join
  <2>2. d[1] = <<p[1], "in">> /\ d[2] = <<p[2], "in">>
    OBVIOUS
  <2> HIDE DEF d
  <2> QED BY <2>1, <2>2, DrawnJoins DEF AllDrawn
<1> QED BY <1>1, <1>2, ChainDown

LEMMA ExitJoins ==
    ASSUME IInv, AllDrawn, NEW x \in exits
    PROVE  Joins(Links, <<x[1], "out">>, <<x[2], "out">>)
<1>1. x[1] \in Fqn /\ x[2] \in Fqn /\ IsPrefix(x[2], x[1])
  BY DEF IInv, TypeOK, Evidence, Fqn, Inside, IsStrictPrefix
<1>2. ASSUME NEW p \in ChainPairs(x[2], x[1])
      PROVE  Joins(Links, <<p[2], "out">>, <<p[1], "out">>)
  <2> DEFINE d == <<<<p[2], "out">>, <<p[1], "out">>>>
             q == <<p[2], p[1]>>
  <2>1. q \in {<<r[2], r[1]>> : r \in UNION {ChainPairs(z[2], z[1]) : z \in exits}}
    OBVIOUS
  <2>2. d = <<<<q[1], "out">>, <<q[2], "out">>>>
    OBVIOUS
  <2> HIDE DEF q
  <2>3. d \in TunnelOut
    BY <2>1, <2>2 DEF TunnelOut, Join
  <2>4. d[1] = <<p[2], "out">> /\ d[2] = <<p[1], "out">>
    OBVIOUS
  <2> HIDE DEF d
  <2> QED BY <2>3, <2>4, DrawnJoins DEF AllDrawn
<1> QED BY <1>1, <1>2, ChainUp

LEMMA LeafsAreDrawn ==
    ASSUME IInv, AllDrawn, NEW l \in Leafs
    PROVE  Joins(Links, l[1], l[2])
<1>1. CASE \E e \in edges : l = <<RootSide(e[1]), <<e[2], "in">>>>
  <2>1. PICK e \in edges : l = <<RootSide(e[1]), <<e[2], "in">>>>
    BY <1>1
  <2>2. l[1] = RootSide(e[1]) /\ l[2] = <<e[2], "in">>
    BY <2>1
  <2>3. CASE e \in Entering
    BY <2>2, <2>3, EnteringJoins DEF Entering, RootSide
  <2>4. CASE e \in Across
    <3>1. e[1] # Root
      <4>1. e[2] \in Fqn
        BY DEF IInv, TypeOK, Fqn
      <4> QED BY <2>4, <4>1, PrefixOfSelf DEF Across, Diverge
    <3> QED BY <2>2, <2>4, <3>1, AcrossJoins DEF RootSide
  <2>5. CASE e \notin Across \cup Entering
    <3>1. e[1] # Root
      BY <2>5 DEF Entering
    <3> DEFINE d == <<<<e[1], "out">>, <<e[2], "in">>>>
    <3>2. d \in Silent
      BY <2>5 DEF Silent
    <3>3. d[1] = l[1] /\ d[2] = l[2]
      BY <2>2, <3>1 DEF RootSide
    <3> HIDE DEF d
    <3> QED BY <3>2, <3>3, DrawnJoins
  <2> QED BY <2>3, <2>4, <2>5
<1>2. CASE l \in {<<<<x[1], "out">>, <<x[2], "out">>>> : x \in exits}
  BY <1>2, ExitJoins
<1>3. CASE l \in {<<<<m, "in">>, <<m, "out">>>> : m \in Fqn}
  BY <1>3, JoinsOne DEF Links
<1>4. CASE l \in {<<<<m, "out">>, <<m, "in">>>> : m \in looped}
  BY <1>4, JoinsOne DEF Links, Silent
<1> QED BY <1>1, <1>2, <1>3, <1>4 DEF Leafs

-----------------------------------------------------------------------------
(* What the frames and the tracer know                                     *)

\* A module calls what is inside it.
Nested ==
    \A i, j \in 1..Len(frames) : i < j => Inside(frames[j].fqn, frames[i].fqn)
\* What a call in progress holds was made inside the modules called so far, or
\* was seen to enter them.
Entered(p, m) == Within(p, m) \/ <<p, m>> \in edges
Known ==
    \A j \in 1..Len(frames) : \A a \in frames[j].holds \cap DOMAIN producer :
        \A p \in producer[a], i \in 1..j : Entered(p, frames[i].fqn)
\* Where data is from leads to what the tracer believes of the tensor.
LeadsTo(s, p) == Joins(Leafs, RootSide(s), RootSide(p))
Believed ==
    \A a \in DOMAIN data : \A s \in data[a] :
        a \in DOMAIN producer /\ \E p \in producer[a] : LeadsTo(s, p)
Told == phase # "failed" => \A f \in flows : Joins(Leafs, RootSide(f[1]), f[2])
Complete == phase = "imported" => AllDrawn

Traced == Nested /\ Known /\ Believed /\ Told /\ Complete

LEMMA LeafsGrow ==
    ASSUME edges \subseteq edges', exits \subseteq exits', looped \subseteq looped'
    PROVE  /\ Leafs \subseteq Leafs'
           /\ \A x, y : Joins(Leafs, x, y) => Joins(Leafs, x, y)'
<1>1. Leafs \subseteq Leafs'
  BY DEF Leafs
<1> QED BY <1>1, JoinsMore

LEMMA LeafOf ==
    /\ \A e \in edges : Joins(Leafs, RootSide(e[1]), <<e[2], "in">>)
    /\ \A x \in exits : Joins(Leafs, <<x[1], "out">>, <<x[2], "out">>)
    /\ \A m \in Fqn : Joins(Leafs, <<m, "in">>, <<m, "out">>)
    /\ \A m \in looped : Joins(Leafs, <<m, "out">>, <<m, "in">>)
<1>1. ASSUME NEW x, NEW y, <<x, y>> \in Leafs PROVE Joins(Leafs, x, y)
  <2> DEFINE l == <<x, y>>
  <2>1. l \in Leafs /\ l[1] = x /\ l[2] = y
    BY <1>1
  <2> HIDE DEF l
  <2> QED BY <2>1, JoinsOne
<1>2. \A e \in edges : <<RootSide(e[1]), <<e[2], "in">>>> \in Leafs
  BY DEF Leafs
<1>3. \A x \in exits : <<<<x[1], "out">>, <<x[2], "out">>>> \in Leafs
  BY DEF Leafs
<1>4. \A m \in Fqn : <<<<m, "in">>, <<m, "out">>>> \in Leafs
  BY DEF Leafs
<1>5. \A m \in looped : <<<<m, "out">>, <<m, "in">>>> \in Leafs
  BY DEF Leafs
<1> QED BY <1>1, <1>2, <1>3, <1>4, <1>5

LEMMA OutSide == ASSUME NEW m \in Modules PROVE RootSide(m) = <<m, "out">> /\ m \in Fqn
BY TraceAssumption DEF RootSide, Fqn

LEMMA InsideInside ==
    ASSUME NEW a \in Fqn, NEW b \in Fqn, NEW c \in Fqn, Inside(c, b), Inside(b, a)
    PROVE  Inside(c, a)
<1>1. /\ a \in Seq(Piece) /\ b \in Seq(Piece) /\ c \in Seq(Piece)
      /\ Len(a) \in Nat /\ Len(b) \in Nat /\ Len(c) \in Nat
  BY Paths
<1>2. IsPrefix(a, b) /\ IsPrefix(b, c) /\ a # b /\ b # c
  BY DEF Inside, IsStrictPrefix
<1>3. Len(a) <= Len(b) /\ \A k \in 1..Len(a) : a[k] = b[k]
  BY <1>1, <1>2, PrefixIs
<1>4. Len(b) <= Len(c) /\ \A k \in 1..Len(b) : b[k] = c[k]
  BY <1>1, <1>2, PrefixIs
<1>5. Len(a) <= Len(c) /\ \A k \in 1..Len(a) : a[k] = c[k]
  BY <1>1, <1>3, <1>4
<1>6. IsPrefix(a, c)
  BY <1>1, <1>5, PrefixIs
<1>7. a # c
  <2> SUFFICES ASSUME a = c PROVE FALSE
    OBVIOUS
  <2>1. Len(a) = Len(b)
    BY <1>1, <1>3, <1>4
  <2>2. a = b
    BY <1>1, <1>3, <2>1, SamePath
  <2> QED BY <1>2, <2>2
<1> QED BY <1>6, <1>7 DEF Inside, IsStrictPrefix

LEMMA WithinIs ==
    ASSUME NEW p \in Fqn, NEW m \in Fqn
    PROVE  Within(p, m) <=> p = m \/ Inside(p, m)
BY PrefixOfSelf DEF Within, Inside, IsStrictPrefix

\* The frames after tensors are added to the last.
LEMMA GetsFields ==
    ASSUME NEW fs \in Seq(Frame), fs # <<>>, NEW T \in SUBSET Addr
    PROVE  /\ Len(Gets(fs, T)) = Len(fs)
           /\ \A i \in 1..Len(fs) :
                /\ Gets(fs, T)[i].fqn = fs[i].fqn
                /\ Gets(fs, T)[i].holds = fs[i].holds \cup (IF i = Len(fs) THEN T ELSE {})
<1> DEFINE gs == Gets(fs, T)
           f == [fs[Len(fs)] EXCEPT !.holds = @ \cup T]
<1>1. Len(fs) \in 1..Len(fs) /\ fs[Len(fs)] \in Frame
  BY TopIs
<1>2. f \in Frame /\ f.holds = fs[Len(fs)].holds \cup T /\ f.fqn = fs[Len(fs)].fqn
  BY <1>1 DEF Frame
<1>3. gs = [fs EXCEPT ![Len(fs)] = f]
  BY DEF Gets
<1> HIDE DEF f, gs
<1>4. /\ Len(gs) = Len(fs) /\ gs[Len(gs)] = f
      /\ \A i \in 1..Len(fs) : i # Len(fs) => gs[i] = fs[i]
  BY <1>2, <1>3, Rehold
<1> QED BY <1>2, <1>4 DEF gs

LEMMA FrameIs ==
    ASSUME TypeOK, NEW i \in 1..Len(frames)
    PROVE  frames[i].fqn \in Fqn /\ frames[i] \in Frame /\ Len(frames) \in Nat
<1>1. frames[i] \in Frame
  BY ElementOfSeq DEF TypeOK
<1> QED BY <1>1, LenProperties DEF Frame, TypeOK

\* What the tracer believes of the tensors that are passed on.
LEMMA Sources ==
    ASSUME Believed, NEW T, NEW s \in Of(data, T)
    PROVE  \E p \in Of(producer, T) : LeadsTo(s, p)
<1>1. PICK a \in T \cap DOMAIN data : s \in data[a]
  BY DEF Of
<1>2. a \in DOMAIN producer /\ \E p \in producer[a] : LeadsTo(s, p)
  BY <1>1 DEF Believed
<1> QED BY <1>1, <1>2 DEF Of

LEMMA TopKnows ==
    ASSUME IInv, Known, phase = "forward", NEW T, T \in Some(Top.holds),
           NEW p \in Of(producer, T), NEW i \in 1..Len(frames)
    PROVE  Entered(p, frames[i].fqn) /\ p \in Fqn
<1>1. frames \in Seq(Frame) /\ frames # <<>> /\ T \subseteq Top.holds
  BY Usable
<1>2. Len(frames) \in 1..Len(frames) /\ Top = frames[Len(frames)]
  BY <1>1, TopIs DEF Top, Last
<1>3. PICK a \in T \cap DOMAIN producer : p \in producer[a]
  BY DEF Of
<1>4. p \in Fqn
  BY <1>3, ProducerIs DEF IInv
<1> QED BY <1>1, <1>2, <1>3, <1>4 DEF Known

-----------------------------------------------------------------------------
(* They keep it                                                            *)

LEMMA CallTraced ==
    ASSUME IInv, Traced, NEW m \in Modules, NEW T \in SUBSET Addr, Call(m, T)
    PROVE  Traced'
<1>1. /\ phase = "forward" /\ phase' = phase /\ T \in Some(Top.holds) /\ Inside(m, Top.fqn)
      /\ edges' = edges \cup Emitted(m, T)
      /\ frames' = Append(frames, [fqn |-> m, holds |-> T])
      /\ flows' = flows \cup (Of(data, T) \X {<<m, "in">>})
      /\ looped' = looped \cup (Of(producer, T) \cap {m})
      /\ producer' = producer /\ exits' = exits /\ data' = data
  BY DEF Call
<1>2. /\ frames \in Seq(Frame) /\ frames # <<>> /\ T \subseteq Top.holds
      /\ Of(producer, T) \subseteq Of(data, T) /\ Of(data, T) \subseteq Fqn
  BY <1>1, Usable
<1> DEFINE n == Len(frames)
           f == [fqn |-> m, holds |-> T]
<1>3. n \in 1..n /\ n \in Nat /\ Top = frames[n]
  BY <1>2, TopIs, LenProperties DEF Top, Last
<1>4. f.fqn = m /\ f.holds = T /\ frames' = Append(frames, f)
  BY <1>1
<1> HIDE DEF f
<1>5. Len(frames') = n + 1 /\ frames'[n + 1] = f /\ \A i \in 1..n : frames'[i] = frames[i]
  BY <1>2, <1>4
<1> HIDE DEF n
<1>6. Nested'
  <2> SUFFICES ASSUME NEW i \in 1..(n + 1), NEW j \in 1..(n + 1), i < j
               PROVE  Inside(frames'[j].fqn, frames'[i].fqn)
    BY <1>5 DEF Nested
  <2>1. CASE j \in 1..n
    BY <1>3, <1>5, <2>1 DEF Traced, Nested, n
  <2>2. CASE j = n + 1
    <3>1. i \in 1..n /\ frames[i].fqn \in Fqn /\ frames[n].fqn \in Fqn /\ m \in Fqn
      BY <1>3, <2>2, FrameIs DEF IInv, Fqn, n
    <3>2. i = n \/ Inside(frames[n].fqn, frames[i].fqn)
      BY <1>3, <3>1 DEF Traced, Nested, n
    <3>3. Inside(m, frames[i].fqn)
      BY <1>1, <1>3, <3>1, <3>2, InsideInside
    <3> QED BY <1>4, <1>5, <2>2, <3>1, <3>3
  <2> QED BY <1>3, <2>1, <2>2
<1>7. \A p, c : Entered(p, c) => Within(p, c) \/ <<p, c>> \in edges'
  BY <1>1 DEF Entered
<1>8. Known'
  <2> SUFFICES ASSUME NEW j \in 1..(n + 1), NEW a \in frames'[j].holds \cap DOMAIN producer,
                      NEW p \in producer[a], NEW i \in 1..j
               PROVE  Within(p, frames'[i].fqn) \/ <<p, frames'[i].fqn>> \in edges'
    BY <1>1, <1>5 DEF Known, Entered
  <2>1. CASE j \in 1..n
    <3>1. i \in 1..n
      BY <1>3, <2>1
    <3> QED BY <1>5, <1>7, <2>1, <3>1 DEF Traced, Known, n
  <2>2. CASE j = n + 1
    <3>1. a \in T /\ p \in Of(producer, T)
      BY <1>4, <1>5, <2>2 DEF Of
    <3>2. CASE i \in 1..n
      BY <1>1, <1>5, <1>7, <3>1, <3>2, TopKnows DEF Traced, n
    <3>3. CASE i = n + 1
      <4>1. frames'[i].fqn = m
        BY <1>4, <1>5, <3>3
      <4>2. p # m => <<p, m>> \in edges'
        BY <1>1, <3>1 DEF Emitted
      <4>3. Within(m, m)
        BY PrefixOfSelf DEF Within, Fqn
      <4> QED BY <4>1, <4>2, <4>3
    <3> QED BY <1>3, <2>2, <3>2, <3>3
  <2> QED BY <1>3, <2>1, <2>2
<1>9. \A x, y : Joins(Leafs, x, y) => Joins(Leafs, x, y)'
  BY <1>1, LeafsGrow
<1>10. Believed'
  BY <1>1, <1>9 DEF Traced, Believed, LeadsTo
<1>11. Told'
  <2> SUFFICES ASSUME NEW s \in Of(data, T) PROVE Joins(Leafs', RootSide(s), <<m, "in">>)
    BY <1>1, <1>9 DEF Traced, Told
  <2>1. PICK p \in Of(producer, T) : LeadsTo(s, p)
    BY Sources DEF Traced
  <2>2. Joins(Leafs', RootSide(p), <<m, "in">>)
    <3>1. CASE p = m
      <4>1. m \in looped'
        BY <1>1, <3>1
      <4>2. Joins(Leafs', <<m, "out">>, <<m, "in">>)
        <5> DEFINE l == <<<<m, "out">>, <<m, "in">>>>
        <5>1. l \in Leafs' /\ l[1] = <<m, "out">> /\ l[2] = <<m, "in">>
          BY <4>1 DEF Leafs
        <5> HIDE DEF l
        <5> QED BY <5>1, JoinsOne
      <4> QED BY <3>1, <4>2, OutSide
    <3>2. CASE p # m
      <4> DEFINE l == <<RootSide(p), <<m, "in">>>>
                 e == <<p, m>>
      <4>1. e \in edges' /\ e[1] = p /\ e[2] = m
        BY <1>1, <3>2 DEF Emitted
      <4> HIDE DEF e
      <4>2. l \in Leafs' /\ l[1] = RootSide(p) /\ l[2] = <<m, "in">>
        BY <4>1 DEF Leafs
      <4> HIDE DEF l
      <4> QED BY <4>2, JoinsOne
    <3> QED BY <3>1, <3>2
  <2>3. Joins(Leafs', RootSide(s), RootSide(p))
    BY <1>9, <2>1 DEF LeadsTo
  <2> QED BY <2>2, <2>3, JoinsOn
<1>12. Complete'
  BY <1>1 DEF Complete
<1> QED BY <1>6, <1>8, <1>10, <1>11, <1>12 DEF Traced

\* What leaves a call came from it, from inside it, or entered it.
LEMMA ReturnJoins ==
    ASSUME IInv, Traced, NEW T \in SUBSET Addr, Return(T), NEW s \in Of(data, T)
    PROVE  Joins(Leafs', RootSide(s), <<Top.fqn, "out">>)
<1> DEFINE m == Top.fqn
<1>1. /\ phase = "forward" /\ T \in Some(Top.holds) /\ Len(frames) > 1
      /\ exits' = exits \cup Leaving(m, T) /\ edges' = edges /\ looped' = looped
  BY DEF Return
<1>2. /\ frames \in Seq(Frame) /\ frames # <<>> /\ Len(frames) \in 1..Len(frames)
      /\ Top = frames[Len(frames)] /\ Len(frames) \in Nat
  BY <1>1, Usable, TopIs, LenProperties DEF Top, Last
<1>3. m \in Modules
  <2>1. 1 \in 1..Len(frames) /\ 1 < Len(frames)
    BY <1>1, <1>2
  <2>2. Inside(m, frames[1].fqn) /\ m \in Fqn /\ frames[1].fqn \in Fqn
    BY <1>2, <2>1, FrameIs DEF Traced, Nested, IInv
  <2> QED BY <2>2, BelowIsModule
<1>4. PICK p \in Of(producer, T) : LeadsTo(s, p)
  BY Sources DEF Traced
<1>5. Entered(p, m) /\ p \in Fqn
  BY <1>1, <1>2, <1>4, TopKnows DEF Traced
<1> HIDE DEF m
<1>6. \A x, y : Joins(Leafs, x, y) => Joins(Leafs', x, y)
  BY <1>1, LeafsGrow
<1>7. Joins(Leafs', RootSide(p), <<m, "out">>)
  <2>1. CASE p = m
    BY <1>3, <2>1, JoinsSelf, OutSide
  <2>2. CASE Inside(p, m)
    <3> DEFINE l == <<<<p, "out">>, <<m, "out">>>>
               x == <<p, m>>
    <3>1. x \in exits' /\ x[1] = p /\ x[2] = m
      BY <1>1, <1>4, <2>2 DEF Leaving
    <3> HIDE DEF x
    <3>2. l \in Leafs' /\ l[1] = <<p, "out">> /\ l[2] = <<m, "out">>
      BY <3>1 DEF Leafs
    <3> HIDE DEF l
    <3>3. p \in Modules
      BY <1>3, <1>5, <2>2, BelowIsModule, OutSide
    <3> QED BY <3>2, <3>3, OutSide, JoinsOne
  <2>3. CASE <<p, m>> \in edges
    <3> DEFINE e == <<p, m>>
    <3>1. e \in edges /\ e[1] = p /\ e[2] = m
      BY <2>3
    <3> HIDE DEF e
    <3>2. Joins(Leafs, RootSide(p), <<m, "in">>) /\ Joins(Leafs, <<m, "in">>, <<m, "out">>)
      BY <1>3, <3>1, LeafOf, OutSide
    <3> QED BY <1>6, <3>2, JoinsOn
  <2> QED BY <1>3, <1>5, <2>1, <2>2, <2>3, WithinIs, OutSide DEF Entered
<1>8. Joins(Leafs', RootSide(s), RootSide(p))
  BY <1>4, <1>6 DEF LeadsTo
<1> QED BY <1>7, <1>8, JoinsOn DEF m

LEMMA ReturnTraced ==
    ASSUME IInv, Traced, NEW T \in SUBSET Addr, Return(T)
    PROVE  Traced'
<1> DEFINE m == Top.fqn
           front == Front(frames)
           rest == Gets(front, T)
           came == [a \in DOMAIN data \cup T |->
                       Of(data, {a}) \cup (IF a \in T THEN {m} ELSE {})]
<1>1. /\ phase = "forward" /\ phase' = phase /\ T \in Some(Top.holds) /\ Len(frames) > 1
      /\ exits' = exits \cup Leaving(m, T)
      /\ producer' = Drop(Stamp(T, {m}), rest)
      /\ frames' = rest
      /\ data' = Restrict(came, Held(rest))
      /\ flows' = flows \cup (Of(data, T) \X {<<m, "out">>})
      /\ edges' = edges /\ looped' = looped
  BY DEF Return
<1>2. /\ frames \in Seq(Frame) /\ frames # <<>> /\ Len(frames) \in 1..Len(frames)
      /\ Top = frames[Len(frames)] /\ Len(frames) \in Nat
      /\ T \subseteq Held(frames)
  BY <1>1, Usable, TopIs, LenProperties DEF Top, Last
<1>3. /\ front \in Seq(Frame) /\ front # <<>> /\ Held(front) \subseteq Held(frames)
      /\ Len(front) = Len(frames) - 1 /\ \A i \in 1..Len(front) : front[i] = frames[i]
  <2>1. Len(frames) - 1 \in 0..Len(frames)
    BY <1>2
  <2>2. /\ Len(front) = Len(frames) - 1
        /\ \A k \in 1..(Len(frames) - 1) : front[k] = frames[k]
    BY <1>2, <2>1, Cut DEF Front
  <2> QED BY <1>1, <1>2, <2>2, FrontIs
<1> HIDE DEF front
<1>4. /\ Len(rest) = Len(front)
      /\ \A i \in 1..Len(front) :
            /\ rest[i].fqn = frames[i].fqn
            /\ rest[i].holds = frames[i].holds \cup (IF i = Len(front) THEN T ELSE {})
      /\ Held(rest) = Held(front) \cup T /\ rest \in Seq(Frame)
  BY <1>3, GetsFields, GetsIs
<1>5. DOMAIN data = Held(frames)
  BY <1>1 DEF IInv, Followed
<1> HIDE DEF rest, m
<1>6. /\ DOMAIN data' = Held(rest) /\ Held(rest) \subseteq DOMAIN data
      /\ \A a \in Held(rest) : data'[a] = data[a] \cup (IF a \in T THEN {m} ELSE {})
  <2>1. \A a \in DOMAIN data : Of(data, {a}) = data[a]
    BY DEF Of
  <2>2. Held(rest) \subseteq DOMAIN data
    BY <1>2, <1>3, <1>4, <1>5
  <2>3. \A a \in Held(rest) : a \in DOMAIN came /\ data'[a] = came[a]
    BY <1>1, <2>2 DEF Restrict
  <2>4. DOMAIN data' = Held(rest)
    BY <1>1, <2>2 DEF Restrict
  <2> QED BY <2>1, <2>2, <2>3, <2>4
<1> HIDE DEF came
<1>7. /\ DOMAIN producer' = (DOMAIN producer \cup T) \cap Held(rest)
      /\ \A a \in DOMAIN producer' : producer'[a] = IF a \in T THEN {m} ELSE producer[a]
  <2> DEFINE st == Stamp(T, {m})
  <2>1. /\ DOMAIN st = DOMAIN producer \cup T
        /\ \A a \in DOMAIN st : st[a] = IF a \in T THEN {m} ELSE producer[a]
    BY DEF Stamp
  <2>2. producer' = Drop(st, rest)
    BY <1>1
  <2> HIDE DEF st
  <2>3. DOMAIN producer' = DOMAIN st \cap Held(rest) /\ \A a \in DOMAIN producer' : producer'[a] = st[a]
    BY <2>2, DropIs
  <2> QED BY <2>1, <2>3
<1>8. Nested'
  BY <1>1, <1>2, <1>3, <1>4 DEF Traced, Nested
<1>9. ASSUME NEW i \in 1..Len(front) PROVE Within(m, frames[i].fqn) /\ i \in 1..Len(frames)
  <2>1. i \in 1..Len(frames) /\ i < Len(frames)
    BY <1>1, <1>2, <1>3
  <2>2. Inside(m, frames[i].fqn)
    BY <1>2, <2>1 DEF Traced, Nested, m
  <2> QED BY <2>1, <2>2 DEF Within, Inside, IsStrictPrefix
<1>10. Known'
  <2> SUFFICES ASSUME NEW j \in 1..Len(front), NEW a \in rest[j].holds \cap DOMAIN producer',
                      NEW p \in producer'[a], NEW i \in 1..j
               PROVE  Entered(p, frames[i].fqn)
    <3>1. frames' = rest /\ edges' = edges
      BY <1>1
    <3>2. \A j \in 1..Len(front), i \in 1..Len(front) : i \in 1..j => rest[i].fqn = frames[i].fqn
      BY <1>4
    <3>3. \A j \in 1..Len(front) : \A i \in 1..j : i \in 1..Len(front)
      BY <1>2, <1>3
    <3> QED BY <1>4, <3>1, <3>2, <3>3 DEF Known, Entered
  <2>1. i \in 1..Len(front) /\ j \in 1..Len(frames)
    BY <1>2, <1>3
  <2>2. CASE a \in T
    BY <1>7, <1>9, <2>1, <2>2 DEF Entered
  <2>3. CASE a \notin T
    <3>1. a \in DOMAIN producer /\ p \in producer[a] /\ a \in frames[j].holds
      BY <1>4, <1>7, <2>3
    <3> QED BY <2>1, <3>1 DEF Traced, Known
  <2> QED BY <2>2, <2>3
<1>11. \A x, y : Joins(Leafs, x, y) => Joins(Leafs, x, y)'
  BY <1>1, LeafsGrow
<1>12. ASSUME NEW s \in Of(data, T) PROVE Joins(Leafs', RootSide(s), <<m, "out">>)
  BY ReturnJoins DEF m
<1>13. RootSide(m) = <<m, "out">>
  <2>1. 1 \in 1..Len(front) /\ 1 \in 1..Len(frames) /\ 1 < Len(frames)
    BY <1>1, <1>2, <1>3
  <2>2. Inside(m, frames[1].fqn) /\ m \in Fqn /\ frames[1].fqn \in Fqn
    BY <1>2, <2>1, FrameIs DEF Traced, Nested, IInv, m
  <2> QED BY <2>2, BelowIsModule, OutSide
<1>14. Believed'
  <2> SUFFICES ASSUME NEW a \in Held(rest), NEW s \in data'[a]
               PROVE  /\ a \in DOMAIN producer'
                      /\ \E p \in producer'[a] : Joins(Leafs', RootSide(s), RootSide(p))
    BY <1>6 DEF Believed, LeadsTo
  <2>1. CASE a \in T
    <3>1. a \in DOMAIN producer' /\ producer'[a] = {m}
      BY <1>7, <2>1
    <3>2. s = m \/ s \in Of(data, T)
      BY <1>6, <2>1 DEF Of
    <3> QED BY <1>12, <1>13, <3>1, <3>2, JoinsSelf
  <2>2. CASE a \notin T
    <3>1. s \in data[a] /\ a \in DOMAIN data
      BY <1>6, <2>2
    <3>2. a \in DOMAIN producer /\ \E p \in producer[a] : LeadsTo(s, p)
      BY <3>1 DEF Traced, Believed
    <3>3. a \in DOMAIN producer' /\ producer'[a] = producer[a]
      BY <1>7, <2>2, <3>2
    <3> QED BY <1>11, <3>2, <3>3 DEF LeadsTo
  <2> QED BY <2>1, <2>2
<1>15. Told'
  BY <1>1, <1>11, <1>12 DEF Traced, Told
<1>16. Complete'
  BY <1>1 DEF Complete
<1> QED BY <1>8, <1>10, <1>14, <1>15, <1>16 DEF Traced

LEMMA OpTraced ==
    ASSUME IInv, Traced, NEW T \in SUBSET Addr, NEW out \in Addr, Op(T, out)
    PROVE  Traced'
<1> DEFINE srcs == Of(producer, T)
<1>1. /\ phase = "forward" /\ phase' = phase /\ T \in Some(Top.holds)
      /\ out \in T \/ out \notin Held(frames)
      /\ producer' = Stamp({out}, srcs)
      /\ frames' = Gets(frames, {out})
      /\ data' = [a \in DOMAIN data \cup {out} |-> IF a = out THEN Of(data, T) ELSE data[a]]
      /\ edges' = edges /\ exits' = exits /\ flows' = flows /\ looped' = looped
  BY DEF Op
<1>2. /\ frames \in Seq(Frame) /\ frames # <<>> /\ Len(frames) \in Nat /\ T \subseteq Held(frames)
  BY <1>1, Usable, LenProperties
<1>3. /\ Len(frames') = Len(frames)
      /\ \A i \in 1..Len(frames) :
            /\ frames'[i].fqn = frames[i].fqn
            /\ frames'[i].holds = frames[i].holds \cup (IF i = Len(frames) THEN {out} ELSE {})
  BY <1>1, <1>2, GetsFields
<1>4. DOMAIN producer \subseteq Held(frames)
  BY <1>1 DEF IInv, TypeOK
<1>5. out \in DOMAIN producer => srcs # {}
  <2> SUFFICES ASSUME out \in DOMAIN producer PROVE srcs # {}
    OBVIOUS
  <2>1. out \in T /\ producer[out] # {}
    BY <1>1, <1>4, ProducerIs DEF IInv
  <2> QED BY <2>1 DEF Of
<1>6. /\ srcs # {} => DOMAIN producer' = DOMAIN producer \cup {out} /\ producer'[out] = srcs
      /\ srcs = {} => producer' = producer /\ out \notin DOMAIN producer
      /\ \A a \in DOMAIN producer' : a # out => a \in DOMAIN producer /\ producer'[a] = producer[a]
      /\ DOMAIN producer \subseteq DOMAIN producer'
  <2> HIDE DEF srcs
  <2> QED BY <1>1, <1>5 DEF Stamp
<1>7. Nested'
  BY <1>2, <1>3 DEF Traced, Nested
<1>8. Known'
  <2> SUFFICES ASSUME NEW j \in 1..Len(frames), NEW a \in frames'[j].holds \cap DOMAIN producer',
                      NEW p \in producer'[a], NEW i \in 1..j
               PROVE  Entered(p, frames[i].fqn)
    <3>1. \A j \in 1..Len(frames) : \A i \in 1..j : frames'[i].fqn = frames[i].fqn
      BY <1>2, <1>3
    <3>2. edges' = edges /\ Len(frames') = Len(frames)
      BY <1>1, <1>3
    <3> QED BY <3>1, <3>2 DEF Known, Entered
  <2>1. i \in 1..Len(frames)
    BY <1>2
  <2>2. CASE a = out
    <3>1. p \in Of(producer, T)
      BY <1>6, <2>2
    <3> QED BY <1>1, <2>1, <3>1, TopKnows DEF Traced
  <2>3. CASE a # out
    <3>1. a \in DOMAIN producer /\ p \in producer[a] /\ a \in frames[j].holds
      BY <1>3, <1>6, <2>3
    <3> QED BY <3>1 DEF Traced, Known
  <2> QED BY <2>2, <2>3
<1> HIDE DEF srcs
<1>9. Leafs' = Leafs
  BY <1>1 DEF Leafs
<1>10. Believed'
  <2> SUFFICES ASSUME NEW a \in DOMAIN data', NEW s \in data'[a]
               PROVE  a \in DOMAIN producer' /\ \E p \in producer'[a] : LeadsTo(s, p)
    BY <1>9 DEF Believed, LeadsTo
  <2>1. CASE a = out
    <3>1. s \in Of(data, T)
      BY <1>1, <2>1
    <3>2. PICK p \in srcs : LeadsTo(s, p)
      BY <3>1, Sources DEF Traced, srcs
    <3> QED BY <1>6, <2>1, <3>2
  <2>2. CASE a # out
    <3>1. a \in DOMAIN data /\ s \in data[a]
      BY <1>1, <2>2
    <3>2. a \in DOMAIN producer /\ \E p \in producer[a] : LeadsTo(s, p)
      BY <3>1 DEF Traced, Believed
    <3> QED BY <1>6, <2>2, <3>2
  <2> QED BY <2>1, <2>2
<1>11. Told' /\ Complete'
  BY <1>1, <1>9 DEF Traced, Told, Complete
<1> QED BY <1>7, <1>8, <1>10, <1>11 DEF Traced

LEMMA ForgetTraced ==
    ASSUME IInv, Traced, NEW t \in Addr, Forget(t)
    PROVE  Traced'
<1> DEFINE fewer == [frames EXCEPT ![Len(frames)].holds = @ \ {t}]
           f == [frames[Len(frames)] EXCEPT !.holds = @ \ {t}]
<1>1. /\ phase = "forward" /\ phase' = phase
      /\ frames' = fewer
      /\ producer' = Drop(producer, fewer)
      /\ data' = Restrict(data, Held(fewer))
      /\ edges' = edges /\ exits' = exits /\ flows' = flows /\ looped' = looped
  BY DEF Forget
<1>2. frames \in Seq(Frame) /\ frames # <<>> /\ DOMAIN data = Held(frames) /\ Len(frames) \in Nat
  BY <1>1, LenProperties DEF IInv, TypeOK, Followed
<1>3. Len(frames) \in 1..Len(frames) /\ frames[Len(frames)] \in Frame
  BY <1>2, TopIs
<1>4. /\ f \in Frame /\ f.fqn = frames[Len(frames)].fqn
      /\ f.holds \subseteq frames[Len(frames)].holds
  BY <1>3 DEF Frame
<1>5. fewer = [frames EXCEPT ![Len(frames)] = f]
  OBVIOUS
<1>6. Held(fewer) \subseteq Held(frames)
  BY <1>2, FewerIs
<1> HIDE DEF f, fewer
<1>7. /\ Len(frames') = Len(frames)
      /\ \A i \in 1..Len(frames) :
            frames'[i].fqn = frames[i].fqn /\ frames'[i].holds \subseteq frames[i].holds
  <2>1. /\ Len(fewer) = Len(frames) /\ fewer[Len(fewer)] = f
        /\ \A i \in 1..Len(frames) : i # Len(frames) => fewer[i] = frames[i]
    BY <1>2, <1>4, <1>5, Rehold
  <2> QED BY <1>1, <1>4, <2>1
<1>8. /\ DOMAIN producer' = DOMAIN producer \cap Held(fewer)
      /\ \A a \in DOMAIN producer' : producer'[a] = producer[a]
  BY <1>1, DropIs
<1>9. DOMAIN data' = Held(fewer) /\ \A a \in DOMAIN data' : a \in DOMAIN data /\ data'[a] = data[a]
  BY <1>1, <1>2, <1>6 DEF Restrict
<1>10. Nested'
  BY <1>2, <1>7 DEF Traced, Nested
<1>11. Known'
  <2> SUFFICES ASSUME NEW j \in 1..Len(frames), NEW a \in frames'[j].holds \cap DOMAIN producer',
                      NEW p \in producer'[a], NEW i \in 1..j
               PROVE  Entered(p, frames[i].fqn)
    <3>1. \A j \in 1..Len(frames) : \A i \in 1..j : frames'[i].fqn = frames[i].fqn
      BY <1>2, <1>7
    <3>2. edges' = edges /\ Len(frames') = Len(frames)
      BY <1>1, <1>7
    <3> QED BY <3>1, <3>2 DEF Known, Entered
  <2>1. a \in frames[j].holds \cap DOMAIN producer /\ p \in producer[a]
    BY <1>7, <1>8
  <2> QED BY <2>1 DEF Traced, Known
<1>12. Leafs' = Leafs
  BY <1>1 DEF Leafs
<1>13. Believed'
  <2> SUFFICES ASSUME NEW a \in DOMAIN data', NEW s \in data'[a]
               PROVE  a \in DOMAIN producer' /\ \E p \in producer'[a] : LeadsTo(s, p)
    BY <1>12 DEF Believed, LeadsTo
  <2>1. a \in DOMAIN producer /\ \E p \in producer[a] : LeadsTo(s, p)
    BY <1>9 DEF Traced, Believed
  <2> QED BY <1>8, <1>9, <2>1
<1>14. Told' /\ Complete'
  BY <1>1, <1>12 DEF Traced, Told, Complete
<1> QED BY <1>10, <1>11, <1>13, <1>14 DEF Traced

LEMMA NoFramesKnow ==
    ASSUME frames = <<>>, data = <<>>
    PROVE  Nested /\ Known /\ Believed
<1>1. 1..Len(<<>>) = {} /\ DOMAIN <<>> = {}
  BY EmptySeq
<1> QED BY <1>1 DEF Nested, Known, Believed

LEMMA FinishTraced ==
    ASSUME IInv, Traced, NEW T \in SUBSET Addr, Finish(T)
    PROVE  Traced'
<1>1. /\ phase = "forward" /\ phase' = "nodes" /\ T \in Some(Top.holds)
      /\ exits' = exits \cup Leaving(Root, T)
      /\ flows' = flows \cup (Of(data, T) \X {<<Root, "out">>})
      /\ frames' = <<>> /\ data' = <<>> /\ edges' = edges /\ looped' = looped
  BY DEF Finish
<1>2. Nested' /\ Known' /\ Believed'
  <2>1. 1..Len(<<>>) = {} /\ DOMAIN <<>> = {}
    BY EmptySeq
  <2> QED BY <1>1, <2>1 DEF Nested, Known, Believed
<1>3. \A x, y : Joins(Leafs, x, y) => Joins(Leafs, x, y)'
  BY <1>1, LeafsGrow
<1>4. Of(producer, T) \subseteq Fqn /\ Root \in Fqn
  BY <1>1, Usable DEF Fqn
<1>5. ASSUME NEW s \in Of(data, T) PROVE Joins(Leafs', RootSide(s), <<Root, "out">>)
  <2>1. PICK p \in Of(producer, T) : LeadsTo(s, p)
    BY Sources DEF Traced
  <2>2. Joins(Leafs', RootSide(p), <<Root, "out">>)
    <3>1. CASE p = Root
      <4>1. Joins(Leafs, <<Root, "in">>, <<Root, "out">>)
        BY <1>4, LeafOf
      <4> QED BY <1>3, <3>1, <4>1 DEF RootSide
    <3>2. CASE p # Root
      <4>1. Inside(p, Root) /\ p \in Modules
        BY <1>4, <3>2, PrefixOfSelf DEF Inside, IsStrictPrefix, Fqn
      <4> DEFINE l == <<<<p, "out">>, <<Root, "out">>>>
                 x == <<p, Root>>
      <4>2. x \in exits' /\ x[1] = p /\ x[2] = Root
        BY <1>1, <4>1 DEF Leaving
      <4> HIDE DEF x
      <4>3. l \in Leafs' /\ l[1] = <<p, "out">> /\ l[2] = <<Root, "out">>
        BY <4>2 DEF Leafs
      <4> HIDE DEF l
      <4> QED BY <4>1, <4>3, OutSide, JoinsOne
    <3> QED BY <3>1, <3>2
  <2>3. Joins(Leafs', RootSide(s), RootSide(p))
    BY <1>3, <2>1 DEF LeadsTo
  <2> QED BY <2>2, <2>3, JoinsOn
<1>6. Told' /\ Complete'
  BY <1>1, <1>3, <1>5 DEF Traced, Told, Complete
<1> QED BY <1>2, <1>6 DEF Traced

LEMMA CommitTraced ==
    ASSUME IInv, Traced, Commit \/ UNCHANGED vars
    PROVE  Traced'
<1>1. UNCHANGED <<frames, producer, edges, exits, data, flows, looped>>
  BY DEF Commit, CommitNode, CommitPorts, NodesDone, CommitEdge, Imported, vars, traced
<1>2. Leafs' = Leafs
  BY <1>1 DEF Leafs
<1>3. Nested' /\ Known' /\ Believed'
  BY <1>1, <1>2 DEF Traced, Nested, Known, Entered, Believed, LeadsTo
<1>4. Told'
  <2>1. phase' # "failed" => phase # "failed"
    BY DEF Commit, CommitNode, CommitPorts, NodesDone, CommitEdge, Imported, vars
  <2> QED BY <1>1, <1>2, <2>1 DEF Traced, Told
<1>5. Complete'
  <2> SUFFICES ASSUME phase' = "imported" PROVE AllDrawn'
    BY DEF Complete
  <2>1. Imported \/ UNCHANGED vars
    BY DEF Commit, CommitNode, CommitPorts, NodesDone, CommitEdge
  <2>2. AllDrawn /\ drawn' = drawn
    <3>1. CASE UNCHANGED vars
      BY <3>1 DEF Traced, Complete, vars, committed
    <3>2. CASE Imported
      <4>1. Todo = {} /\ drawn' = drawn
        BY <3>2 DEF Imported, committed
      <4>2. PeerEdges \ drawn = {} /\ TunnelIn \ drawn = {} /\ TunnelOut \ drawn = {}
        BY <4>1 DEF Todo
      <4> QED BY <4>1, <4>2 DEF AllDrawn
    <3> QED BY <2>1, <3>1, <3>2
  <2>3. PeerEdges' = PeerEdges /\ TunnelIn' = TunnelIn /\ TunnelOut' = TunnelOut
    BY <1>1 DEF PeerEdges, TunnelIn, TunnelOut, Across, Entering
  <2> QED BY <2>2, <2>3 DEF AllDrawn
<1> QED BY <1>3, <1>4, <1>5 DEF Traced

LEMMA FailsTraced ==
    ASSUME Fails
    PROVE  Traced'
<1>1. phase' = "failed" /\ frames' = <<>> /\ data' = <<>>
  BY DEF Fails
<1>2. 1..Len(<<>>) = {} /\ DOMAIN <<>> = {}
  BY EmptySeq
<1> QED BY <1>1, <1>2 DEF Traced, Nested, Known, Believed, Told, Complete

LEMMA InitTraced ==
    ASSUME Init
    PROVE  Traced
<1>1. /\ edges = {} /\ flows = {} /\ data = producer /\ phase \in {"forward", "nodes"}
  BY DEF Init
<1>2. Told /\ Complete
  BY <1>1 DEF Told, Complete
<1>3. CASE phase = "forward"
  <2> DEFINE f == [fqn |-> Root, holds |-> {Input}]
  <2>1. frames = <<f>> /\ producer = [a \in {Input} |-> {Root}] /\ f.fqn = Root
    BY <1>3 DEF Init
  <2> HIDE DEF f
  <2>2. Len(frames) = 1 /\ frames[1].fqn = Root
    BY <2>1
  <2>3. 1..1 = {1}
    OBVIOUS
  <2>4. Nested
    BY <2>2, <2>3 DEF Nested
  <2>5. Within(Root, Root)
    BY PrefixOfSelf DEF Within, Fqn
  <2>6. Known
    BY <2>1, <2>2, <2>3, <2>5 DEF Known, Entered
  <2>7. Believed
    BY <1>1, <2>1, JoinsSelf DEF Believed, LeadsTo
  <2> QED BY <1>2, <2>4, <2>6, <2>7 DEF Traced
<1>4. CASE phase = "nodes"
  BY <1>1, <1>2, <1>4, NoFramesKnow DEF Init, Traced
<1> QED BY <1>1, <1>3, <1>4

LEMMA TracedAlways == Spec => []Traced
<1>1. Init => Traced
  BY InitTraced
<1>2. IInv /\ Traced /\ [Next]_vars => Traced'
  BY CallTraced, ReturnTraced, OpTraced, ForgetTraced, FinishTraced, CommitTraced, FailsTraced
     DEF Next, Forward
<1> QED BY <1>1, <1>2, Faithful, PTL DEF Spec

\* When the import is done, all data that reached a module or left one is joined,
\* by edges drawn and through the modules on its way, to the module it came out
\* of, but for what the drawing leaves out (Silent): for every tree of modules and
\* every forward pass (import_model: hooks, _diverging_ancestors, _chain_pairs).
THEOREM NothingLost == Spec => []FlowsAreDrawn
<1>1. IInv /\ Traced => FlowsAreDrawn
  <2> SUFFICES ASSUME IInv, Traced, phase = "imported", NEW f \in flows
               PROVE  f[2] \in Reach(RootSide(f[1]))
    BY DEF FlowsAreDrawn
  <2>1. Joins(Leafs, RootSide(f[1]), f[2])
    BY DEF Traced, Told
  <2>2. Joins(Links, RootSide(f[1]), f[2])
    BY <2>1, LeafsAreDrawn, JoinsThrough DEF Traced, Complete
  <2>3. RootSide(f[1]) \in Port
    BY DEF RootSide, Port, IInv, TypeOK
  <2> QED BY <2>2, <2>3, JoinedIsReached DEF IInv
<1> QED BY <1>1, Faithful, TracedAlways, PTL
==============================================================================
