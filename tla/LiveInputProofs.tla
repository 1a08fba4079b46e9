---------------------------- MODULE LiveInputProofs ---------------------------
(***************************************************************************)
(* LiveInput for any consoles, ports, messages and keys, any length of a   *)
(* session and any bounds.                                                 *)
(*                                                                         *)
(* The router and its log come first.  A fold is unfolded step by step;    *)
(* what a log holds and plays when it is replayed, for any console, follows*)
(* from one entry more (LogSays), and the router agrees with the lights    *)
(* from now on, not only now (AgreesFrom).  Then the presses: a port that  *)
(* holds a note, or a press that is held, has a reason (Backed), which is  *)
(* the player's hand, an end on its way or one that was missed; each step  *)
(* takes reasons away only with what they hold (EndingKept).               *)
(***************************************************************************)
EXTENDS LiveInput, SequenceTheorems, FiniteSetTheorems, WellFoundedInduction, TLAPS

-------------------------------------------------------------------------------
(* A fold passes through a sequence of values: f[0] is where it starts,    *)
(* and f[i] is what the step makes of f[i - 1] and the i-th element.  The  *)
(* recursive function of FoldLeft exists because some set G of values is   *)
(* closed under the step, so its steps are those of a function.            *)

\* A set of numbers has a least one.
LEMMA Least ==
  ASSUME NEW T, T \subseteq Nat, T # {}
  PROVE  \E x \in T : \A y \in T : x <= y
<1> DEFINE R == OpToRel(<, Nat)
<1>1. IsWellFoundedOn(R, Nat)
  BY NatLessThanWellFounded
<1>2. \A x, y \in Nat : <<y, x>> \in R <=> y < x
  BY DEF OpToRel
<1> HIDE DEF R
<1>3. PICK x \in T : \A y \in T : ~(<<y, x>> \in R)
  BY <1>1, WFMin, Zenon
<1>4. \A y \in T : x \in Nat /\ y \in Nat /\ ~(y < x)
  BY <1>2, <1>3
<1> QED
  BY <1>4

\* What holds at 0, and at i when it holds at i - 1, holds at n.
LEMMA Reaches ==
  ASSUME NEW n \in Nat, NEW J, 0 \in J, \A i \in 1..n : i - 1 \in J => i \in J
  PROVE  \A i \in 0..n : i \in J
<1> DEFINE Bad == {i \in 0..n : i \notin J}
<1>1. SUFFICES ASSUME Bad # {} PROVE FALSE
  OBVIOUS
<1>2. Bad \subseteq Nat
  OBVIOUS
<1>3. PICK i \in Bad : \A k \in Bad : i <= k
  BY <1>1, <1>2, Least
<1>4. i \in 1..n /\ i - 1 \in 0..n /\ i - 1 \notin Bad
  BY <1>3
<1> QED
  BY <1>3, <1>4

\* The greatest of some numbers is one of them, and no other exceeds it.
LEMMA MaxIn ==
  ASSUME NEW n \in Nat, NEW s \in SUBSET (1..n), s # {}
  PROVE  Max(s) \in s /\ \A y \in s : Max(s) >= y
<1> DEFINE T == {n - y : y \in s}
<1>0. \A y \in s : y \in Nat /\ n - y \in Nat
  OBVIOUS
<1>1. T \subseteq Nat /\ T # {}
  BY <1>0
<1>2. PICK t \in T : \A y \in T : t <= y
  BY <1>1, Least
<1>3. PICK m \in s : t = n - m
  OBVIOUS
<1>4. \A y \in s : m >= y
  <2> TAKE y \in s
  <2>1. n - m <= n - y
    BY <1>2, <1>3
  <2> QED
    BY <1>0, <2>1
<1> QED
  BY <1>4 DEF Max

\* The greatest of the numbers up to n is n.
LEMMA MaxOfAll ==
  ASSUME NEW n \in Nat, NEW i \in 1..n
  PROVE  /\ 1..i \in SUBSET (1..n) /\ 1..i # {}
         /\ Max(1..i) = i /\ (1..i) \ {i} = 1..(i - 1)
<1>1. 1..i \in SUBSET (1..n) /\ i \in 1..i /\ \A y \in 1..i : i >= y
  OBVIOUS
<1>2. Max(1..i) = i
  <2>1. \A x \in 1..i : (\A y \in 1..i : x >= y) => x = i
    BY <1>1
  <2> QED
    BY <1>1, <2>1 DEF Max
<1>3. \A x : x \in (1..i) \ {i} <=> x \in 1..(i - 1)
  OBVIOUS
<1>4. (1..i) \ {i} = 1..(i - 1)
  BY <1>3, Zenon
<1> QED
  BY <1>1, <1>2, <1>4

Iterates(iter, G, n, base, step) ==
  /\ iter \in [SUBSET (1..n) -> G]
  /\ \A s \in SUBSET (1..n) :
        iter[s] = IF s = {} THEN base ELSE step[<<iter[s \ {Max(s)}], Max(s)>>]

\* A fold through a set G has the value that FoldLeft chooses.
LEMMA Iterated ==
  ASSUME NEW n \in Nat, NEW G, NEW base \in G, NEW step \in [G \X (1..n) -> G]
  PROVE  \E iter : Iterates(iter, G, n, base, step)
<1> DEFINE J == {m \in 0..n : \E iter : Iterates(iter, G, m, base, step)}
<1>1. 0 \in J
  <2> DEFINE iter == [s \in {{}} |-> base]
  <2>1. SUBSET (1..0) = {{}}
    OBVIOUS
  <2>2. Iterates(iter, G, 0, base, step)
    BY <2>1 DEF Iterates
  <2> QED
    BY <2>2
<1>2. ASSUME NEW m \in 1..n, m - 1 \in J
      PROVE  m \in J
  <2>1. PICK iter : Iterates(iter, G, m - 1, base, step)
    BY <1>2
  <2> DEFINE more == [s \in SUBSET (1..m) |->
                        IF m \in s THEN step[<<iter[s \ {m}], m>>] ELSE iter[s]]
  <2>2. m \in Nat /\ \A s \in SUBSET (1..m) : s \ {m} \in SUBSET (1..(m - 1))
    OBVIOUS
  <2>3. \A s \in SUBSET (1..m) : m \notin s => s \in SUBSET (1..(m - 1))
    OBVIOUS
  <2>4. \A s \in SUBSET (1..(m - 1)) : s \in SUBSET (1..m) /\ m \notin s
    OBVIOUS
  <2>5. more \in [SUBSET (1..m) -> G]
    <3>1. ASSUME NEW s \in SUBSET (1..m)
          PROVE  (IF m \in s THEN step[<<iter[s \ {m}], m>>] ELSE iter[s]) \in G
      <4>1. CASE m \in s
        <5>1. iter[s \ {m}] \in G
          BY <2>1, <2>2 DEF Iterates
        <5> QED
          BY <4>1, <5>1
      <4>2. CASE m \notin s
        BY <2>1, <2>3, <4>2 DEF Iterates
      <4> QED
        BY <4>1, <4>2
    <3> QED
      BY <3>1
  <2>6. ASSUME NEW s \in SUBSET (1..m)
        PROVE  more[s] = IF s = {} THEN base ELSE step[<<more[s \ {Max(s)}], Max(s)>>]
    <3>1. CASE m \in s
      <4>1. Max(s) = m
        <5>1. Max(s) \in s /\ \A y \in s : Max(s) >= y
          BY <2>2, <3>1, MaxIn
        <5>2. Max(s) \in 1..m
          BY <5>1
        <5> QED
          BY <3>1, <5>1, <5>2
      <4>2. s \ {m} \in SUBSET (1..m) /\ m \notin s \ {m}
        OBVIOUS
      <4>3. more[s \ {m}] = iter[s \ {m}]
        BY <4>2
      <4> QED
        BY <3>1, <4>1, <4>3
    <3>2. CASE m \notin s
      <4>1. s \in SUBSET (1..(m - 1)) /\ more[s] = iter[s]
        BY <2>3, <3>2
      <4>2. CASE s = {}
        BY <2>1, <4>1, <4>2 DEF Iterates
      <4>3. CASE s # {}
        <5>1. s \ {Max(s)} \in SUBSET (1..(m - 1))
          BY <4>1
        <5>2. more[s \ {Max(s)}] = iter[s \ {Max(s)}]
          BY <2>4, <5>1
        <5>3. iter[s] = step[<<iter[s \ {Max(s)}], Max(s)>>]
          BY <2>1, <4>1, <4>3 DEF Iterates
        <5> HIDE DEF more
        <5> QED
          BY <4>1, <4>3, <5>2, <5>3
      <4> QED
        BY <4>2, <4>3
    <3> QED
      BY <3>1, <3>2
  <2> HIDE DEF more
  <2>7. Iterates(more, G, m, base, step)
    BY <2>5, <2>6 DEF Iterates
  <2> QED
    BY <2>7
<1> HIDE DEF J
<1>3. n \in J
  BY <1>1, <1>2, Reaches
<1> QED
  BY <1>3 DEF J

\* The values that a fold passes through.
Passes(f, G, n, base, step) ==
  /\ f \in [0..n -> G] /\ f[0] = base
  /\ \A i \in 1..n : f[i] = step[<<f[i - 1], i>>]

Unfolds(iter, G, n, base, step) ==
  /\ n \in Nat /\ base \in G /\ step \in [G \X (1..n) -> G]
  /\ iter[{}] = base
  /\ \A s \in SUBSET (1..n) :
       s # {} /\ iter[s \ {Max(s)}] \in G
         => iter[s] = step[<<iter[s \ {Max(s)}], Max(s)>>]

\* A fold that starts in G and stays there passes through values of G.
LEMMA Climbs ==
  ASSUME NEW n, NEW G, NEW base, NEW step, NEW iter, Unfolds(iter, G, n, base, step)
  PROVE  \E f : Passes(f, G, n, base, step) /\ f[n] = iter[1..n]
<1>0. n \in Nat /\ base \in G /\ step \in [G \X (1..n) -> G]
  BY DEF Unfolds
<1> DEFINE J == {i \in 0..n : iter[1..i] \in G}
<1>1. 0 \in J
  BY <1>0, 1..0 = {} DEF Unfolds
<1>2. ASSUME NEW i \in 1..n, iter[1..(i - 1)] \in G
      PROVE  iter[1..i] = step[<<iter[1..(i - 1)], i>>] /\ iter[1..i] \in G
  <2>1. iter[1..i] = step[<<iter[1..(i - 1)], i>>]
    BY <1>0, <1>2, MaxOfAll DEF Unfolds
  <2>2. <<iter[1..(i - 1)], i>> \in G \X (1..n)
    BY <1>2
  <2> QED
    BY <1>0, <2>1, <2>2
<1>3. \A i \in 0..n : i \in J
  <2>1. ASSUME NEW i \in 1..n, i - 1 \in J
        PROVE  i \in J
    <3>1. iter[1..(i - 1)] \in G
      BY <2>1
    <3>2. iter[1..i] \in G
      BY <1>2, <3>1, Zenon
    <3>3. i \in 0..n
      BY <1>0
    <3> QED
      BY <3>2, <3>3
  <2> HIDE DEF J
  <2> QED
    BY <1>0, <1>1, <2>1, Reaches
<1> DEFINE f == [i \in 0..n |-> iter[1..i]]
<1>4. f \in [0..n -> G] /\ f[n] = iter[1..n]
  BY <1>0, <1>3
<1>5. f[0] = base
  BY <1>0, 1..0 = {} DEF Unfolds
<1>6. \A i \in 1..n : f[i] = step[<<f[i - 1], i>>]
  <2> TAKE i \in 1..n
  <2>1. i \in 0..n /\ i - 1 \in 0..n
    BY <1>0
  <2>2. f[i] = iter[1..i] /\ f[i - 1] = iter[1..(i - 1)] /\ iter[1..(i - 1)] \in G
    BY <1>3, <2>1
  <2> HIDE DEF f
  <2> QED
    BY <1>2, <2>2
<1> HIDE DEF f
<1> QED
  BY <1>4, <1>5, <1>6 DEF Passes

Answers(q, o, control, happening, value, time) ==
  IF o.control = control /\ o.happening = happening THEN Act(q, o.action, value, time) ELSE q

AnswersBy(f, G, n, p, control, happening, value, time) ==
  /\ n \in Nat /\ f \in [0..n -> G] /\ f[0] = p /\ f[n] = Answered(p, control, happening, value, time)
  /\ \A i \in 1..n : i - 1 \in 0..n /\ i \in 0..n /\ f[i] = Answers(f[i - 1], p.console.on[i], control, happening, value, time)

\* The events that answer an input, in the order of the document.
LEMMA AnsweredFold ==
  ASSUME NEW G, NEW control, NEW happening, NEW value, NEW time, NEW p, p \in G, NEW n \in Nat, DOMAIN p.console.on = 1..n,
         \A q \in G, i \in 1..n : Answers(q, p.console.on[i], control, happening, value, time) \in G
  PROVE  Answered(p, control, happening, value, time) \in G /\ \E f : AnswersBy(f, G, n, p, control, happening, value, time)
<1> DEFINE Step(q, i) == Answers(q, p.console.on[i], control, happening, value, time)
           step == [x \in G \X (1..n) |-> Step(x[1], x[2])]
           E(it) == it = [s \in SUBSET (1..n) |->
                            IF s = {} THEN p ELSE Step(it[s \ {Max(s)}], Max(s))]
           iter == CHOOSE it : E(it)
<1>1. step \in [G \X (1..n) -> G]
  OBVIOUS
<1>2. Answered(p, control, happening, value, time) = iter[1..n]
  BY DEF FoldLeft, MapThenFoldSet, Answered, Answers
<1> HIDE DEF Step
<1>3. PICK it : Iterates(it, G, n, p, step)
  BY <1>1, Iterated
<1>4. E(it)
  <2>1. ASSUME NEW s \in SUBSET (1..n)
        PROVE  it[s] = IF s = {} THEN p ELSE Step(it[s \ {Max(s)}], Max(s))
    BY <1>3, MaxIn DEF Iterates
  <2> QED
    BY <1>3, <2>1 DEF Iterates
<1>5. E(iter)
  <2> HIDE DEF E
  <2> QED
    BY <1>4
<1> HIDE DEF iter
<1>6. iter[{}] = p
  BY <1>5
<1>7. Unfolds(iter, G, n, p, step)
  <2> SUFFICES ASSUME NEW s \in SUBSET (1..n), s # {}, iter[s \ {Max(s)}] \in G
               PROVE  iter[s] = step[<<iter[s \ {Max(s)}], Max(s)>>]
    BY <1>1, <1>6 DEF Unfolds
  <2>1. Max(s) \in 1..n
    BY MaxIn
  <2>2. iter[s] = Step(iter[s \ {Max(s)}], Max(s))
    BY <1>5
  <2> QED
    BY <2>1, <2>2
<1>8. \A x \in G \X (1..n) : step[x] = Step(x[1], x[2])
  OBVIOUS
<1> HIDE DEF step, E
<1>9. PICK f : Passes(f, G, n, p, step) /\ f[n] = iter[1..n]
  BY <1>7, Climbs
<1>10. \A i \in 1..n : f[i] = Step(f[i - 1], i)
  <2> TAKE i \in 1..n
  <2>1. i - 1 \in 0..n /\ i \in 1..n
    OBVIOUS
  <2>2. <<f[i - 1], i>> \in G \X (1..n)
    BY <1>9, <2>1 DEF Passes
  <2> QED
    BY <1>8, <1>9, <2>2 DEF Passes
<1> QED
  <2>1. AnswersBy(f, G, n, p, control, happening, value, time)
    <3>1. \A i \in 1..n : i - 1 \in 0..n /\ i \in 0..n
      OBVIOUS
    <3> QED
      BY <1>2, <1>9, <1>10, <3>1 DEF Passes, Step, AnswersBy
  <2>2. Answered(p, control, happening, value, time) \in G
    BY <1>2, <1>9 DEF Passes
  <2> QED
    BY <2>1, <2>2

StopsBy(f, G, n, p, clip, time) ==
  /\ n \in Nat /\ f \in [0..n -> G] /\ f[0] = p /\ f[n] = Stop(p, clip, time)
  /\ \A i \in 1..n : i - 1 \in 0..n /\ i \in 0..n /\ f[i] = StopCopy(f[i - 1], <<clip, i>>, time)

\* The copies of a clip stop one by one.
LEMMA StopFold ==
  ASSUME NEW G, NEW clip, NEW time, NEW p, p \in G, NEW n \in Nat, p.console.copies[clip] = n,
         \A q \in G, i \in 1..n : StopCopy(q, <<clip, i>>, time) \in G
  PROVE  Stop(p, clip, time) \in G /\ \E f : StopsBy(f, G, n, p, clip, time)
<1> DEFINE Step(q, i) == StopCopy(q, <<clip, [j \in 1..n |-> j][i]>>, time)
           step == [x \in G \X (1..n) |-> Step(x[1], x[2])]
           E(it) == it = [s \in SUBSET (1..n) |->
                            IF s = {} THEN p ELSE Step(it[s \ {Max(s)}], Max(s))]
           iter == CHOOSE it : E(it)
<1>1. step \in [G \X (1..n) -> G]
  OBVIOUS
<1>2. Stop(p, clip, time) = iter[1..n]
  BY DEF FoldLeft, MapThenFoldSet, Stop
<1> HIDE DEF Step
<1>3. PICK it : Iterates(it, G, n, p, step)
  BY <1>1, Iterated
<1>4. E(it)
  <2>1. ASSUME NEW s \in SUBSET (1..n)
        PROVE  it[s] = IF s = {} THEN p ELSE Step(it[s \ {Max(s)}], Max(s))
    BY <1>3, MaxIn DEF Iterates
  <2> QED
    BY <1>3, <2>1 DEF Iterates
<1>5. E(iter)
  <2> HIDE DEF E
  <2> QED
    BY <1>4
<1> HIDE DEF iter
<1>6. iter[{}] = p
  BY <1>5
<1>7. Unfolds(iter, G, n, p, step)
  <2> SUFFICES ASSUME NEW s \in SUBSET (1..n), s # {}, iter[s \ {Max(s)}] \in G
               PROVE  iter[s] = step[<<iter[s \ {Max(s)}], Max(s)>>]
    BY <1>1, <1>6 DEF Unfolds
  <2>1. Max(s) \in 1..n
    BY MaxIn
  <2>2. iter[s] = Step(iter[s \ {Max(s)}], Max(s))
    BY <1>5
  <2> QED
    BY <2>1, <2>2
<1>8. \A x \in G \X (1..n) : step[x] = Step(x[1], x[2])
  OBVIOUS
<1> HIDE DEF step, E
<1>9. PICK f : Passes(f, G, n, p, step) /\ f[n] = iter[1..n]
  BY <1>7, Climbs
<1>10. \A i \in 1..n : f[i] = Step(f[i - 1], i)
  <2> TAKE i \in 1..n
  <2>1. i - 1 \in 0..n /\ i \in 1..n
    OBVIOUS
  <2>2. <<f[i - 1], i>> \in G \X (1..n)
    BY <1>9, <2>1 DEF Passes
  <2> QED
    BY <1>8, <1>9, <2>2 DEF Passes
<1> QED
  <2>1. StopsBy(f, G, n, p, clip, time)
    <3>1. \A i \in 1..n : i - 1 \in 0..n /\ i \in 0..n
      OBVIOUS
    <3> QED
      BY <1>2, <1>9, <1>10, <3>1 DEF Passes, Step, StopsBy
  <2>2. Stop(p, clip, time) \in G
    BY <1>2, <1>9 DEF Passes
  <2> QED
    BY <2>1, <2>2

StartsBy(f, G, n, p) ==
  /\ n \in Nat /\ f \in [0..n -> G] /\ f[0] = p /\ f[n] = StartSession(p)
  /\ \A i \in 1..n : i - 1 \in 0..n /\ i \in 0..n /\ f[i] = StartCopy(f[i - 1], <<p.console.always[i], 1>>, None, 0)

\* The clips that always play start one by one.
LEMMA StartFold ==
  ASSUME NEW G, NEW p, p \in G, NEW n \in Nat, DOMAIN p.console.always = 1..n,
         \A q \in G, i \in 1..n : StartCopy(q, <<p.console.always[i], 1>>, None, 0) \in G
  PROVE  StartSession(p) \in G /\ \E f : StartsBy(f, G, n, p)
<1> DEFINE Step(q, i) == StartCopy(q, <<p.console.always[i], 1>>, None, 0)
           step == [x \in G \X (1..n) |-> Step(x[1], x[2])]
           E(it) == it = [s \in SUBSET (1..n) |->
                            IF s = {} THEN p ELSE Step(it[s \ {Max(s)}], Max(s))]
           iter == CHOOSE it : E(it)
<1>1. step \in [G \X (1..n) -> G]
  OBVIOUS
<1>2. StartSession(p) = iter[1..n]
  BY DEF FoldLeft, MapThenFoldSet, StartSession
<1> HIDE DEF Step
<1>3. PICK it : Iterates(it, G, n, p, step)
  BY <1>1, Iterated
<1>4. E(it)
  <2>1. ASSUME NEW s \in SUBSET (1..n)
        PROVE  it[s] = IF s = {} THEN p ELSE Step(it[s \ {Max(s)}], Max(s))
    BY <1>3, MaxIn DEF Iterates
  <2> QED
    BY <1>3, <2>1 DEF Iterates
<1>5. E(iter)
  <2> HIDE DEF E
  <2> QED
    BY <1>4
<1> HIDE DEF iter
<1>6. iter[{}] = p
  BY <1>5
<1>7. Unfolds(iter, G, n, p, step)
  <2> SUFFICES ASSUME NEW s \in SUBSET (1..n), s # {}, iter[s \ {Max(s)}] \in G
               PROVE  iter[s] = step[<<iter[s \ {Max(s)}], Max(s)>>]
    BY <1>1, <1>6 DEF Unfolds
  <2>1. Max(s) \in 1..n
    BY MaxIn
  <2>2. iter[s] = Step(iter[s \ {Max(s)}], Max(s))
    BY <1>5
  <2> QED
    BY <2>1, <2>2
<1>8. \A x \in G \X (1..n) : step[x] = Step(x[1], x[2])
  OBVIOUS
<1> HIDE DEF step, E
<1>9. PICK f : Passes(f, G, n, p, step) /\ f[n] = iter[1..n]
  BY <1>7, Climbs
<1>10. \A i \in 1..n : f[i] = Step(f[i - 1], i)
  <2> TAKE i \in 1..n
  <2>1. i - 1 \in 0..n /\ i \in 1..n
    OBVIOUS
  <2>2. <<f[i - 1], i>> \in G \X (1..n)
    BY <1>9, <2>1 DEF Passes
  <2> QED
    BY <1>8, <1>9, <2>2 DEF Passes
<1> QED
  <2>1. StartsBy(f, G, n, p)
    <3>1. \A i \in 1..n : i - 1 \in 0..n /\ i \in 0..n
      OBVIOUS
    <3> QED
      BY <1>2, <1>9, <1>10, <3>1 DEF Passes, Step, StartsBy
  <2>2. StartSession(p) \in G
    BY <1>2, <1>9 DEF Passes
  <2> QED
    BY <2>1, <2>2

Replays(q, inputs, entry) ==
  IF entry.control \notin ToSet(inputs) THEN q
  ELSE Touch(q, entry.control, entry.note, entry.happening, entry.value, entry.time)

ReplaysBy(f, G, n, p, log) ==
  /\ n \in Nat /\ f \in [0..n -> G] /\ f[0] = p /\ f[n] = Resume(p, log)
  /\ \A i \in 1..n : i - 1 \in 0..n /\ i \in 0..n /\ f[i] = Replays(f[i - 1], p.console.inputs, log[i])

\* A log is replayed entry by entry.
LEMMA ResumeFold ==
  ASSUME NEW G, NEW log, NEW p, p \in G, NEW n \in Nat, DOMAIN log = 1..n,
         \A q \in G, i \in 1..n : Replays(q, p.console.inputs, log[i]) \in G
  PROVE  Resume(p, log) \in G /\ \E f : ReplaysBy(f, G, n, p, log)
<1> DEFINE Step(q, i) == Replays(q, p.console.inputs, log[i])
           step == [x \in G \X (1..n) |-> Step(x[1], x[2])]
           E(it) == it = [s \in SUBSET (1..n) |->
                            IF s = {} THEN p ELSE Step(it[s \ {Max(s)}], Max(s))]
           iter == CHOOSE it : E(it)
<1>1. step \in [G \X (1..n) -> G]
  OBVIOUS
<1>2. Resume(p, log) = iter[1..n]
  BY DEF FoldLeft, MapThenFoldSet, Resume, Replays
<1> HIDE DEF Step
<1>3. PICK it : Iterates(it, G, n, p, step)
  BY <1>1, Iterated
<1>4. E(it)
  <2>1. ASSUME NEW s \in SUBSET (1..n)
        PROVE  it[s] = IF s = {} THEN p ELSE Step(it[s \ {Max(s)}], Max(s))
    BY <1>3, MaxIn DEF Iterates
  <2> QED
    BY <1>3, <2>1 DEF Iterates
<1>5. E(iter)
  <2> HIDE DEF E
  <2> QED
    BY <1>4
<1> HIDE DEF iter
<1>6. iter[{}] = p
  BY <1>5
<1>7. Unfolds(iter, G, n, p, step)
  <2> SUFFICES ASSUME NEW s \in SUBSET (1..n), s # {}, iter[s \ {Max(s)}] \in G
               PROVE  iter[s] = step[<<iter[s \ {Max(s)}], Max(s)>>]
    BY <1>1, <1>6 DEF Unfolds
  <2>1. Max(s) \in 1..n
    BY MaxIn
  <2>2. iter[s] = Step(iter[s \ {Max(s)}], Max(s))
    BY <1>5
  <2> QED
    BY <2>1, <2>2
<1>8. \A x \in G \X (1..n) : step[x] = Step(x[1], x[2])
  OBVIOUS
<1> HIDE DEF step, E
<1>9. PICK f : Passes(f, G, n, p, step) /\ f[n] = iter[1..n]
  BY <1>7, Climbs
<1>10. \A i \in 1..n : f[i] = Step(f[i - 1], i)
  <2> TAKE i \in 1..n
  <2>1. i - 1 \in 0..n /\ i \in 1..n
    OBVIOUS
  <2>2. <<f[i - 1], i>> \in G \X (1..n)
    BY <1>9, <2>1 DEF Passes
  <2> QED
    BY <1>8, <1>9, <2>2 DEF Passes
<1> QED
  <2>1. ReplaysBy(f, G, n, p, log)
    <3>1. \A i \in 1..n : i - 1 \in 0..n /\ i \in 0..n
      OBVIOUS
    <3> QED
      BY <1>2, <1>9, <1>10, <3>1 DEF Passes, Step, ReplaysBy
  <2>2. Resume(p, log) \in G
    BY <1>2, <1>9 DEF Passes
  <2> QED
    BY <2>1, <2>2

Releases(q, press, time) ==
  Touch([q EXCEPT !.held = Append(@, press)], press[1], press[2], "release", 0, time)

ReleasesBy(f, G, n, p, time) ==
  /\ n \in Nat /\ f \in [0..n -> G] /\ f[0] = [p EXCEPT !.held = <<>>] /\ f[n] = ReleaseAll(p, time)
  /\ \A i \in 1..n : i - 1 \in 0..n /\ i \in 0..n /\ f[i] = Releases(f[i - 1], p.held[i], time)

\* What is held is released press by press.
LEMMA ReleaseAllFold ==
  ASSUME NEW G, NEW time, NEW p, [p EXCEPT !.held = <<>>] \in G, NEW n \in Nat, DOMAIN p.held = 1..n,
         \A q \in G, i \in 1..n : Releases(q, p.held[i], time) \in G
  PROVE  ReleaseAll(p, time) \in G /\ \E f : ReleasesBy(f, G, n, p, time)
<1> DEFINE Step(q, i) == Releases(q, p.held[i], time)
           step == [x \in G \X (1..n) |-> Step(x[1], x[2])]
           E(it) == it = [s \in SUBSET (1..n) |->
                            IF s = {} THEN [p EXCEPT !.held = <<>>] ELSE Step(it[s \ {Max(s)}], Max(s))]
           iter == CHOOSE it : E(it)
<1>1. step \in [G \X (1..n) -> G]
  OBVIOUS
<1>2. ReleaseAll(p, time) = iter[1..n]
  BY DEF FoldLeft, MapThenFoldSet, ReleaseAll, Releases
<1> HIDE DEF Step
<1>3. PICK it : Iterates(it, G, n, [p EXCEPT !.held = <<>>], step)
  BY <1>1, Iterated
<1>4. E(it)
  <2>1. ASSUME NEW s \in SUBSET (1..n)
        PROVE  it[s] = IF s = {} THEN [p EXCEPT !.held = <<>>] ELSE Step(it[s \ {Max(s)}], Max(s))
    BY <1>3, MaxIn DEF Iterates
  <2> QED
    BY <1>3, <2>1 DEF Iterates
<1>5. E(iter)
  <2> HIDE DEF E
  <2> QED
    BY <1>4
<1> HIDE DEF iter
<1>6. iter[{}] = [p EXCEPT !.held = <<>>]
  BY <1>5
<1>7. Unfolds(iter, G, n, [p EXCEPT !.held = <<>>], step)
  <2> SUFFICES ASSUME NEW s \in SUBSET (1..n), s # {}, iter[s \ {Max(s)}] \in G
               PROVE  iter[s] = step[<<iter[s \ {Max(s)}], Max(s)>>]
    BY <1>1, <1>6 DEF Unfolds
  <2>1. Max(s) \in 1..n
    BY MaxIn
  <2>2. iter[s] = Step(iter[s \ {Max(s)}], Max(s))
    BY <1>5
  <2> QED
    BY <2>1, <2>2
<1>8. \A x \in G \X (1..n) : step[x] = Step(x[1], x[2])
  OBVIOUS
<1> HIDE DEF step, E
<1>9. PICK f : Passes(f, G, n, [p EXCEPT !.held = <<>>], step) /\ f[n] = iter[1..n]
  BY <1>7, Climbs
<1>10. \A i \in 1..n : f[i] = Step(f[i - 1], i)
  <2> TAKE i \in 1..n
  <2>1. i - 1 \in 0..n /\ i \in 1..n
    OBVIOUS
  <2>2. <<f[i - 1], i>> \in G \X (1..n)
    BY <1>9, <2>1 DEF Passes
  <2> QED
    BY <1>8, <1>9, <2>2 DEF Passes
<1> QED
  <2>1. ReleasesBy(f, G, n, p, time)
    <3>1. \A i \in 1..n : i - 1 \in 0..n /\ i \in 0..n
      OBVIOUS
    <3> QED
      BY <1>2, <1>9, <1>10, <3>1 DEF Passes, Step, ReleasesBy
  <2>2. ReleaseAll(p, time) \in G
    BY <1>2, <1>9 DEF Passes
  <2> QED
    BY <2>1, <2>2

KeyOf(q, c, n, happening) ==
  IF c \in Bound({"key"}, n, Keyboard)
    THEN Pressed(q, c, None, happening, IF happening = "press" THEN Full ELSE 0) ELSE q

KeysBy(f, G, n, number, happening) ==
  /\ n \in Nat /\ f \in [0..n -> G] /\ f[0] = perform /\ f[n] = Keyed(number, happening)
  /\ \A i \in 1..n : i - 1 \in 0..n /\ i \in 0..n /\ f[i] = KeyOf(f[i - 1], perform.router.console.inputs[i], number, happening)

\* A key reaches the controls in their order.
LEMMA KeyedFold ==
  ASSUME NEW G, NEW number, NEW happening, perform \in G, NEW n \in Nat, DOMAIN perform.router.console.inputs = 1..n,
         \A q \in G, i \in 1..n : KeyOf(q, perform.router.console.inputs[i], number, happening) \in G
  PROVE  Keyed(number, happening) \in G /\ \E f : KeysBy(f, G, n, number, happening)
<1> DEFINE Step(q, i) == KeyOf(q, perform.router.console.inputs[i], number, happening)
           step == [x \in G \X (1..n) |-> Step(x[1], x[2])]
           E(it) == it = [s \in SUBSET (1..n) |->
                            IF s = {} THEN perform ELSE Step(it[s \ {Max(s)}], Max(s))]
           iter == CHOOSE it : E(it)
<1>1. step \in [G \X (1..n) -> G]
  OBVIOUS
<1>2. Keyed(number, happening) = iter[1..n]
  BY DEF FoldLeft, MapThenFoldSet, Keyed, KeyOf
<1> HIDE DEF Step
<1>3. PICK it : Iterates(it, G, n, perform, step)
  BY <1>1, Iterated
<1>4. E(it)
  <2>1. ASSUME NEW s \in SUBSET (1..n)
        PROVE  it[s] = IF s = {} THEN perform ELSE Step(it[s \ {Max(s)}], Max(s))
    BY <1>3, MaxIn DEF Iterates
  <2> QED
    BY <1>3, <2>1 DEF Iterates
<1>5. E(iter)
  <2> HIDE DEF E
  <2> QED
    BY <1>4
<1> HIDE DEF iter
<1>6. iter[{}] = perform
  BY <1>5
<1>7. Unfolds(iter, G, n, perform, step)
  <2> SUFFICES ASSUME NEW s \in SUBSET (1..n), s # {}, iter[s \ {Max(s)}] \in G
               PROVE  iter[s] = step[<<iter[s \ {Max(s)}], Max(s)>>]
    BY <1>1, <1>6 DEF Unfolds
  <2>1. Max(s) \in 1..n
    BY MaxIn
  <2>2. iter[s] = Step(iter[s \ {Max(s)}], Max(s))
    BY <1>5
  <2> QED
    BY <2>1, <2>2
<1>8. \A x \in G \X (1..n) : step[x] = Step(x[1], x[2])
  OBVIOUS
<1> HIDE DEF step, E
<1>9. PICK f : Passes(f, G, n, perform, step) /\ f[n] = iter[1..n]
  BY <1>7, Climbs
<1>10. \A i \in 1..n : f[i] = Step(f[i - 1], i)
  <2> TAKE i \in 1..n
  <2>1. i - 1 \in 0..n /\ i \in 1..n
    OBVIOUS
  <2>2. <<f[i - 1], i>> \in G \X (1..n)
    BY <1>9, <2>1 DEF Passes
  <2> QED
    BY <1>8, <1>9, <2>2 DEF Passes
<1> QED
  <2>1. KeysBy(f, G, n, number, happening)
    <3>1. \A i \in 1..n : i - 1 \in 0..n /\ i \in 0..n
      OBVIOUS
    <3> QED
      BY <1>2, <1>9, <1>10, <3>1 DEF Passes, Step, KeysBy
  <2>2. Keyed(number, happening) \in G
    BY <1>2, <1>9 DEF Passes
  <2> QED
    BY <2>1, <2>2

HeardBy(q, c, port, m) ==
  IF c \notin Bound(Kinds(m), m.number, port) THEN q
  ELSE IF m.kind = "osc" THEN OscHeard(q, c, m)
  ELSE MidiHeard(q, c, port, m)

HearsBy(f, G, n, port, m) ==
  /\ n \in Nat /\ f \in [0..n -> G] /\ f[0] = perform /\ f[n] = Heard(port, m)
  /\ \A i \in 1..n : i - 1 \in 0..n /\ i \in 0..n /\ f[i] = HeardBy(f[i - 1], perform.router.console.inputs[i], port, m)

\* A message reaches the controls in their order.
LEMMA HeardFold ==
  ASSUME NEW G, NEW port, NEW m, perform \in G, NEW n \in Nat, DOMAIN perform.router.console.inputs = 1..n,
         \A q \in G, i \in 1..n : HeardBy(q, perform.router.console.inputs[i], port, m) \in G
  PROVE  Heard(port, m) \in G /\ \E f : HearsBy(f, G, n, port, m)
<1> DEFINE Step(q, i) == HeardBy(q, perform.router.console.inputs[i], port, m)
           step == [x \in G \X (1..n) |-> Step(x[1], x[2])]
           E(it) == it = [s \in SUBSET (1..n) |->
                            IF s = {} THEN perform ELSE Step(it[s \ {Max(s)}], Max(s))]
           iter == CHOOSE it : E(it)
<1>1. step \in [G \X (1..n) -> G]
  OBVIOUS
<1>2. Heard(port, m) = iter[1..n]
  BY DEF FoldLeft, MapThenFoldSet, Heard, HeardBy
<1> HIDE DEF Step
<1>3. PICK it : Iterates(it, G, n, perform, step)
  BY <1>1, Iterated
<1>4. E(it)
  <2>1. ASSUME NEW s \in SUBSET (1..n)
        PROVE  it[s] = IF s = {} THEN perform ELSE Step(it[s \ {Max(s)}], Max(s))
    BY <1>3, MaxIn DEF Iterates
  <2> QED
    BY <1>3, <2>1 DEF Iterates
<1>5. E(iter)
  <2> HIDE DEF E
  <2> QED
    BY <1>4
<1> HIDE DEF iter
<1>6. iter[{}] = perform
  BY <1>5
<1>7. Unfolds(iter, G, n, perform, step)
  <2> SUFFICES ASSUME NEW s \in SUBSET (1..n), s # {}, iter[s \ {Max(s)}] \in G
               PROVE  iter[s] = step[<<iter[s \ {Max(s)}], Max(s)>>]
    BY <1>1, <1>6 DEF Unfolds
  <2>1. Max(s) \in 1..n
    BY MaxIn
  <2>2. iter[s] = Step(iter[s \ {Max(s)}], Max(s))
    BY <1>5
  <2> QED
    BY <2>1, <2>2
<1>8. \A x \in G \X (1..n) : step[x] = Step(x[1], x[2])
  OBVIOUS
<1> HIDE DEF step, E
<1>9. PICK f : Passes(f, G, n, perform, step) /\ f[n] = iter[1..n]
  BY <1>7, Climbs
<1>10. \A i \in 1..n : f[i] = Step(f[i - 1], i)
  <2> TAKE i \in 1..n
  <2>1. i - 1 \in 0..n /\ i \in 1..n
    OBVIOUS
  <2>2. <<f[i - 1], i>> \in G \X (1..n)
    BY <1>9, <2>1 DEF Passes
  <2> QED
    BY <1>8, <1>9, <2>2 DEF Passes
<1> QED
  <2>1. HearsBy(f, G, n, port, m)
    <3>1. \A i \in 1..n : i - 1 \in 0..n /\ i \in 0..n
      OBVIOUS
    <3> QED
      BY <1>2, <1>9, <1>10, <3>1 DEF Passes, Step, HearsBy
  <2>2. Heard(port, m) \in G
    BY <1>2, <1>9 DEF Passes
  <2> QED
    BY <2>1, <2>2

LosesBy(f, G, n, port, order) ==
  /\ n \in Nat /\ f \in [0..n -> G] /\ f[0] = perform /\ f[n] = Lost(port, order)
  /\ \A i \in 1..n : i - 1 \in 0..n /\ i \in 0..n /\ f[i] = Up(f[i - 1], order[i][1], order[i][2], port)

\* A port that is lost lets its presses go one by one.
LEMMA LostFold ==
  ASSUME NEW G, NEW port, NEW order, perform \in G, NEW n \in Nat, DOMAIN order = 1..n,
         \A q \in G, i \in 1..n : Up(q, order[i][1], order[i][2], port) \in G
  PROVE  Lost(port, order) \in G /\ \E f : LosesBy(f, G, n, port, order)
<1> DEFINE Step(q, i) == Up(q, order[i][1], order[i][2], port)
           step == [x \in G \X (1..n) |-> Step(x[1], x[2])]
           E(it) == it = [s \in SUBSET (1..n) |->
                            IF s = {} THEN perform ELSE Step(it[s \ {Max(s)}], Max(s))]
           iter == CHOOSE it : E(it)
<1>1. step \in [G \X (1..n) -> G]
  OBVIOUS
<1>2. Lost(port, order) = iter[1..n]
  BY DEF FoldLeft, MapThenFoldSet, Lost
<1> HIDE DEF Step
<1>3. PICK it : Iterates(it, G, n, perform, step)
  BY <1>1, Iterated
<1>4. E(it)
  <2>1. ASSUME NEW s \in SUBSET (1..n)
        PROVE  it[s] = IF s = {} THEN perform ELSE Step(it[s \ {Max(s)}], Max(s))
    BY <1>3, MaxIn DEF Iterates
  <2> QED
    BY <1>3, <2>1 DEF Iterates
<1>5. E(iter)
  <2> HIDE DEF E
  <2> QED
    BY <1>4
<1> HIDE DEF iter
<1>6. iter[{}] = perform
  BY <1>5
<1>7. Unfolds(iter, G, n, perform, step)
  <2> SUFFICES ASSUME NEW s \in SUBSET (1..n), s # {}, iter[s \ {Max(s)}] \in G
               PROVE  iter[s] = step[<<iter[s \ {Max(s)}], Max(s)>>]
    BY <1>1, <1>6 DEF Unfolds
  <2>1. Max(s) \in 1..n
    BY MaxIn
  <2>2. iter[s] = Step(iter[s \ {Max(s)}], Max(s))
    BY <1>5
  <2> QED
    BY <2>1, <2>2
<1>8. \A x \in G \X (1..n) : step[x] = Step(x[1], x[2])
  OBVIOUS
<1> HIDE DEF step, E
<1>9. PICK f : Passes(f, G, n, perform, step) /\ f[n] = iter[1..n]
  BY <1>7, Climbs
<1>10. \A i \in 1..n : f[i] = Step(f[i - 1], i)
  <2> TAKE i \in 1..n
  <2>1. i - 1 \in 0..n /\ i \in 1..n
    OBVIOUS
  <2>2. <<f[i - 1], i>> \in G \X (1..n)
    BY <1>9, <2>1 DEF Passes
  <2> QED
    BY <1>8, <1>9, <2>2 DEF Passes
<1> QED
  <2>1. LosesBy(f, G, n, port, order)
    <3>1. \A i \in 1..n : i - 1 \in 0..n /\ i \in 0..n
      OBVIOUS
    <3> QED
      BY <1>2, <1>9, <1>10, <3>1 DEF Passes, Step, LosesBy
  <2>2. Lost(port, order) \in G
    BY <1>2, <1>9 DEF Passes
  <2> QED
    BY <2>1, <2>2

-------------------------------------------------------------------------------
(* The values a router keeps, for the console it was armed with.           *)

Press(k) == ToSet(k.inputs) \X (Numbers \cup {None})
Entry(k) == [control : ToSet(k.inputs), note : Numbers \cup {None},
             happening : {"press", "release", "move"}, value : Int, time : Int]
Copy == [started : Int, ends : Int \cup {None}]
Lights(k) == [timing : [Voices(k) -> [start : Int, duration : Int]],
              values : [Written(k) -> Int \cup {None}], marks : Seq(Int)]
Unrepeated(S) == {s \in Seq(S) : IsInjective(s)}
RouterType(k) ==
  [console : {k}, held : Unrepeated(Press(k)), log : Seq(Entry(k)),
   axes : [ToSet(k.inputs) -> Int], copies : [Voices(k) -> Copy \cup {None}],
   written : [Written(k) -> Int \cup {None}], lights : Lights(k)]

\* Acting changes what plays, and neither the inputs nor their log.
SameInputs(q, r) ==
  r.console = q.console /\ r.held = q.held /\ r.log = q.log /\ r.axes = q.axes

\* Every command keeps the type of the lights.
LEMMA LightsTyped ==
  ASSUME NEW k, NEW lights \in Lights(k), NEW time \in Int, NEW voice
  PROVE  /\ \A d \in Int \cup {None} :
              Apply(lights, [do |-> "start", voice |-> voice, duration |-> d], time) \in Lights(k)
         /\ Apply(lights, [do |-> "stop", voice |-> voice], time) \in Lights(k)
         /\ Apply(lights, [do |-> "mark"], time) \in Lights(k)
         /\ \A param : \A value \in Int :
              Apply(lights, [do |-> "set", param |-> param, value |-> value], time) \in Lights(k)
<1>0. Session \in Int
  BY RouterAssumption
<1>1. ASSUME NEW d \in Int \cup {None}
      PROVE  Apply(lights, [do |-> "start", voice |-> voice, duration |-> d], time) \in Lights(k)
  <2> DEFINE new == [start |-> time, duration |-> IF d = None THEN Session - time ELSE d]
  <2>1. new \in [start : Int, duration : Int]
    BY <1>0
  <2> HIDE DEF new
  <2>2. [lights EXCEPT !.timing[voice] = new] \in Lights(k)
    BY <2>1 DEF Lights
  <2> QED
    BY <2>2 DEF Apply, new
<1>2. Apply(lights, [do |-> "stop", voice |-> voice], time) \in Lights(k)
  <2> DEFINE d == time - lights.timing[voice].start
  <2>1. CASE voice \in Voices(k)
    <3>1. d \in Int
      BY <2>1 DEF Lights
    <3> HIDE DEF d
    <3>2. [lights EXCEPT !.timing[voice].duration = d] \in Lights(k)
      BY <2>1, <3>1 DEF Lights
    <3> QED
      BY <3>2 DEF Apply, d
  <2>2. CASE voice \notin Voices(k)
    <3>1. [lights EXCEPT !.timing[voice].duration = d] \in Lights(k)
      BY <2>2 DEF Lights
    <3> QED
      BY <3>1 DEF Apply
  <2> QED
    BY <2>1, <2>2
<1>3. Apply(lights, [do |-> "mark"], time) \in Lights(k)
  <2>1. lights.marks \in Seq(Int)
    BY DEF Lights
  <2>2. Append(lights.marks, time) \in Seq(Int)
    BY <2>1, AppendProperties
  <2>3. [lights EXCEPT !.marks = Append(lights.marks, time)] \in Lights(k)
    BY <2>2 DEF Lights
  <2> QED
    BY <2>3 DEF Apply
<1>4. ASSUME NEW param, NEW value \in Int
      PROVE  Apply(lights, [do |-> "set", param |-> param, value |-> value], time) \in Lights(k)
  BY DEF Apply, Lights
<1> QED
  BY <1>1, <1>2, <1>3, <1>4

\* Starting a voice keeps the type of the router.
LEMMA StartCopyTyped ==
  ASSUME NEW k, NEW q \in RouterType(k), NEW voice, NEW duration \in Int \cup {None},
         NEW time \in Int
  PROVE  /\ StartCopy(q, voice, duration, time) \in RouterType(k)
         /\ SameInputs(q, StartCopy(q, voice, duration, time))
<1> DEFINE copy == [started |-> time, ends |-> Ends(duration, time)]
           lights == Apply(q.lights, [do |-> "start", voice |-> voice, duration |-> duration], time)
<1>1. copy \in Copy
  BY RouterAssumption DEF Ends, Copy
<1>2. lights \in Lights(k)
  <2>1. q.lights \in Lights(k)
    BY DEF RouterType
  <2> QED
    BY <2>1, LightsTyped
<1>3. StartCopy(q, voice, duration, time) = [q EXCEPT !.copies[voice] = copy, !.lights = lights]
  BY DEF StartCopy, Sent, RouterType
<1> HIDE DEF copy, lights
<1> QED
  BY <1>1, <1>2, <1>3 DEF RouterType, SameInputs

\* So does stopping a voice,
LEMMA StopCopyTyped ==
  ASSUME NEW k, NEW q \in RouterType(k), NEW voice, NEW time \in Int
  PROVE  /\ StopCopy(q, voice, time) \in RouterType(k)
         /\ SameInputs(q, StopCopy(q, voice, time))
<1> DEFINE lights == Apply(q.lights, [do |-> "stop", voice |-> voice], time)
<1>1. lights \in Lights(k) /\ q.lights \in Lights(k)
  <2>1. q.lights \in Lights(k)
    BY DEF RouterType
  <2> QED
    BY <2>1, LightsTyped
<1>2. \/ StopCopy(q, voice, time) = [q EXCEPT !.copies[voice] = None, !.lights = lights]
      \/ StopCopy(q, voice, time) = [q EXCEPT !.copies[voice] = None]
  BY DEF StopCopy, Sent, RouterType
<1> HIDE DEF lights
<1> QED
  BY <1>1, <1>2 DEF RouterType, SameInputs

\* and stopping every voice of a clip.
LEMMA StopTyped ==
  ASSUME NEW k, NEW q \in RouterType(k), NEW clip, k.copies[clip] \in Nat, NEW time \in Int
  PROVE  Stop(q, clip, time) \in RouterType(k) /\ SameInputs(q, Stop(q, clip, time))
<1> DEFINE G == {r \in RouterType(k) : SameInputs(q, r)}
           n == k.copies[clip]
<1>1. q \in G /\ q.console = k
  BY DEF SameInputs, RouterType
<1>2. ASSUME NEW r \in G, NEW i \in 1..n
      PROVE  StopCopy(r, <<clip, i>>, time) \in G
  <2>1. r \in RouterType(k) /\ SameInputs(q, r)
    OBVIOUS
  <2> HIDE DEF G
  <2>2. StopCopy(r, <<clip, i>>, time) \in RouterType(k)
        /\ SameInputs(r, StopCopy(r, <<clip, i>>, time))
    BY <2>1, StopCopyTyped
  <2> QED
    BY <2>1, <2>2 DEF G, SameInputs
<1> HIDE DEF G
<1>3. Stop(q, clip, time) \in G
  BY <1>1, <1>2, StopFold
<1> QED
  BY <1>3 DEF G

\* A played clip lasts a number of ticks.
LEMMA LengthTyped ==
  ASSUME NEW k, NEW q \in RouterType(k), NEW action, Performs(k, action), action.do = "play",
         NEW value \in Int
  PROVE  Length(q, action, value) \in Int
<1> DEFINE scale == CASE action.by = None -> 0
                      [] action.by = "velocity" -> value
                      [] OTHER -> q.axes[action.by]
<1>1. scale \in Int
  BY DEF Performs, RouterType
<1> HIDE DEF scale
<1>2. action.shortest \in Int /\ action.longest \in Int
  BY DEF Performs
<1>3. 2 * scale * (action.longest - action.shortest) + Full \in Int
  BY <1>1, <1>2, RouterAssumption
<1>4. (2 * scale * (action.longest - action.shortest) + Full) \div (2 * Full) \in Int
  BY <1>3, RouterAssumption
<1> QED
  BY <1>2, <1>4 DEF Length, scale

\* Every action keeps the type of the router, and its inputs.
LEMMA ActTyped ==
  ASSUME NEW k \in Consoles, NEW q \in RouterType(k), NEW action, Performs(k, action),
         NEW value \in Int, NEW time \in Int
  PROVE  Act(q, action, value, time) \in RouterType(k) /\ SameInputs(q, Act(q, action, value, time))
<1>0. WellFormed(k) /\ q.console = k
  BY InputAssumption DEF RouterType
<1>1. CASE action.do = "play"
  <2>1. Length(q, action, value) \in Int
    BY <1>1, LengthTyped
  <2>2. Act(q, action, value, time)
          = StartCopy(q, <<action.clip, Position(q, action, time)>>, Length(q, action, value), time)
    BY <1>1 DEF Act
  <2> QED
    BY <2>1, <2>2, StartCopyTyped
<1>2. ASSUME action.do \in {"start", "stop", "toggle"}
      PROVE  /\ Stop(q, action.clip, time) \in RouterType(k)
             /\ SameInputs(q, Stop(q, action.clip, time))
  <2>1. k.copies[action.clip] \in Nat
    BY <1>0, <1>2 DEF Performs, WellFormed
  <2> QED
    BY <2>1, StopTyped
<1>3. /\ StartCopy(q, <<action.clip, 1>>, None, time) \in RouterType(k)
      /\ SameInputs(q, StartCopy(q, <<action.clip, 1>>, None, time))
  BY StartCopyTyped
<1>4. SameInputs(q, q)
  BY DEF SameInputs
<1>5. CASE action.do = "start"
  BY <1>3, <1>4, <1>5 DEF Act
<1>6. CASE action.do = "stop"
  BY <1>2, <1>6 DEF Act
<1>7. CASE action.do = "toggle"
  BY <1>2, <1>3, <1>7 DEF Act
<1>8. CASE action.do = "mark"
  <2> DEFINE lights == Apply(q.lights, [do |-> "mark"], time)
  <2>1. lights \in Lights(k)
    BY LightsTyped DEF RouterType
  <2>2. Act(q, action, value, time) = [q EXCEPT !.lights = lights]
    BY <1>8 DEF Act, Sent
  <2> HIDE DEF lights
  <2> QED
    BY <2>1, <2>2 DEF RouterType, SameInputs
<1>9. CASE action.do = "set"
  <2> DEFINE lights == Apply(q.lights, [do |-> "set", param |-> action.param, value |-> value], time)
  <2>1. lights \in Lights(k)
    BY LightsTyped DEF RouterType
  <2>2. \/ Act(q, action, value, time) = q
        \/ Act(q, action, value, time)
             = [q EXCEPT !.written[action.param] = value, !.lights = lights]
    BY <1>9 DEF Act, Sent, RouterType
  <2> HIDE DEF lights
  <2> QED
    BY <1>4, <2>1, <2>2 DEF RouterType, SameInputs
<1> QED
  BY <1>1, <1>5, <1>6, <1>7, <1>8, <1>9 DEF Performs

\* So do the events that answer an input.
LEMMA AnsweredTyped ==
  ASSUME NEW k \in Consoles, NEW q \in RouterType(k), NEW control, NEW happening,
         NEW value \in Int, NEW time \in Int
  PROVE  /\ Answered(q, control, happening, value, time) \in RouterType(k)
         /\ SameInputs(q, Answered(q, control, happening, value, time))
<1> DEFINE G == {r \in RouterType(k) : SameInputs(q, r)}
           n == Len(k.on)
<1>1. q \in G /\ q.console = k
  BY DEF SameInputs, RouterType
<1>2. n \in Nat /\ DOMAIN k.on = 1..n /\ \A i \in 1..n : Performs(k, k.on[i].action)
  <2>1. k.on \in Seq(ToSet(k.on)) /\ \A o \in ToSet(k.on) : Performs(k, o.action)
    BY InputAssumption DEF WellFormed
  <2> QED
    BY <2>1 DEF ToSet
<1>3. ASSUME NEW r \in G, NEW i \in 1..n
      PROVE  Answers(r, k.on[i], control, happening, value, time) \in G
  <2>1. r \in RouterType(k) /\ SameInputs(q, r)
    OBVIOUS
  <2> HIDE DEF G
  <2>2. Act(r, k.on[i].action, value, time) \in RouterType(k)
        /\ SameInputs(r, Act(r, k.on[i].action, value, time))
    BY <1>2, <2>1, ActTyped
  <2> QED
    BY <1>3, <2>1, <2>2 DEF G, SameInputs, Answers
<1> HIDE DEF G, n
<1>4. Answered(q, control, happening, value, time) \in G
  BY <1>1, <1>2, <1>3, AnsweredFold
<1> QED
  BY <1>4 DEF G

\* swap_remove takes one press away and repeats none.
LEMMA SwapRemoved ==
  ASSUME NEW S, NEW s \in Unrepeated(S), NEW e \in ToSet(s)
  PROVE  SwapRemove(s, e) \in Unrepeated(S) /\ ToSet(SwapRemove(s, e)) = ToSet(s) \ {e}
<1> DEFINE i == CHOOSE j \in DOMAIN s : s[j] = e
           n == Len(s)
           r == [s EXCEPT ![i] = s[n]]
<1>1. s \in Seq(S) /\ n \in Nat /\ DOMAIN s = 1..n /\ \A a, b \in 1..n : s[a] = s[b] => a = b
  BY DEF Unrepeated, IsInjective
<1>2. i \in 1..n /\ s[i] = e
  BY <1>1 DEF ToSet
<1> HIDE DEF i
<1>3. r \in Seq(S) /\ Len(r) = n /\ \A j \in 1..n : r[j] = IF j = i THEN s[n] ELSE s[j]
  BY <1>1, <1>2
<1>4. SwapRemove(s, e) = SubSeq(r, 1, n - 1)
  BY <1>3 DEF SwapRemove, Front, ReplaceAt, Last, i
<1> HIDE DEF r
<1> DEFINE t == SubSeq(r, 1, n - 1)
<1>5. t \in Seq(S) /\ Len(t) = n - 1 /\ \A j \in 1..(n - 1) : t[j] = r[j]
  BY <1>1, <1>2, <1>3, SubSeqProperties
<1> HIDE DEF t, n
<1>6. DOMAIN t = 1..(n - 1)
  BY <1>5
<1>7. \A j \in 1..(n - 1) : t[j] = IF j = i THEN s[n] ELSE s[j]
  BY <1>3, <1>5
<1>8. IsInjective(t)
  BY <1>1, <1>2, <1>6, <1>7 DEF IsInjective
<1>9. ToSet(t) = ToSet(s) \ {e}
  <2>1. ASSUME NEW x \in ToSet(s) \ {e}
        PROVE  x \in ToSet(t)
    <3>1. PICK j \in 1..n : s[j] = x
      BY <1>1 DEF ToSet
    <3>2. CASE j = n
      <4>1. i \in 1..(n - 1) /\ t[i] = x
        BY <1>1, <1>2, <1>7, <2>1, <3>1, <3>2
      <4> QED
        BY <1>6, <4>1 DEF ToSet
    <3>3. CASE j # n
      <4>1. j \in 1..(n - 1) /\ t[j] = x
        BY <1>1, <1>2, <1>7, <2>1, <3>1, <3>3
      <4> QED
        BY <1>6, <4>1 DEF ToSet
    <3> QED
      BY <3>2, <3>3
  <2>2. ASSUME NEW x \in ToSet(t)
        PROVE  x \in ToSet(s) \ {e}
    <3>1. PICK j \in 1..(n - 1) : t[j] = x
      BY <1>6 DEF ToSet
    <3>2. \E l \in 1..n : x = s[l] /\ l # i
      BY <1>1, <1>2, <1>7, <3>1
    <3> QED
      BY <1>1, <1>2, <3>2 DEF ToSet
  <2> QED
    BY <2>1, <2>2
<1> QED
  BY <1>4, <1>5, <1>8, <1>9 DEF Unrepeated, t, n

\* A press that was not held may be added.
LEMMA Appended ==
  ASSUME NEW S, NEW s \in Seq(S), NEW e \in S
  PROVE  /\ Append(s, e) \in Seq(S) /\ ToSet(Append(s, e)) = ToSet(s) \cup {e}
         /\ s \in Unrepeated(S) /\ e \notin ToSet(s) => Append(s, e) \in Unrepeated(S)
<1>1. /\ Append(s, e) \in Seq(S) /\ Len(Append(s, e)) = Len(s) + 1
      /\ \A i \in 1..Len(s) : Append(s, e)[i] = s[i]
      /\ Append(s, e)[Len(s) + 1] = e
  BY AppendProperties
<1>2. /\ DOMAIN s = 1..Len(s) /\ Len(s) \in Nat
      /\ DOMAIN Append(s, e) = 1..(Len(s) + 1)
  BY <1>1
<1>3. ToSet(Append(s, e)) = ToSet(s) \cup {e}
  BY <1>1, <1>2 DEF ToSet
<1>4. ASSUME s \in Unrepeated(S), e \notin ToSet(s)
      PROVE  Append(s, e) \in Unrepeated(S)
  <2> DEFINE t == Append(s, e)
  <2>1. \A i \in 1..Len(s) : t[i] = s[i] /\ s[i] # e
    BY <1>1, <1>2, <1>4 DEF ToSet
  <2>2. \A i, j \in 1..Len(s) : s[i] = s[j] => i = j
    BY <1>2, <1>4 DEF Unrepeated, IsInjective
  <2>3. DOMAIN t = 1..(Len(s) + 1) /\ t[Len(s) + 1] = e /\ t \in Seq(S)
    BY <1>1, <1>2
  <2> HIDE DEF t
  <2>4. \A i, j \in 1..(Len(s) + 1) : t[i] = t[j] => i = j
    BY <1>2, <2>1, <2>2, <2>3
  <2>5. t \in Unrepeated(S)
    BY <2>3, <2>4 DEF Unrepeated, IsInjective
  <2> QED
    BY <2>5 DEF t
<1> QED
  BY <1>1, <1>3, <1>4

\* An input that is heard leaves itself in the log.
Happening == {"press", "release", "move"}
Logging(control, note, happening, value, time) ==
  [control |-> control, note |-> note, happening |-> happening, value |-> value, time |-> time]
Stray(q, control, note, happening) ==
  \/ happening = "press" /\ <<control, note>> \in ToSet(q.held)
  \/ happening = "release" /\ <<control, note>> \notin ToSet(q.held)
Taken(q, control, note, happening, value, time) ==
  Logged(CASE happening = "press" -> [q EXCEPT !.held = Append(@, <<control, note>>)]
           [] happening = "release" -> [q EXCEPT !.held = SwapRemove(@, <<control, note>>)]
           [] happening = "move" -> [q EXCEPT !.axes[control] = value],
         control, note, happening, value, time)

\* What a heard input makes of the presses held, the axes and the log.
TakesIn(q, r, control, note, happening, value, time) ==
  /\ r.console = q.console
  /\ r.log = Append(q.log, Logging(control, note, happening, value, time))
  /\ happening = "press" => ToSet(r.held) = ToSet(q.held) \cup {<<control, note>>}
  /\ happening = "release" => ToSet(r.held) = ToSet(q.held) \ {<<control, note>>}
  /\ happening = "move" => r.held = q.held
  /\ r.axes = IF happening = "move" THEN [q.axes EXCEPT ![control] = value] ELSE q.axes

\* An input that is not stray keeps the type of the router.
LEMMA TakenTyped ==
  ASSUME NEW k \in Consoles, NEW q \in RouterType(k), NEW control \in ToSet(k.inputs),
         NEW note \in Numbers \cup {None}, NEW happening \in Happening,
         NEW value \in Int, NEW time \in Int, ~Stray(q, control, note, happening)
  PROVE  /\ Taken(q, control, note, happening, value, time) \in RouterType(k)
         /\ TakesIn(q, Taken(q, control, note, happening, value, time),
                    control, note, happening, value, time)
         /\ LET r == Taken(q, control, note, happening, value, time)
            IN  r.lights = q.lights /\ r.copies = q.copies /\ r.written = q.written
<1> DEFINE press == <<control, note>>
           entry == Logging(control, note, happening, value, time)
           log == Append(q.log, entry)
<1>1. press \in Press(k) /\ q.held \in Unrepeated(Press(k)) /\ q.held \in Seq(Press(k))
  BY DEF Press, RouterType, Unrepeated
<1>2. log \in Seq(Entry(k))
  <2>1. entry \in Entry(k) /\ q.log \in Seq(Entry(k))
    BY DEF Entry, Logging, Happening, RouterType
  <2> QED
    BY <2>1, Appended
<1> HIDE DEF log
<1>3. CASE happening = "press"
  <2> DEFINE held == Append(q.held, press)
  <2>1. held \in Unrepeated(Press(k)) /\ ToSet(held) = ToSet(q.held) \cup {press}
    BY <1>1, <1>3, Appended DEF Stray
  <2>2. Taken(q, control, note, happening, value, time) = [q EXCEPT !.held = held, !.log = log]
    BY <1>3 DEF Taken, Logged, log, Logging, RouterType
  <2> HIDE DEF held
  <2> QED
    BY <1>2, <1>3, <2>1, <2>2 DEF RouterType, log, TakesIn
<1>4. CASE happening = "release"
  <2> DEFINE held == SwapRemove(q.held, press)
  <2>1. held \in Unrepeated(Press(k)) /\ ToSet(held) = ToSet(q.held) \ {press}
    BY <1>1, <1>4, SwapRemoved DEF Stray
  <2>2. Taken(q, control, note, happening, value, time) = [q EXCEPT !.held = held, !.log = log]
    BY <1>4 DEF Taken, Logged, log, Logging, RouterType
  <2> HIDE DEF held
  <2> QED
    BY <1>2, <1>4, <2>1, <2>2 DEF RouterType, log, TakesIn
<1>5. CASE happening = "move"
  <2> DEFINE axes == [q.axes EXCEPT ![control] = value]
  <2>1. axes \in [ToSet(k.inputs) -> Int]
    BY DEF RouterType
  <2>2. Taken(q, control, note, happening, value, time) = [q EXCEPT !.axes = axes, !.log = log]
    BY <1>5 DEF Taken, Logged, log, Logging, RouterType
  <2> HIDE DEF axes
  <2>3. [q EXCEPT !.axes = axes, !.log = log] \in RouterType(k)
    BY <1>2, <2>1 DEF RouterType
  <2> QED
    BY <1>5, <2>2, <2>3 DEF RouterType, log, TakesIn, axes
<1> QED
  BY <1>3, <1>4, <1>5 DEF Happening

\* What an input makes of a router: nothing when it is stray.
LEMMA Touched ==
  ASSUME NEW k \in Consoles, NEW q \in RouterType(k), NEW control \in ToSet(k.inputs),
         NEW note \in Numbers \cup {None}, NEW happening \in Happening,
         NEW value \in Int, NEW time \in Int
  PROVE  LET r == Touch(q, control, note, happening, value, time)
             taken == Taken(q, control, note, happening, value, time)
         IN  /\ r \in RouterType(k)
             /\ Stray(q, control, note, happening) => r = q
             /\ ~Stray(q, control, note, happening) =>
                  /\ taken \in RouterType(k) /\ SameInputs(taken, r)
                  /\ r = Answered(taken, control, happening, value, time)
                  /\ TakesIn(q, r, control, note, happening, value, time)
<1> DEFINE r == Touch(q, control, note, happening, value, time)
           taken == Taken(q, control, note, happening, value, time)
<1>1. CASE Stray(q, control, note, happening)
  <2>1. r = q
    BY <1>1 DEF Touch, Stray
  <2> HIDE DEF r
  <2> QED
    BY <1>1, <2>1 DEF r
<1>2. CASE ~Stray(q, control, note, happening)
  <2>1. r = Answered(taken, control, happening, value, time)
    BY <1>2 DEF Touch, Stray, Taken
  <2>2. taken \in RouterType(k) /\ TakesIn(q, taken, control, note, happening, value, time)
    BY <1>2, TakenTyped
  <2> HIDE DEF taken, r
  <2>3. r \in RouterType(k) /\ SameInputs(taken, r)
    BY <2>1, <2>2, AnsweredTyped
  <2> QED
    BY <1>2, <2>1, <2>2, <2>3 DEF SameInputs, TakesIn, r, taken
<1> QED
  BY <1>1, <1>2

-------------------------------------------------------------------------------
(* A log is replayed into a router that has just started.                  *)

AnyEntry == [control : Controls, note : Numbers \cup {None},
             happening : Happening, value : Int, time : Int]
Fresh(k) == StartSession(Router(k))

\* What a console's router logs, any console's router may replay.
LEMMA EntryIsAny ==
  ASSUME NEW k \in Consoles
  PROVE  Entry(k) \subseteq AnyEntry /\ Seq(Entry(k)) \subseteq Seq(AnyEntry)
<1>1. Entry(k) \subseteq AnyEntry
  BY DEF Entry, AnyEntry, Happening, Controls
<1> QED
  BY <1>1

\* A new router has its type.
LEMMA RouterTyped ==
  ASSUME NEW k \in Consoles
  PROVE  Router(k) \in RouterType(k) /\ Router(k).held = <<>> /\ Router(k).log = <<>>
<1>1. /\ <<>> \in Unrepeated(Press(k)) /\ <<>> \in Seq(Entry(k)) /\ <<>> \in Seq(Int)
  BY DEF Unrepeated, IsInjective
<1>2. Dark(k) \in Lights(k)
  BY <1>1 DEF Dark, Lights
<1> QED
  BY <1>1, <1>2 DEF Router, RouterType

\* Starting the clips that always play keeps it.
LEMMA StartTyped ==
  ASSUME NEW k \in Consoles
  PROVE  Fresh(k) \in RouterType(k) /\ SameInputs(Router(k), Fresh(k))
<1> DEFINE q == Router(k)
           G == {r \in RouterType(k) : SameInputs(q, r)}
           n == Len(k.always)
<1>1. q \in G /\ q.console = k
  BY RouterTyped DEF SameInputs, RouterType
<1>2. n \in Nat /\ DOMAIN k.always = 1..n
  BY InputAssumption DEF WellFormed
<1>3. ASSUME NEW r \in G, NEW i \in 1..n
      PROVE  StartCopy(r, <<k.always[i], 1>>, None, 0) \in G
  <2>1. r \in RouterType(k) /\ SameInputs(q, r)
    OBVIOUS
  <2> HIDE DEF G
  <2>2. None \in Int \cup {None} /\ 0 \in Int
    OBVIOUS
  <2>3. StartCopy(r, <<k.always[i], 1>>, None, 0) \in RouterType(k)
        /\ SameInputs(r, StartCopy(r, <<k.always[i], 1>>, None, 0))
    BY <2>1, <2>2, StartCopyTyped
  <2> QED
    BY <2>1, <2>3 DEF G, SameInputs
<1> HIDE DEF G, n, q
<1>4. StartSession(q) \in G
  BY <1>1, <1>2, <1>3, StartFold
<1> QED
  BY <1>4 DEF G, Fresh, q

\* Replaying an entry of any log keeps it.
LEMMA ReplaysTyped ==
  ASSUME NEW k \in Consoles, NEW q \in RouterType(k), NEW entry \in AnyEntry
  PROVE  Replays(q, k.inputs, entry) \in RouterType(k)
  BY Touched DEF Replays, AnyEntry

\* The routers that a replay passes through.
Replaying(f, k, q, log) ==
  /\ f \in [0..Len(log) -> RouterType(k)] /\ f[0] = q /\ f[Len(log)] = Resume(q, log)
  /\ \A i \in 1..Len(log) : f[i] = Replays(f[i - 1], k.inputs, log[i])

\* Replaying a log passes through routers of the console's type.
LEMMA ResumeSteps ==
  ASSUME NEW k \in Consoles, NEW q \in RouterType(k), NEW log \in Seq(AnyEntry)
  PROVE  (\E f : Replaying(f, k, q, log)) /\ Resume(q, log) \in RouterType(k)
<1> DEFINE n == Len(log)
           G == RouterType(k)
<1>1. n \in Nat /\ DOMAIN log = 1..n /\ \A i \in 1..n : log[i] \in AnyEntry
  OBVIOUS
<1>2. q.console = k /\ q \in G
  BY DEF RouterType
<1> HIDE DEF n, G
<1>3. ASSUME NEW r \in G, NEW i \in 1..n
      PROVE  Replays(r, q.console.inputs, log[i]) \in G
  BY <1>1, <1>2, ReplaysTyped DEF G
<1>4. Resume(q, log) \in G /\ \E f : ReplaysBy(f, G, n, q, log)
  BY <1>1, <1>2, <1>3, ResumeFold
<1>5. PICK f : ReplaysBy(f, G, n, q, log)
  BY <1>4
<1>6. Replaying(f, k, q, log)
  BY <1>2, <1>5 DEF Replaying, ReplaysBy, n, G
<1> QED
  BY <1>4, <1>6 DEF G

\* Replaying nothing changes nothing.
LEMMA ResumeNothing ==
  ASSUME NEW k \in Consoles, NEW q \in RouterType(k)
  PROVE  Resume(q, <<>>) = q
<1>1. <<>> \in Seq(AnyEntry) /\ Len(<<>>) = 0
  OBVIOUS
<1>2. PICK f : Replaying(f, k, q, <<>>)
  BY <1>1, ResumeSteps
<1> QED
  BY <1>1, <1>2 DEF Replaying

\* Replaying a longer log replays its last entry last.
LEMMA ResumeOneMore ==
  ASSUME NEW k \in Consoles, NEW q \in RouterType(k), NEW log \in Seq(AnyEntry),
         NEW entry \in AnyEntry
  PROVE  Resume(q, Append(log, entry)) = Replays(Resume(q, log), k.inputs, entry)
<1> DEFINE more == Append(log, entry)
           n == Len(log)
<1>1. /\ n \in Nat /\ more \in Seq(AnyEntry) /\ Len(more) = n + 1
      /\ \A i \in 1..n : more[i] = log[i]
      /\ more[n + 1] = entry
  BY AppendProperties
<1> HIDE DEF more
<1>2. PICK f : Replaying(f, k, q, log)
  BY ResumeSteps
<1>3. PICK g : Replaying(g, k, q, more)
  BY <1>1, ResumeSteps
<1> DEFINE J == {i \in 0..n : f[i] = g[i]}
<1>4. 0 \in J
  BY <1>1, <1>2, <1>3 DEF Replaying
<1>5. ASSUME NEW i \in 1..n, i - 1 \in J
      PROVE  i \in J
  <2>1. f[i - 1] = g[i - 1]
    BY <1>5
  <2>2. i \in 1..(n + 1) /\ i \in 0..n
    BY <1>1
  <2>3. f[i] = g[i]
    BY <1>1, <1>2, <1>3, <2>1, <2>2 DEF Replaying
  <2> QED
    BY <2>2, <2>3
<1> HIDE DEF J
<1>6. n \in J
  <2>1. \A i \in 0..n : i \in J
    BY <1>1, <1>4, <1>5, Reaches
  <2> QED
    BY <1>1, <2>1
<1>7. n + 1 \in 1..(n + 1) /\ (n + 1) - 1 = n
  BY <1>1
<1>8. g[n + 1] = Replays(g[n], k.inputs, entry)
  BY <1>1, <1>3, <1>7 DEF Replaying
<1> QED
  BY <1>1, <1>2, <1>3, <1>6, <1>8 DEF Replaying, J, more

\* A router that has just started holds nothing and has logged nothing.
LEMMA FreshTyped ==
  ASSUME NEW k \in Consoles
  PROVE  Fresh(k) \in RouterType(k) /\ Fresh(k).held = <<>> /\ Fresh(k).log = <<>>
  BY StartTyped, RouterTyped DEF SameInputs

-------------------------------------------------------------------------------
(* Routers of two consoles with the same events and clips play alike.      *)

SameEvents(a, b) == \A same \in {"on", "always", "copies"} : a[same] = b[same]
Plays(q, r) ==
  /\ r.copies = q.copies /\ r.written = q.written /\ r.lights = q.lights
  /\ SameEvents(q.console, r.console)
  /\ \A c \in ToSet(q.console.inputs) \cap ToSet(r.console.inputs) : r.axes[c] = q.axes[c]

\* The same events and clips have the same voices and parameters.
LEMMA SameVoices ==
  ASSUME NEW a, NEW b, SameEvents(a, b)
  PROVE  /\ a.on = b.on /\ a.always = b.always /\ a.copies = b.copies
         /\ Voices(a) = Voices(b) /\ Written(a) = Written(b)
<1>1. a.on = b.on /\ a.always = b.always /\ a.copies = b.copies
  BY DEF SameEvents
<1> QED
  BY <1>1 DEF Voices, Written

\* A voice starts alike,
LEMMA StartCopyAlike ==
  ASSUME NEW k, NEW l, NEW q \in RouterType(k), NEW r \in RouterType(l), Plays(q, r),
         NEW voice, NEW duration, NEW time
  PROVE  Plays(StartCopy(q, voice, duration, time), StartCopy(r, voice, duration, time))
  BY DEF RouterType, Plays, StartCopy, Sent

\* and stops alike.
LEMMA StopCopyAlike ==
  ASSUME NEW k, NEW l, NEW q \in RouterType(k), NEW r \in RouterType(l), Plays(q, r),
         NEW voice, NEW time
  PROVE  Plays(StopCopy(q, voice, time), StopCopy(r, voice, time))
  BY DEF RouterType, Plays, StopCopy, Sent

\* A clip's copies stop alike.
LEMMA StopAlike ==
  ASSUME NEW k, NEW l, NEW q \in RouterType(k), NEW r \in RouterType(l), Plays(q, r),
         NEW clip, k.copies[clip] \in Nat, NEW time \in Int
  PROVE  Plays(Stop(q, clip, time), Stop(r, clip, time))
<1> DEFINE n == k.copies[clip]
           G == RouterType(k)
           H == RouterType(l)
<1>1. n \in Nat /\ q.console.copies[clip] = n /\ r.console.copies[clip] = n /\ q \in G /\ r \in H
  <2>1. q.console = k /\ r.console = l /\ SameEvents(k, l)
    BY DEF RouterType, Plays
  <2> QED
    BY <2>1, SameVoices
<1> HIDE DEF n
<1>2. ASSUME NEW p \in G, NEW i \in 1..n
      PROVE  StopCopy(p, <<clip, i>>, time) \in G
  BY StopCopyTyped
<1>3. ASSUME NEW p \in H, NEW i \in 1..n
      PROVE  StopCopy(p, <<clip, i>>, time) \in H
  BY StopCopyTyped
<1> HIDE DEF G, H
<1>4. PICK f : StopsBy(f, G, n, q, clip, time)
  BY <1>1, <1>2, StopFold
<1>5. PICK g : StopsBy(g, H, n, r, clip, time)
  BY <1>1, <1>3, StopFold
<1> DEFINE J == {i \in 0..n : Plays(f[i], g[i])}
<1>6. 0 \in J
  BY <1>1, <1>4, <1>5 DEF StopsBy
<1>7. ASSUME NEW i \in 1..n, i - 1 \in J
      PROVE  i \in J
  <2>1. f[i - 1] \in RouterType(k) /\ g[i - 1] \in RouterType(l) /\ Plays(f[i - 1], g[i - 1])
    BY <1>4, <1>5, <1>7 DEF StopsBy, G, H
  <2>2. /\ f[i] = StopCopy(f[i - 1], <<clip, i>>, time)
        /\ g[i] = StopCopy(g[i - 1], <<clip, i>>, time)
        /\ i \in 0..n
    BY <1>4, <1>5 DEF StopsBy
  <2> QED
    BY <2>1, <2>2, StopCopyAlike
<1> HIDE DEF J
<1>8. n \in J
  <2>1. \A i \in 0..n : i \in J
    BY <1>1, <1>6, <1>7, Reaches
  <2> QED
    BY <1>1, <2>1
<1> QED
  BY <1>4, <1>5, <1>8 DEF J, StopsBy

\* An action that both consoles have acts alike.
LEMMA ActAlike ==
  ASSUME NEW k \in Consoles, NEW l \in Consoles, NEW q \in RouterType(k), NEW r \in RouterType(l),
         Plays(q, r), NEW action, Performs(k, action), Performs(l, action),
         NEW value \in Int, NEW time \in Int
  PROVE  Plays(Act(q, action, value, time), Act(r, action, value, time))
<1>1. q.console = k /\ r.console = l /\ SameEvents(k, l) /\ q.copies = r.copies
      /\ q.written = r.written /\ WellFormed(k) /\ k.copies = l.copies
  <2>1. q.console = k /\ r.console = l /\ SameEvents(k, l) /\ q.copies = r.copies
        /\ q.written = r.written /\ WellFormed(k)
    BY InputAssumption DEF RouterType, Plays
  <2> QED
    BY <2>1, SameVoices
<1>2. Position(q, action, time) = Position(r, action, time)
  BY <1>1 DEF Position
<1>3. CopyPlays(q, action.clip, time) = CopyPlays(r, action.clip, time)
  BY <1>1 DEF CopyPlays
<1>4. CASE action.do = "play"
  <2>1. Length(q, action, value) = Length(r, action, value)
    <3>1. CASE action.by \in {None, "velocity"}
      BY <3>1 DEF Length
    <3>2. CASE action.by \notin {None, "velocity"}
      <4>1. action.by \in ToSet(k.inputs) \cap ToSet(l.inputs)
        BY <1>4, <3>2 DEF Performs
      <4>2. q.axes[action.by] = r.axes[action.by]
        BY <1>1, <4>1 DEF Plays
      <4> QED
        BY <4>2 DEF Length
    <3> QED
      BY <3>1, <3>2
  <2> QED
    BY <1>2, <1>4, <2>1, StartCopyAlike DEF Act
<1>5. Plays(StartCopy(q, <<action.clip, 1>>, None, time), StartCopy(r, <<action.clip, 1>>, None, time))
  BY StartCopyAlike
<1>6. ASSUME action.do \in {"start", "stop", "toggle"}
      PROVE  Plays(Stop(q, action.clip, time), Stop(r, action.clip, time))
  <2>1. k.copies[action.clip] \in Nat
    BY <1>1, <1>6 DEF Performs, WellFormed
  <2> QED
    BY <2>1, StopAlike
<1>7. CASE action.do = "start"
  BY <1>3, <1>5, <1>7 DEF Act
<1>8. CASE action.do = "stop"
  BY <1>6, <1>8 DEF Act
<1>9. CASE action.do = "toggle"
  BY <1>3, <1>5, <1>6, <1>9 DEF Act
<1>10. CASE action.do = "mark"
  BY <1>10 DEF Act, Sent, Plays, RouterType
<1>11. CASE action.do = "set"
  BY <1>1, <1>11 DEF Act, Sent, Plays, RouterType
<1> QED
  BY <1>4, <1>7, <1>8, <1>9, <1>10, <1>11 DEF Performs

\* The same events answer an input alike.
LEMMA AnsweredAlike ==
  ASSUME NEW k \in Consoles, NEW l \in Consoles, NEW q \in RouterType(k), NEW r \in RouterType(l),
         Plays(q, r), NEW control, NEW happening, NEW value \in Int, NEW time \in Int
  PROVE  Plays(Answered(q, control, happening, value, time), Answered(r, control, happening, value, time))
<1> DEFINE n == Len(k.on)
           G == RouterType(k)
           H == RouterType(l)
<1>1. q.console = k /\ r.console = l /\ k.on = l.on /\ q \in G /\ r \in H
  <2>1. q.console = k /\ r.console = l /\ SameEvents(k, l)
    BY DEF RouterType, Plays
  <2> QED
    BY <2>1, SameVoices
<1>2. /\ n \in Nat /\ DOMAIN k.on = 1..n
      /\ \A i \in 1..n : Performs(k, k.on[i].action) /\ Performs(l, k.on[i].action)
  <2>1. /\ k.on \in Seq(ToSet(k.on))
        /\ \A o \in ToSet(k.on) : Performs(k, o.action)
        /\ \A o \in ToSet(l.on) : Performs(l, o.action)
    BY InputAssumption DEF WellFormed
  <2> QED
    BY <1>1, <2>1 DEF ToSet
<1> HIDE DEF n
<1>3. ASSUME NEW p \in G, NEW i \in 1..n
      PROVE  Answers(p, k.on[i], control, happening, value, time) \in G
  BY <1>2, ActTyped DEF Answers
<1>4. ASSUME NEW p \in H, NEW i \in 1..n
      PROVE  Answers(p, k.on[i], control, happening, value, time) \in H
  BY <1>2, ActTyped DEF Answers
<1> HIDE DEF G, H
<1>5. PICK f : AnswersBy(f, G, n, q, control, happening, value, time)
  BY <1>1, <1>2, <1>3, AnsweredFold
<1>6. PICK g : AnswersBy(g, H, n, r, control, happening, value, time)
  BY <1>1, <1>2, <1>4, AnsweredFold
<1> DEFINE J == {i \in 0..n : Plays(f[i], g[i])}
<1>7. 0 \in J
  BY <1>2, <1>5, <1>6 DEF AnswersBy
<1>8. ASSUME NEW i \in 1..n, i - 1 \in J
      PROVE  i \in J
  <2>1. f[i - 1] \in RouterType(k) /\ g[i - 1] \in RouterType(l) /\ Plays(f[i - 1], g[i - 1])
    BY <1>5, <1>6, <1>8 DEF AnswersBy, G, H
  <2>2. /\ f[i] = Answers(f[i - 1], k.on[i], control, happening, value, time)
        /\ g[i] = Answers(g[i - 1], k.on[i], control, happening, value, time)
        /\ i \in 0..n
    BY <1>1, <1>5, <1>6 DEF AnswersBy
  <2>3. Performs(k, k.on[i].action) /\ Performs(l, k.on[i].action)
    BY <1>2
  <2>4. Plays(Act(f[i - 1], k.on[i].action, value, time), Act(g[i - 1], k.on[i].action, value, time))
    BY <2>1, <2>3, ActAlike
  <2> QED
    BY <2>1, <2>2, <2>4 DEF Answers
<1> HIDE DEF J
<1>9. n \in J
  <2>1. \A i \in 0..n : i \in J
    BY <1>2, <1>7, <1>8, Reaches
  <2> QED
    BY <1>2, <2>1
<1> QED
  BY <1>5, <1>6, <1>9 DEF J, AnswersBy

\* Routers of such consoles start alike.
LEMMA FreshAlike ==
  ASSUME NEW k \in Consoles, NEW l \in Consoles, SameEvents(k, l)
  PROVE  Plays(Fresh(k), Fresh(l))
<1> DEFINE n == Len(k.always)
           G == RouterType(k)
           H == RouterType(l)
           q == Router(k)
           r == Router(l)
<1>1. q.console = k /\ r.console = l /\ k.always = l.always /\ q \in G /\ r \in H
  BY SameVoices, RouterTyped DEF RouterType
<1>2. n \in Nat /\ DOMAIN k.always = 1..n
  BY InputAssumption DEF WellFormed
<1>3. Plays(q, r)
  BY SameVoices DEF Plays, Router, Dark
<1> HIDE DEF n, q, r
<1>4. None \in Int \cup {None} /\ 0 \in Int
  OBVIOUS
<1>5. ASSUME NEW p \in G, NEW i \in 1..n
      PROVE  StartCopy(p, <<k.always[i], 1>>, None, 0) \in G
  BY <1>4, StartCopyTyped
<1>6. ASSUME NEW p \in H, NEW i \in 1..n
      PROVE  StartCopy(p, <<k.always[i], 1>>, None, 0) \in H
  BY <1>4, StartCopyTyped
<1> HIDE DEF G, H
<1>7. PICK f : StartsBy(f, G, n, q)
  BY <1>1, <1>2, <1>5, StartFold
<1>8. PICK g : StartsBy(g, H, n, r)
  BY <1>1, <1>2, <1>6, StartFold
<1> DEFINE J == {i \in 0..n : Plays(f[i], g[i])}
<1>9. 0 \in J
  BY <1>2, <1>3, <1>7, <1>8 DEF StartsBy
<1>10. ASSUME NEW i \in 1..n, i - 1 \in J
      PROVE  i \in J
  <2>1. f[i - 1] \in RouterType(k) /\ g[i - 1] \in RouterType(l) /\ Plays(f[i - 1], g[i - 1])
    BY <1>7, <1>8, <1>10 DEF StartsBy, G, H
  <2>2. /\ f[i] = StartCopy(f[i - 1], <<k.always[i], 1>>, None, 0)
        /\ g[i] = StartCopy(g[i - 1], <<k.always[i], 1>>, None, 0)
        /\ i \in 0..n
    BY <1>1, <1>7, <1>8 DEF StartsBy
  <2> QED
    BY <2>1, <2>2, StartCopyAlike
<1> HIDE DEF J
<1>11. n \in J
  <2>1. \A i \in 0..n : i \in J
    BY <1>2, <1>9, <1>10, Reaches
  <2> QED
    BY <1>2, <2>1
<1> QED
  BY <1>7, <1>8, <1>11 DEF J, StartsBy, Fresh, q, r

-------------------------------------------------------------------------------
(* What a log says: replayed for any console, it holds the presses of that *)
(* console's controls, and plays alike where the events are the same.      *)

LogSays(q, held) ==
  \A l \in Consoles :
    LET r == Resume(Fresh(l), q.log)
    IN  /\ ToSet(r.held) = {press \in held : press[1] \in ToSet(l.inputs)}
        /\ SameEvents(q.console, l) => Plays(q, r)

HeldAfter(held, press, happening) ==
  CASE happening = "press" -> held \cup {press}
    [] happening = "release" -> held \ {press}
    [] happening = "move" -> held

\* A log that says what is held is a sequence of entries.
LEMMA LogTyped ==
  ASSUME NEW k \in Consoles, NEW q \in RouterType(k), NEW l \in Consoles
  PROVE  /\ q.log \in Seq(AnyEntry) /\ Fresh(l) \in RouterType(l)
         /\ Resume(Fresh(l), q.log) \in RouterType(l)
<1>1. q.log \in Seq(Entry(k))
  BY DEF RouterType
<1>2. q.log \in Seq(AnyEntry) /\ Fresh(l) \in RouterType(l)
  BY <1>1, EntryIsAny, FreshTyped
<1> QED
  BY <1>2, ResumeSteps

\* A router that has just started.
LEMMA FreshSays ==
  ASSUME NEW k \in Consoles
  PROVE  LogSays(Fresh(k), {})
<1>1. Fresh(k) \in RouterType(k) /\ Fresh(k).log = <<>> /\ Fresh(k).console = k
  BY FreshTyped DEF RouterType
<1>2. ASSUME NEW l \in Consoles
      PROVE  /\ Resume(Fresh(l), <<>>) = Fresh(l) /\ ToSet(Fresh(l).held) = {}
             /\ SameEvents(k, l) => Plays(Fresh(k), Fresh(l))
  <2>1. Fresh(l) \in RouterType(l) /\ Fresh(l).held = <<>>
    BY FreshTyped
  <2>2. ToSet(<<>>) = {}
    BY DEF ToSet
  <2> QED
    BY <2>1, <2>2, FreshAlike, ResumeNothing
<1> QED
  BY <1>1, <1>2 DEF LogSays

\* Nothing answers an input of a control that no event names.
LEMMA NothingAnswers ==
  ASSUME NEW k \in Consoles, NEW q \in RouterType(k), NEW control, NEW happening, NEW value, NEW time,
         \A o \in ToSet(k.on) : o.control # control
  PROVE  Answered(q, control, happening, value, time) = q
<1> DEFINE G == {q}
           n == Len(k.on)
<1>1. n \in Nat /\ DOMAIN q.console.on = 1..n /\ \A i \in 1..n : q.console.on[i].control # control
  <2>1. k.on \in Seq(ToSet(k.on)) /\ q.console = k
    BY InputAssumption DEF WellFormed, RouterType
  <2> QED
    BY <2>1 DEF ToSet
<1>2. ASSUME NEW p \in G, NEW i \in 1..n
      PROVE  Answers(p, q.console.on[i], control, happening, value, time) \in G
  BY <1>1 DEF Answers
<1>3. q \in G
  OBVIOUS
<1> HIDE DEF G, n
<1>4. Answered(q, control, happening, value, time) \in G
  BY <1>1, <1>2, <1>3, AnsweredFold
<1> QED
  BY <1>4 DEF G

\* An input that is heard, and its replay.
LEMMA TouchSays ==
  ASSUME NEW k \in Consoles, NEW q \in RouterType(k), NEW control \in ToSet(k.inputs),
         NEW note \in Numbers \cup {None}, NEW happening \in Happening,
         NEW value \in Int, NEW time \in Int, ~Stray(q, control, note, happening),
         NEW held, LogSays(q, held),
         happening = "press" => <<control, note>> \notin held,
         happening = "release" => <<control, note>> \in held
  PROVE  LogSays(Touch(q, control, note, happening, value, time),
                 HeldAfter(held, <<control, note>>, happening))
<1> DEFINE t == Touch(q, control, note, happening, value, time)
           taken == Taken(q, control, note, happening, value, time)
           entry == Logging(control, note, happening, value, time)
           after == HeldAfter(held, <<control, note>>, happening)
<1>1. /\ t \in RouterType(k) /\ taken \in RouterType(k)
      /\ t = Answered(taken, control, happening, value, time)
      /\ TakesIn(q, t, control, note, happening, value, time)
      /\ TakesIn(q, taken, control, note, happening, value, time)
      /\ taken.lights = q.lights /\ taken.copies = q.copies /\ taken.written = q.written
  BY Touched, TakenTyped
<1>2. t.console = k /\ taken.console = k /\ q.console = k /\ t.log = Append(q.log, entry)
  BY <1>1 DEF TakesIn, RouterType
<1>3. entry \in AnyEntry
  BY DEF AnyEntry, Logging, Controls
<1> SUFFICES ASSUME NEW l \in Consoles
             PROVE  LET s == Resume(Fresh(l), t.log)
                    IN  /\ ToSet(s.held) = {press \in after : press[1] \in ToSet(l.inputs)}
                        /\ SameEvents(t.console, l) => Plays(t, s)
  BY DEF LogSays
<1> DEFINE r == Resume(Fresh(l), q.log)
           s == Resume(Fresh(l), t.log)
<1>4. /\ r \in RouterType(l) /\ ToSet(r.held) = {press \in held : press[1] \in ToSet(l.inputs)}
      /\ SameEvents(k, l) => Plays(q, r)
  BY <1>2, LogTyped DEF LogSays
<1>5. s = Replays(r, l.inputs, entry)
  BY <1>2, <1>3, LogTyped, ResumeOneMore
<1> HIDE DEF t, taken, r, s
<1>6. CASE control \notin ToSet(l.inputs)
  <2>1. s = r
    BY <1>5, <1>6 DEF Replays, Logging
  <2>2. ToSet(s.held) = {press \in after : press[1] \in ToSet(l.inputs)}
    BY <1>4, <1>6, <2>1 DEF HeldAfter, Happening
  <2>3. ASSUME SameEvents(k, l)
        PROVE  Plays(t, s)
    <3>1. \A o \in ToSet(k.on) : o.control # control
      <4>1. \A o \in ToSet(l.on) : o.control \in ToSet(l.inputs)
        BY InputAssumption DEF WellFormed
      <4> QED
        BY <1>6, <2>3, <4>1, SameVoices
    <3>2. t = taken
      BY <1>1, <3>1, NothingAnswers
    <3>3. Plays(q, r) /\ r.console = l
      BY <1>4, <2>3 DEF RouterType
    <3>4. \A c \in ToSet(k.inputs) \cap ToSet(l.inputs) : taken.axes[c] = q.axes[c]
      BY <1>1, <1>6 DEF TakesIn, RouterType
    <3> QED
      BY <1>1, <1>2, <2>1, <3>2, <3>3, <3>4 DEF Plays
  <2> QED
    BY <1>2, <2>2, <2>3 DEF s
<1>7. CASE control \in ToSet(l.inputs)
  <2> DEFINE heard == Taken(r, control, note, happening, value, time)
  <2>1. ~Stray(r, control, note, happening)
    BY <1>4, <1>7 DEF Stray
  <2>2. s = Touch(r, control, note, happening, value, time)
    BY <1>5, <1>7 DEF Replays, Logging
  <2>3. /\ heard \in RouterType(l) /\ s \in RouterType(l)
        /\ s = Answered(heard, control, happening, value, time)
        /\ TakesIn(r, s, control, note, happening, value, time)
        /\ TakesIn(r, heard, control, note, happening, value, time)
        /\ heard.lights = r.lights /\ heard.copies = r.copies /\ heard.written = r.written
    BY <1>4, <1>7, <2>1, <2>2, Touched, TakenTyped
  <2> HIDE DEF heard
  <2>4. ToSet(s.held) = {press \in after : press[1] \in ToSet(l.inputs)}
    BY <1>4, <1>7, <2>3 DEF HeldAfter, Happening, TakesIn
  <2>5. ASSUME SameEvents(k, l)
        PROVE  Plays(t, s)
    <3>1. Plays(q, r) /\ r.console = l /\ heard.console = l
      BY <1>4, <2>3, <2>5 DEF RouterType
    <3>2. \A c \in ToSet(k.inputs) \cap ToSet(l.inputs) : heard.axes[c] = taken.axes[c]
      BY <1>1, <1>2, <1>4, <2>3, <3>1 DEF TakesIn, RouterType, Plays
    <3>3. Plays(taken, heard)
      BY <1>1, <1>2, <2>3, <3>1, <3>2 DEF Plays
    <3> QED
      BY <1>1, <2>3, <3>3, AnsweredAlike
  <2> QED
    BY <1>2, <2>4, <2>5 DEF s
<1> QED
  BY <1>6, <1>7

-------------------------------------------------------------------------------
(* The router and the lights agree from a time on; a log is in order.      *)

AgreesFrom(q, t) ==
  /\ \A voice \in Voices(q.console) : \A u \in t..(Session - 1) :
       PlaysAt(q.copies[voice], u) <=> IsActive(q.lights.timing[voice], u)
  /\ q.written = q.lights.values
InOrder(log, t) ==
  \A i \in 1..Len(log) :
    /\ log[i].time \in 0..t
    /\ \A j \in 1..i : log[j].time <= log[i].time

\* What agrees from a time on agrees from every later time on.
LEMMA AgreesLater ==
  ASSUME NEW q, NEW t \in Int, NEW u \in Int, t <= u, AgreesFrom(q, t)
  PROVE  AgreesFrom(q, u)
<1>1. \A v \in u..(Session - 1) : v \in t..(Session - 1)
  BY RouterAssumption
<1> QED
  BY <1>1 DEF AgreesFrom

\* A voice that starts now ends for the router when it ends for the evaluators.
LEMMA StartCopyAgrees ==
  ASSUME NEW k, NEW q \in RouterType(k), NEW voice, NEW duration \in Int \cup {None},
         NEW time \in Int, AgreesFrom(q, time)
  PROVE  AgreesFrom(StartCopy(q, voice, duration, time), time)
<1> DEFINE copy == [started |-> time, ends |-> Ends(duration, time)]
           timing == [start |-> time, duration |-> IF duration = None THEN Session - time ELSE duration]
           r == StartCopy(q, voice, duration, time)
<1>0. Session \in Int /\ None \notin Int
  BY RouterAssumption
<1>1. /\ r.console = q.console /\ r.written = q.written /\ r.lights.values = q.lights.values
      /\ r.copies = [q.copies EXCEPT ![voice] = copy]
      /\ r.lights.timing = [q.lights.timing EXCEPT ![voice] = timing]
  BY DEF StartCopy, Sent, Apply, RouterType, Lights
<1>2. copy # None
  <2>1. copy \in [started : Int, ends : Int \cup {None}]
    BY <1>0 DEF Ends
  <2> QED
    BY <2>1, RouterAssumption
<1>3. ASSUME NEW u \in time..(Session - 1)
      PROVE  PlaysAt(copy, u) <=> IsActive(timing, u)
  <2>1. PlaysAt(copy, u) <=> (Ends(duration, time) = None \/ u < Ends(duration, time))
    BY <1>2 DEF PlaysAt
  <2>2. CASE duration = None
    BY <1>0, <2>1, <2>2 DEF Ends, IsActive
  <2>3. CASE duration # None
    BY <1>0, <2>1, <2>3 DEF Ends, IsActive
  <2> QED
    BY <2>2, <2>3
<1> HIDE DEF copy, timing, r
<1>4. q.console = k /\ q.copies \in [Voices(k) -> Copy \cup {None}]
      /\ q.lights.timing \in [Voices(k) -> [start : Int, duration : Int]]
  BY DEF RouterType, Lights
<1>5. ASSUME NEW v \in Voices(k), NEW u \in time..(Session - 1)
      PROVE  PlaysAt(r.copies[v], u) <=> IsActive(r.lights.timing[v], u)
  <2>1. CASE v = voice
    BY <1>1, <1>3, <1>4, <2>1
  <2>2. CASE v # voice
    BY <1>1, <1>4, <2>2 DEF AgreesFrom
  <2> QED
    BY <2>1, <2>2
<1>6. AgreesFrom(r, time)
  BY <1>1, <1>4, <1>5 DEF AgreesFrom
<1> QED
  BY <1>6 DEF r

\* A voice that stops now plays for neither.
LEMMA StopCopyAgrees ==
  ASSUME NEW k, NEW q \in RouterType(k), NEW voice \in Voices(k), NEW time \in Int, AgreesFrom(q, time)
  PROVE  AgreesFrom(StopCopy(q, voice, time), time)
<1> DEFINE r == StopCopy(q, voice, time)
           was == q.lights.timing[voice]
           stopped == [was EXCEPT !.duration = time - was.start]
<1>0. Session \in Int /\ None \notin Int
  BY RouterAssumption
<1>1. q.console = k /\ q.copies \in [Voices(k) -> Copy \cup {None}]
      /\ q.lights.timing \in [Voices(k) -> [start : Int, duration : Int]]
      /\ q.lights \in Lights(k)
  BY DEF RouterType, Lights
<1>2. /\ r.console = q.console /\ r.written = q.written /\ r.lights.values = q.lights.values
      /\ r.copies = [q.copies EXCEPT ![voice] = None]
      /\ \/ PlaysAt(q.copies[voice], time) /\ IsActive(was, time)
            /\ r.lights.timing = [q.lights.timing EXCEPT ![voice] = stopped]
         \/ ~(PlaysAt(q.copies[voice], time) /\ IsActive(was, time))
            /\ r.lights.timing = q.lights.timing
  BY DEF StopCopy, Sent, Apply, RouterType, Lights
<1>3. was \in [start : Int, duration : Int] /\ q.copies[voice] \in Copy \cup {None}
  BY <1>1
<1>4. stopped \in [start : Int, duration : Int] /\ stopped.start = was.start
      /\ stopped.duration = time - was.start
  BY <1>3
<1>5. ASSUME NEW u \in time..(Session - 1)
      PROVE  ~IsActive(r.lights.timing[voice], u)
  <2>1. time \in time..(Session - 1) /\ u >= time /\ u \in Int
    BY <1>0
  <2>2. PlaysAt(q.copies[voice], u) => PlaysAt(q.copies[voice], time)
    BY <1>0, <1>3, <2>1 DEF PlaysAt, Copy
  <2>3. CASE PlaysAt(q.copies[voice], time) /\ IsActive(was, time)
    <3>1. r.lights.timing[voice] = stopped
      BY <1>1, <1>2, <2>3
    <3> HIDE DEF stopped, was
    <3>2. ~IsActive(stopped, u)
      BY <1>3, <1>4, <2>1 DEF IsActive
    <3> QED
      BY <3>1, <3>2
  <2>4. CASE ~(PlaysAt(q.copies[voice], time) /\ IsActive(was, time))
    <3>1. r.lights.timing[voice] = was
      BY <1>2, <2>4
    <3>2. \A v \in time..(Session - 1) : PlaysAt(q.copies[voice], v) <=> IsActive(was, v)
      BY <1>1 DEF AgreesFrom
    <3> HIDE DEF was
    <3> QED
      BY <2>1, <2>2, <2>4, <3>1, <3>2
  <2> QED
    BY <2>3, <2>4
<1> HIDE DEF stopped, r
<1>6. ASSUME NEW v \in Voices(k), NEW u \in time..(Session - 1)
      PROVE  PlaysAt(r.copies[v], u) <=> IsActive(r.lights.timing[v], u)
  <2>1. CASE v = voice
    BY <1>1, <1>2, <1>5, <2>1 DEF PlaysAt
  <2>2. CASE v # voice
    BY <1>1, <1>2, <2>2 DEF AgreesFrom
  <2> QED
    BY <2>1, <2>2
<1>7. AgreesFrom(r, time)
  BY <1>1, <1>2, <1>6 DEF AgreesFrom
<1> QED
  BY <1>7 DEF r

\* Nor does any voice of a clip that stops.
LEMMA StopAgrees ==
  ASSUME NEW k \in Consoles, NEW q \in RouterType(k), NEW clip \in DOMAIN k.copies, NEW time \in Int,
         AgreesFrom(q, time)
  PROVE  AgreesFrom(Stop(q, clip, time), time)
<1> DEFINE G == {r \in RouterType(k) : AgreesFrom(r, time)}
           n == k.copies[clip]
<1>1. q \in G /\ q.console = k /\ n \in Nat
  BY InputAssumption DEF RouterType, WellFormed
<1>2. ASSUME NEW r \in G, NEW i \in 1..n
      PROVE  StopCopy(r, <<clip, i>>, time) \in G
  <2>1. <<clip, i>> \in Voices(k)
    BY DEF Voices
  <2> QED
    BY <2>1, StopCopyTyped, StopCopyAgrees
<1> HIDE DEF G, n
<1>3. q.console.copies[clip] = n
  BY <1>1 DEF n
<1>4. Stop(q, clip, time) \in G
  BY <1>1, <1>2, <1>3, StopFold
<1> QED
  BY <1>4 DEF G

\* Every action leaves router and lights agreeing,
LEMMA ActAgrees ==
  ASSUME NEW k \in Consoles, NEW q \in RouterType(k), NEW action, Performs(k, action),
         NEW value \in Int, NEW time \in Int, AgreesFrom(q, time)
  PROVE  AgreesFrom(Act(q, action, value, time), time)
<1>1. CASE action.do = "play"
  <2>1. Length(q, action, value) \in Int \cup {None}
    BY <1>1, LengthTyped
  <2> QED
    BY <1>1, <2>1, StartCopyAgrees DEF Act
<1>2. AgreesFrom(StartCopy(q, <<action.clip, 1>>, None, time), time)
  BY StartCopyAgrees
<1>3. ASSUME action.do \in {"start", "stop", "toggle"}
      PROVE  AgreesFrom(Stop(q, action.clip, time), time)
  <2>1. action.clip \in DOMAIN k.copies
    BY <1>3 DEF Performs
  <2> QED
    BY <2>1, StopAgrees
<1>4. CASE action.do = "start"
  BY <1>2, <1>4 DEF Act
<1>5. CASE action.do = "stop"
  BY <1>3, <1>5 DEF Act
<1>6. CASE action.do = "toggle"
  BY <1>2, <1>3, <1>6 DEF Act
<1>7. CASE action.do = "mark"
  <2>1. LET r == Act(q, action, value, time)
        IN  /\ r.console = q.console /\ r.copies = q.copies /\ r.written = q.written
            /\ r.lights.timing = q.lights.timing /\ r.lights.values = q.lights.values
    BY <1>7 DEF Act, Sent, Apply, RouterType, Lights
  <2> QED
    BY <2>1 DEF AgreesFrom
<1>8. CASE action.do = "set"
  <2>1. CASE q.written[action.param] = value
    BY <1>8, <2>1 DEF Act
  <2>2. CASE q.written[action.param] # value
    <3> DEFINE r == Act(q, action, value, time)
    <3>1. /\ r.console = q.console /\ r.copies = q.copies
          /\ r.written = [q.written EXCEPT ![action.param] = value]
          /\ r.lights.timing = q.lights.timing
          /\ r.lights.values = [q.lights.values EXCEPT ![action.param] = value]
      BY <1>8, <2>2 DEF Act, Sent, Apply, RouterType, Lights
    <3> HIDE DEF r
    <3>2. AgreesFrom(r, time)
      BY <3>1 DEF AgreesFrom
    <3> QED
      BY <3>2 DEF r
  <2> QED
    BY <2>1, <2>2
<1> QED
  BY <1>1, <1>4, <1>5, <1>6, <1>7, <1>8 DEF Performs

\* and so do the events that answer an input.
LEMMA AnsweredAgrees ==
  ASSUME NEW k \in Consoles, NEW q \in RouterType(k), NEW control, NEW happening,
         NEW value \in Int, NEW time \in Int, AgreesFrom(q, time)
  PROVE  AgreesFrom(Answered(q, control, happening, value, time), time)
<1> DEFINE G == {r \in RouterType(k) : AgreesFrom(r, time)}
           n == Len(k.on)
<1>1. q \in G /\ q.console = k
  BY DEF RouterType
<1>2. n \in Nat /\ DOMAIN k.on = 1..n /\ \A i \in 1..n : Performs(k, k.on[i].action)
  <2>1. k.on \in Seq(ToSet(k.on)) /\ \A o \in ToSet(k.on) : Performs(k, o.action)
    BY InputAssumption DEF WellFormed
  <2> QED
    BY <2>1 DEF ToSet
<1>3. ASSUME NEW r \in G, NEW i \in 1..n
      PROVE  Answers(r, k.on[i], control, happening, value, time) \in G
  BY <1>2, ActTyped, ActAgrees DEF Answers
<1> HIDE DEF G, n
<1>4. Answered(q, control, happening, value, time) \in G
  BY <1>1, <1>2, <1>3, AnsweredFold
<1> QED
  BY <1>4 DEF G

\* An input that is heard now.
LEMMA TouchAgrees ==
  ASSUME NEW k \in Consoles, NEW q \in RouterType(k), NEW control \in ToSet(k.inputs),
         NEW note \in Numbers \cup {None}, NEW happening \in Happening,
         NEW value \in Int, NEW t \in 0..Session, AgreesFrom(q, t), InOrder(q.log, t)
  PROVE  LET r == Touch(q, control, note, happening, value, t)
         IN  AgreesFrom(r, t) /\ InOrder(r.log, t)
<1> DEFINE r == Touch(q, control, note, happening, value, t)
           taken == Taken(q, control, note, happening, value, t)
           entry == Logging(control, note, happening, value, t)
<1>0. t \in Int
  BY RouterAssumption
<1>1. CASE Stray(q, control, note, happening)
  BY <1>0, <1>1, Touched
<1>2. CASE ~Stray(q, control, note, happening)
  <2>1. /\ taken \in RouterType(k) /\ r = Answered(taken, control, happening, value, t)
        /\ TakesIn(q, r, control, note, happening, value, t)
        /\ TakesIn(q, taken, control, note, happening, value, t)
        /\ taken.lights = q.lights /\ taken.copies = q.copies /\ taken.written = q.written
    BY <1>0, <1>2, Touched, TakenTyped
  <2>2. r.log = Append(q.log, entry) /\ taken.console = q.console
    BY <2>1 DEF TakesIn
  <2> HIDE DEF r, taken
  <2>3. AgreesFrom(taken, t)
    BY <2>1, <2>2 DEF AgreesFrom
  <2>4. AgreesFrom(r, t)
    BY <1>0, <2>1, <2>3, AnsweredAgrees
  <2>5. InOrder(r.log, t)
    <3> DEFINE log == q.log
               n == Len(log)
    <3>1. log \in Seq(Entry(k)) /\ n \in Nat
      BY DEF RouterType
    <3>2. entry \in Entry(k) /\ entry.time = t
      BY <1>0 DEF Entry, Logging, Happening
    <3> HIDE DEF entry, log
    <3>3. /\ Len(Append(log, entry)) = n + 1
          /\ \A i \in 1..n : Append(log, entry)[i] = log[i]
          /\ Append(log, entry)[n + 1] = entry
      BY <3>1, <3>2, AppendProperties
    <3>4. \A i \in 1..n : log[i].time \in 0..t /\ \A j \in 1..i : log[j].time <= log[i].time
      BY DEF InOrder, log
    <3>5. r.log = Append(log, entry)
      BY <2>2 DEF log
    <3> HIDE DEF n
    <3>6. ASSUME NEW i \in 1..(n + 1)
          PROVE  /\ r.log[i].time \in 0..t
                 /\ \A j \in 1..i : r.log[j].time <= r.log[i].time
      BY <1>0, <3>1, <3>2, <3>3, <3>4, <3>5
    <3> QED
      BY <3>3, <3>5, <3>6 DEF InOrder
  <2> QED
    BY <2>4, <2>5 DEF r
<1> QED
  BY <1>1, <1>2

\* A router that has just started agrees with its lights from 0 on.
LEMMA FreshAgrees ==
  ASSUME NEW k \in Consoles
  PROVE  AgreesFrom(Fresh(k), 0) /\ InOrder(Fresh(k).log, 0)
<1> DEFINE q == Router(k)
           G == {r \in RouterType(k) : AgreesFrom(r, 0)}
           n == Len(k.always)
<1>1. q \in G /\ q.console = k
  <2>1. q \in RouterType(k) /\ q.console = k
    BY RouterTyped DEF RouterType
  <2>2. AgreesFrom(q, 0)
    BY RouterAssumption DEF AgreesFrom, Router, Dark, PlaysAt, IsActive
  <2> QED
    BY <2>1, <2>2
<1>2. n \in Nat /\ DOMAIN k.always = 1..n
  BY InputAssumption DEF WellFormed
<1>3. None \in Int \cup {None} /\ 0 \in Int
  OBVIOUS
<1>4. ASSUME NEW r \in G, NEW i \in 1..n
      PROVE  StartCopy(r, <<k.always[i], 1>>, None, 0) \in G
  BY <1>3, StartCopyTyped, StartCopyAgrees
<1> HIDE DEF G, n, q
<1>5. StartSession(q) \in G
  BY <1>1, <1>2, <1>4, StartFold
<1>6. InOrder(Fresh(k).log, 0)
  BY FreshTyped DEF InOrder
<1> QED
  BY <1>5, <1>6 DEF G, Fresh, q

\* Inputs replayed in the order of their times.
LEMMA ResumeAgrees ==
  ASSUME NEW k \in Consoles, NEW log \in Seq(AnyEntry), NEW t \in 0..Session, InOrder(log, t)
  PROVE  LET r == Resume(Fresh(k), log) IN AgreesFrom(r, t) /\ InOrder(r.log, t)
<1> DEFINE n == Len(log)
           last == [i \in 0..n |-> IF i = 0 THEN 0 ELSE log[i].time]
<1>1. PICK f : Replaying(f, k, Fresh(k), log)
  BY FreshTyped, ResumeSteps
<1>2. n \in Nat /\ Session \in Nat
  BY RouterAssumption
<1> DEFINE J == {i \in 0..n : AgreesFrom(f[i], last[i]) /\ InOrder(f[i].log, last[i])}
<1>3. 0 \in J
  BY <1>1, <1>2, FreshAgrees DEF Replaying
<1>4. ASSUME NEW i \in 0..n
      PROVE  last[i] \in 0..t /\ (i > 0 => last[i] = log[i].time /\ last[i - 1] <= last[i])
  <2>1. CASE i = 0
    BY <1>2, <2>1
  <2>2. CASE i \in 1..n
    BY <1>2, <2>2 DEF InOrder
  <2> QED
    BY <2>1, <2>2
<1> HIDE DEF last
<1>5. ASSUME NEW r, NEW a \in 0..t, NEW b \in 0..t, a <= b, AgreesFrom(r, a), InOrder(r.log, a)
      PROVE  AgreesFrom(r, b) /\ InOrder(r.log, b)
  <2>1. AgreesFrom(r, b)
    BY <1>2, <1>5, AgreesLater
  <2>2. \A x \in 0..a : x \in 0..b
    BY <1>2, <1>5
  <2> QED
    BY <1>5, <2>1, <2>2 DEF InOrder
<1>6. ASSUME NEW i \in 1..n, i - 1 \in J
      PROVE  i \in J
  <2>1. i \in 0..n /\ i - 1 \in 0..n /\ i > 0
    BY <1>2
  <2>2. f[i - 1] \in RouterType(k) /\ f[i] = Replays(f[i - 1], k.inputs, log[i])
    BY <1>1, <2>1 DEF Replaying
  <2>3. AgreesFrom(f[i - 1], last[i]) /\ InOrder(f[i - 1].log, last[i])
    BY <1>4, <1>5, <1>6, <2>1
  <2>4. log[i] \in AnyEntry /\ log[i].time = last[i] /\ last[i] \in 0..Session
    BY <1>2, <1>4, <2>1
  <2>5. CASE log[i].control \notin ToSet(k.inputs)
    BY <2>1, <2>2, <2>3, <2>5 DEF Replays
  <2>6. CASE log[i].control \in ToSet(k.inputs)
    <3> DEFINE c == log[i].control  note == log[i].note
               happening == log[i].happening  value == log[i].value
    <3>1. note \in Numbers \cup {None} /\ happening \in Happening /\ value \in Int
      BY <2>4 DEF AnyEntry
    <3>2. f[i] = Touch(f[i - 1], c, note, happening, value, last[i])
      BY <2>2, <2>4, <2>6 DEF Replays
    <3> HIDE DEF c, note, happening, value
    <3>3. c \in ToSet(k.inputs)
      BY <2>6 DEF c
    <3>4. AgreesFrom(f[i], last[i]) /\ InOrder(f[i].log, last[i])
      BY <2>2, <2>3, <2>4, <3>1, <3>2, <3>3, TouchAgrees
    <3> QED
      BY <2>1, <3>4
  <2> QED
    BY <2>5, <2>6
<1> HIDE DEF J
<1>7. n \in J
  <2>1. \A i \in 0..n : i \in J
    BY <1>2, <1>3, <1>6, Reaches
  <2> QED
    BY <1>2, <2>1
<1>8. AgreesFrom(f[n], last[n]) /\ InOrder(f[n].log, last[n]) /\ n \in 0..n /\ f[n] = Resume(Fresh(k), log)
  BY <1>1, <1>2, <1>7 DEF J, Replaying
<1>9. last[n] \in 0..t /\ t \in 0..t /\ last[n] <= t
  BY <1>2, <1>4, <1>8
<1> QED
  BY <1>5, <1>8, <1>9

-------------------------------------------------------------------------------
(* A router in use, and what keeps it so.                                  *)

Good(k, t) ==
  {q \in RouterType(k) : LogSays(q, ToSet(q.held)) /\ AgreesFrom(q, t) /\ InOrder(q.log, t)}

\* An input that is heard now keeps all of it, and the presses follow.
LEMMA TouchGood ==
  ASSUME NEW k \in Consoles, NEW t \in 0..Session, NEW q \in Good(k, t), NEW control \in ToSet(k.inputs),
         NEW note \in Numbers \cup {None}, NEW happening \in Happening, NEW value \in Int
  PROVE  LET r == Touch(q, control, note, happening, value, t)
         IN  /\ r \in Good(k, t)
             /\ ToSet(r.held) = HeldAfter(ToSet(q.held), <<control, note>>, happening)
<1> DEFINE r == Touch(q, control, note, happening, value, t)
           after == HeldAfter(ToSet(q.held), <<control, note>>, happening)
<1>1. /\ q \in RouterType(k) /\ LogSays(q, ToSet(q.held)) /\ AgreesFrom(q, t) /\ InOrder(q.log, t)
      /\ t \in Int
  BY RouterAssumption DEF Good
<1>2. AgreesFrom(r, t) /\ InOrder(r.log, t)
  BY <1>1, TouchAgrees
<1>3. CASE Stray(q, control, note, happening)
  <2>1. r = q
    BY <1>1, <1>3, Touched
  <2>2. after = ToSet(q.held)
    BY <1>3 DEF Stray, HeldAfter
  <2> HIDE DEF r
  <2> QED
    BY <2>1, <2>2 DEF r
<1>4. CASE ~Stray(q, control, note, happening)
  <2>1. r \in RouterType(k) /\ TakesIn(q, r, control, note, happening, value, t)
    BY <1>1, <1>4, Touched
  <2>2. LogSays(r, after)
    <3>1. /\ happening = "press" => <<control, note>> \notin ToSet(q.held)
          /\ happening = "release" => <<control, note>> \in ToSet(q.held)
      BY <1>4 DEF Stray
    <3> QED
      BY <1>1, <1>4, <3>1, TouchSays
  <2> HIDE DEF r
  <2>3. ToSet(r.held) = after
    BY <2>1 DEF TakesIn, HeldAfter, Happening
  <2> QED
    BY <1>2, <2>1, <2>2, <2>3 DEF Good, r
<1> QED
  BY <1>3, <1>4

\* A router that has just started has it, and holds nothing.
LEMMA FreshGood ==
  ASSUME NEW k \in Consoles
  PROVE  Fresh(k) \in Good(k, 0) /\ ToSet(Fresh(k).held) = {}
<1>1. Fresh(k).held = <<>> /\ ToSet(<<>>) = {}
  BY FreshTyped DEF ToSet
<1> QED
  BY <1>1, FreshTyped, FreshAgrees, FreshSays DEF Good

\* The log of a console's router, replayed for another console.
LEMMA ResumeGood ==
  ASSUME NEW k \in Consoles, NEW t \in 0..Session, NEW q \in Good(k, t), NEW l \in Consoles
  PROVE  LET r == Resume(Fresh(l), q.log)
         IN  /\ r \in Good(l, t)
             /\ ToSet(r.held) = {press \in ToSet(q.held) : press[1] \in ToSet(l.inputs)}
             /\ SameEvents(k, l) => Plays(q, r)
<1> DEFINE log == q.log
           n == Len(log)
           r == Resume(Fresh(l), log)
<1>1. /\ q \in RouterType(k) /\ q.console = k /\ LogSays(q, ToSet(q.held)) /\ InOrder(log, t)
  BY DEF Good, RouterType
<1>2. log \in Seq(AnyEntry) /\ Fresh(l) \in RouterType(l) /\ r \in RouterType(l)
  BY <1>1, LogTyped
<1>3. AgreesFrom(r, t) /\ InOrder(r.log, t)
  BY <1>1, <1>2, ResumeAgrees
<1>4. LogSays(r, ToSet(r.held))
  <2>1. PICK f : Replaying(f, l, Fresh(l), log)
    BY <1>2, ResumeSteps
  <2> HIDE DEF r
  <2>2. n \in Nat
    BY <1>2
  <2> DEFINE J == {i \in 0..n : LogSays(f[i], ToSet(f[i].held))}
  <2>3. 0 \in J
    <3>1. f[0] = Fresh(l) /\ ToSet(Fresh(l).held) = {} /\ LogSays(Fresh(l), {})
      BY <2>1, FreshSays, FreshGood DEF Replaying
    <3>2. LogSays(f[0], ToSet(f[0].held))
      BY <3>1, Zenon
    <3> QED
      BY <2>2, <3>2
  <2>4. ASSUME NEW i \in 1..n, i - 1 \in J
        PROVE  i \in J
    <3> DEFINE p == f[i - 1]  c == log[i].control  note == log[i].note
               happening == log[i].happening  value == log[i].value  time == log[i].time
    <3>1. i \in 0..n /\ i - 1 \in 0..n
      BY <2>2
    <3>2. p \in RouterType(l) /\ f[i] = Replays(p, l.inputs, log[i]) /\ LogSays(p, ToSet(p.held))
      BY <2>1, <2>4, <3>1 DEF Replaying
    <3>3. note \in Numbers \cup {None} /\ happening \in Happening /\ value \in Int /\ time \in Int
      <4>1. log[i] \in AnyEntry
        BY <1>2, <3>1
      <4> QED
        BY <4>1 DEF AnyEntry
    <3>4. CASE c \notin ToSet(l.inputs)
      BY <3>1, <3>2, <3>4 DEF Replays
    <3>5. CASE c \in ToSet(l.inputs)
      <4>1. f[i] = Touch(p, c, note, happening, value, time)
        BY <3>2, <3>5 DEF Replays
      <4> HIDE DEF p, c, note, happening, value, time, J
      <4>2. CASE Stray(p, c, note, happening)
        <5>1. f[i] = p
          BY <3>2, <3>3, <3>5, <4>1, <4>2, Touched
        <5> QED
          BY <3>1, <3>2, <5>1 DEF J
      <4>3. CASE ~Stray(p, c, note, happening)
        <5>1. TakesIn(p, f[i], c, note, happening, value, time)
          BY <3>2, <3>3, <3>5, <4>1, <4>3, Touched
        <5>2. /\ happening = "press" => <<c, note>> \notin ToSet(p.held)
              /\ happening = "release" => <<c, note>> \in ToSet(p.held)
          BY <4>3 DEF Stray
        <5>3. LogSays(f[i], HeldAfter(ToSet(p.held), <<c, note>>, happening))
          BY <3>2, <3>3, <3>5, <4>1, <4>3, <5>2, TouchSays
        <5>4. ToSet(f[i].held) = HeldAfter(ToSet(p.held), <<c, note>>, happening)
          BY <3>3, <5>1 DEF TakesIn, HeldAfter, Happening
        <5> QED
          BY <3>1, <5>3, <5>4 DEF J
      <4> QED
        BY <4>2, <4>3
    <3> QED
      BY <3>4, <3>5
  <2> HIDE DEF J
  <2>5. n \in J
    <3>1. \A i \in 0..n : i \in J
      BY <2>2, <2>3, <2>4, Reaches
    <3> QED
      BY <2>2, <3>1
  <2> QED
    BY <2>1, <2>5 DEF J, Replaying, r
<1>5. /\ ToSet(r.held) = {press \in ToSet(q.held) : press[1] \in ToSet(l.inputs)}
      /\ SameEvents(k, l) => Plays(q, r)
  BY <1>1 DEF LogSays
<1> QED
  BY <1>2, <1>3, <1>4, <1>5 DEF Good

\* Everything that is held is released now.
LEMMA ReleaseAllGood ==
  ASSUME NEW k \in Consoles, NEW t \in 0..Session, NEW q \in Good(k, t)
  PROVE  ReleaseAll(q, t) \in Good(k, t) /\ ToSet(ReleaseAll(q, t).held) = {}
<1> DEFINE n == Len(q.held)
           Rest(i) == {q.held[j] : j \in (i + 1)..n}
           Released(r) == /\ r \in RouterType(k) /\ ToSet(r.held) = {}
                          /\ AgreesFrom(r, t) /\ InOrder(r.log, t)
           G == {r \in RouterType(k) : Released(r)}
<1>0. /\ q \in RouterType(k) /\ q.console = k /\ LogSays(q, ToSet(q.held))
      /\ AgreesFrom(q, t) /\ InOrder(q.log, t) /\ t \in Int /\ 0 \in Int
  BY RouterAssumption DEF Good, RouterType
<1>1. /\ n \in Nat /\ DOMAIN q.held = 1..n
      /\ \A i \in 1..n : q.held[i] \in Press(k)
      /\ \A i, j \in 1..n : q.held[i] = q.held[j] => i = j
  <2>1. q.held \in Seq(Press(k)) /\ IsInjective(q.held)
    BY <1>0 DEF RouterType, Unrepeated
  <2> QED
    BY <2>1 DEF IsInjective
<1> DEFINE base == [q EXCEPT !.held = <<>>]
<1>2. /\ base \in G /\ Released(base) /\ LogSays(base, Rest(0))
  <2>1. <<>> \in Unrepeated(Press(k)) /\ ToSet(<<>>) = {}
    BY DEF Unrepeated, IsInjective, ToSet
  <2>2. base \in RouterType(k) /\ base.held = <<>> /\ base.console = q.console
        /\ base.log = q.log /\ base.copies = q.copies /\ base.written = q.written
        /\ base.lights = q.lights /\ base.axes = q.axes
    BY <1>0, <2>1 DEF RouterType
  <2>3. Rest(0) = ToSet(q.held)
    BY <1>1 DEF ToSet
  <2> HIDE DEF base
  <2>4. LogSays(base, ToSet(q.held))
    BY <1>0, <2>2 DEF LogSays, Plays
  <2>5. AgreesFrom(base, t)
    BY <1>0, <2>2 DEF AgreesFrom
  <2> QED
    BY <1>0, <2>1, <2>2, <2>3, <2>4, <2>5
<1> HIDE DEF n, Rest, base
<1>3. ASSUME NEW r, NEW press \in Press(k), Released(r)
      PROVE  /\ Released(Releases(r, press, t))
             /\ \A held : press \in held /\ LogSays(r, held)
                          => LogSays(Releases(r, press, t), held \ {press})
  <2> DEFINE s == [r EXCEPT !.held = Append(@, press)]
             c == press[1]
             note == press[2]
  <2>1. c \in ToSet(k.inputs) /\ note \in Numbers \cup {None} /\ press = <<c, note>>
    BY DEF Press
  <2>2. /\ Append(r.held, press) \in Unrepeated(Press(k)) /\ ToSet(Append(r.held, press)) = {press}
    <3>1. r.held \in Unrepeated(Press(k)) /\ r.held \in Seq(Press(k)) /\ ToSet(r.held) = {}
      BY <1>3 DEF RouterType, Unrepeated
    <3> QED
      BY <3>1, Appended
  <2>3. /\ s \in RouterType(k) /\ ToSet(s.held) = {press} /\ s.console = r.console
        /\ s.log = r.log /\ s.copies = r.copies /\ s.written = r.written
        /\ s.lights = r.lights /\ s.axes = r.axes
    BY <1>3, <2>2 DEF RouterType
  <2>4. Releases(r, press, t) = Touch(s, c, note, "release", 0, t)
    BY DEF Releases
  <2> HIDE DEF s, c, note
  <2>5. AgreesFrom(s, t) /\ InOrder(s.log, t)
    BY <1>3, <2>3 DEF AgreesFrom
  <2>6. ~Stray(s, c, note, "release") /\ "release" \in Happening
    BY <2>1, <2>3 DEF Stray, Happening
  <2> DEFINE u == Touch(s, c, note, "release", 0, t)
  <2>7. u \in RouterType(k) /\ TakesIn(s, u, c, note, "release", 0, t)
    BY <1>0, <2>1, <2>3, <2>6, Touched
  <2>8. AgreesFrom(u, t) /\ InOrder(u.log, t)
    BY <1>0, <2>1, <2>3, <2>5, <2>6, TouchAgrees
  <2> HIDE DEF u
  <2>9. ASSUME NEW held, press \in held, LogSays(r, held)
        PROVE  LogSays(u, held \ {press})
    <3>1. LogSays(s, held)
      BY <2>3, <2>9 DEF LogSays, Plays
    <3>2. LogSays(u, HeldAfter(held, <<c, note>>, "release"))
      BY <1>0, <2>1, <2>3, <2>6, <2>9, <3>1, TouchSays DEF u
    <3> QED
      BY <2>1, <3>2 DEF HeldAfter
  <2>10. ToSet(u.held) = {}
    BY <2>3, <2>1, <2>7 DEF TakesIn
  <2> QED
    BY <2>4, <2>7, <2>8, <2>9, <2>10 DEF u
<1> HIDE DEF Released
<1>4. ASSUME NEW r \in G, NEW i \in 1..n
      PROVE  Releases(r, q.held[i], t) \in G
  <2>1. q.held[i] \in Press(k) /\ Released(r)
    BY <1>1
  <2> QED
    BY <1>3, <2>1 DEF Released
<1> HIDE DEF G
<1>5. PICK f : ReleasesBy(f, G, n, q, t)
  BY <1>1, <1>2, <1>4, ReleaseAllFold DEF base
<1> DEFINE J == {i \in 0..n : Released(f[i]) /\ LogSays(f[i], Rest(i))}
<1>6. 0 \in J
  BY <1>1, <1>2, <1>5 DEF ReleasesBy, base
<1>7. ASSUME NEW i \in 1..n, i - 1 \in J
      PROVE  i \in J
  <2>1. i \in 0..n /\ f[i] = Releases(f[i - 1], q.held[i], t)
    BY <1>5 DEF ReleasesBy
  <2>2. Released(f[i - 1]) /\ LogSays(f[i - 1], Rest(i - 1))
    BY <1>7
  <2>3. q.held[i] \in Rest(i - 1) /\ Rest(i) = Rest(i - 1) \ {q.held[i]}
    BY <1>1 DEF Rest
  <2>4. q.held[i] \in Press(k)
    BY <1>1
  <2>5. Released(f[i]) /\ LogSays(f[i], Rest(i))
    BY <1>3, <2>1, <2>2, <2>3, <2>4
  <2> QED
    BY <2>1, <2>5
<1> HIDE DEF J
<1>8. n \in J
  <2>1. \A i \in 0..n : i \in J
    BY <1>1, <1>6, <1>7, Reaches
  <2> QED
    BY <1>1, <2>1
<1>9. Released(ReleaseAll(q, t)) /\ LogSays(ReleaseAll(q, t), {})
  <2>1. Rest(n) = {}
    BY <1>1 DEF Rest
  <2> QED
    BY <1>5, <1>8, <2>1 DEF J, ReleasesBy
<1> QED
  BY <1>9 DEF Good, Released

-------------------------------------------------------------------------------
(* A performance: what holds each press, and why.                          *)

Held(p) == ToSet(p.router.held)
By(p, c) == p.router.console.reads[c].by
Stage(p, k, t) ==
  [generation : {p.generation}, session : {p.session}, router : Good(k, t),
   midiHeld : [Controls \X Numbers -> SUBSET MidiPorts], midi : {p.midi}, osc : {p.osc}]

\* A port holds only what the console reads, and a steady pedal has its number.
Where(p) ==
  \A c \in Controls, n \in Numbers :
    p.midiHeld[<<c, n>>] # {} =>
      /\ c \in ToSet(p.router.console.inputs)
      /\ Steady(c) /\ By(p, c) = "pedal" => n \in p.router.console.reads[c].numbers
Matched(p) ==
  \A press \in Holdable(p.router.console) :
    p.midiHeld[press] # {} <=> <<press[1], Note(p, press[1], press[2])>> \in Held(p)

\* What the ports hold, and the presses, have reasons R: a port, a number and
\* a control each.
Backed(p, R) ==
  /\ \A c \in Controls, n \in Numbers : \A port \in p.midiHeld[<<c, n>>] : <<port, n, c>> \in R
  /\ \A press \in Held(p) :
       KeepsKind(press[1]) =>
         IF By(p, press[1]) \in {"notes", "pedal"}
           THEN \E n \in Numbers : press[2] = Note(p, press[1], n) /\ p.midiHeld[<<press[1], n>>] # {}
           ELSE press[2] = None /\ \E r \in R : r[3] = press[1]

Reasons ==
  {reason \in (Ports \cup {Keyboard}) \X Numbers \X Controls :
     reason[3] \in Readers(reason[1], reason[2]) /\ Ending(reason[3], reason[1], reason[2])}

Kept(p, R) == Where(p) /\ Matched(p) /\ Backed(p, R)

\* One press, release or move, as it reaches the router.
LEMMA PressedTyped ==
  ASSUME NEW p0, NEW k \in Consoles, now \in 0..Session, NEW p \in Stage(p0, k, now),
         NEW c \in ToSet(k.inputs), NEW note \in Numbers \cup {None},
         NEW happening \in Happening, NEW value \in Int
  PROVE  LET q == Pressed(p, c, note, happening, value)
         IN  /\ q \in Stage(p0, k, now) /\ q.midiHeld = p.midiHeld
             /\ Held(q) = HeldAfter(Held(p), <<c, note>>, happening)
<1> DEFINE r == Touch(p.router, c, note, happening, value, now)
<1>1. p.router \in Good(k, now)
  BY DEF Stage
<1>2. r \in Good(k, now) /\ ToSet(r.held) = HeldAfter(ToSet(p.router.held), <<c, note>>, happening)
  BY <1>1, TouchGood
<1>3. Pressed(p, c, note, happening, value) = [p EXCEPT !.router = r]
  BY DEF Pressed, Stage
<1> HIDE DEF r
<1>4. [p EXCEPT !.router = r] \in Stage(p0, k, now)
  BY <1>2 DEF Stage
<1>5. [p EXCEPT !.router = r].router = r /\ [p EXCEPT !.router = r].midiHeld = p.midiHeld
  BY DEF Stage
<1> QED
  BY <1>2, <1>3, <1>4, <1>5 DEF Held

\* The console of a performance's router.
LEMMA StageConsole ==
  ASSUME NEW p0, NEW k, NEW t, NEW p \in Stage(p0, k, t)
  PROVE  p.router.console = k
  BY DEF Stage, Good, RouterType

\* A port more, and the press when it is the first.
Downed(p, q, c, n, port) ==
  /\ q.router.console = p.router.console
  /\ q.midiHeld = [p.midiHeld EXCEPT ![<<c, n>>] = @ \cup {port}]
  /\ Held(q) = IF p.midiHeld[<<c, n>>] = {} THEN Held(p) \cup {<<c, Note(p, c, n)>>} ELSE Held(p)

\* What one more port that holds a press makes of a performance.
LEMMA DownTyped ==
  ASSUME NEW p0, NEW k \in Consoles, now \in 0..Session, NEW p \in Stage(p0, k, now),
         NEW c \in ToSet(k.inputs), NEW n \in Numbers, NEW port \in MidiPorts, NEW value \in Int
  PROVE  /\ Down(p, c, n, port, value) \in Stage(p0, k, now)
         /\ Downed(p, Down(p, c, n, port, value), c, n, port)
<1> DEFINE held == [p EXCEPT !.midiHeld[<<c, n>>] = @ \cup {port}]
           q == Down(p, c, n, port, value)
<1>1. /\ held \in Stage(p0, k, now) /\ held.router = p.router
      /\ held.midiHeld = [p.midiHeld EXCEPT ![<<c, n>>] = @ \cup {port}]
  <2>1. <<c, n>> \in Controls \X Numbers
    BY DEF Controls
  <2> QED
    BY <2>1 DEF Stage
<1> HIDE DEF held
<1>2. Held(held) = Held(p) /\ Note(p, c, n) \in Numbers \cup {None} /\ "press" \in Happening
  BY <1>1 DEF Held, Note, Happening
<1>3. q = IF p.midiHeld[<<c, n>>] = {} THEN Pressed(held, c, Note(p, c, n), "press", value) ELSE held
  BY DEF Down, held
<1> HIDE DEF q
<1>4. CASE p.midiHeld[<<c, n>>] = {}
  <2>1. /\ q \in Stage(p0, k, now) /\ q.midiHeld = held.midiHeld
        /\ Held(q) = HeldAfter(Held(held), <<c, Note(p, c, n)>>, "press")
    BY <1>1, <1>2, <1>3, <1>4, PressedTyped
  <2> QED
    BY <1>1, <1>2, <1>4, <2>1, StageConsole DEF Downed, HeldAfter, q
<1>5. CASE p.midiHeld[<<c, n>>] # {}
  BY <1>1, <1>2, <1>3, <1>5, StageConsole DEF Downed, q
<1> QED
  BY <1>4, <1>5

\* A port less, and the release when it is the last.
Upped(p, q, c, n, port) ==
  /\ q.router.console = p.router.console
  /\ q.midiHeld = [p.midiHeld EXCEPT ![<<c, n>>] = @ \ {port}]
  /\ Held(q) = IF p.midiHeld[<<c, n>>] = {port} THEN Held(p) \ {<<c, Note(p, c, n)>>} ELSE Held(p)

\* What one port less makes of it.
LEMMA UpTyped ==
  ASSUME NEW p0, NEW k \in Consoles, now \in 0..Session, NEW p \in Stage(p0, k, now),
         NEW c \in ToSet(k.inputs), NEW n \in Numbers, NEW port
  PROVE  /\ Up(p, c, n, port) \in Stage(p0, k, now)
         /\ Upped(p, Up(p, c, n, port), c, n, port)
<1> DEFINE freed == [p EXCEPT !.midiHeld[<<c, n>>] = @ \ {port}]
           q == Up(p, c, n, port)
<1>1. /\ freed \in Stage(p0, k, now) /\ freed.router = p.router
      /\ freed.midiHeld = [p.midiHeld EXCEPT ![<<c, n>>] = @ \ {port}]
  <2>1. <<c, n>> \in Controls \X Numbers
    BY DEF Controls
  <2> QED
    BY <2>1 DEF Stage
<1> HIDE DEF freed
<1>2. Held(freed) = Held(p) /\ Note(p, c, n) \in Numbers \cup {None} /\ "release" \in Happening /\ 0 \in Int
  BY <1>1 DEF Held, Note, Happening
<1>3. q = IF p.midiHeld[<<c, n>>] = {port} THEN Pressed(freed, c, Note(p, c, n), "release", 0) ELSE freed
  BY DEF Up, freed
<1> HIDE DEF q
<1>4. CASE p.midiHeld[<<c, n>>] = {port}
  <2>1. /\ q \in Stage(p0, k, now) /\ q.midiHeld = freed.midiHeld
        /\ Held(q) = HeldAfter(Held(freed), <<c, Note(p, c, n)>>, "release")
    BY <1>1, <1>2, <1>3, <1>4, PressedTyped
  <2> QED
    BY <1>1, <1>2, <1>4, <2>1, StageConsole DEF Upped, HeldAfter, q
<1>5. CASE p.midiHeld[<<c, n>>] # {port}
  BY <1>1, <1>2, <1>3, <1>5, StageConsole DEF Upped, q
<1> QED
  BY <1>4, <1>5

\* A number that the console's pedal reads is the pedal's.
LEMMA OneNumber ==
  ASSUME NEW k \in Consoles, NEW c \in ToSet(k.inputs), k.reads[c].by = "pedal",
         NEW m \in k.reads[c].numbers, NEW n \in k.reads[c].numbers
  PROVE  m = n
<1>1. WellRead(k.reads[c])
  BY InputAssumption
<1> QED
  BY <1>1 DEF WellRead

\* The first port presses and the others do not, so ports and presses match still.
LEMMA DownKept ==
  ASSUME NEW k \in Consoles, NEW p, NEW q, p.router.console = k,
         p.midiHeld \in [Controls \X Numbers -> SUBSET MidiPorts],
         NEW c \in ToSet(k.inputs), NEW n \in Numbers, NEW port, NEW R,
         Downed(p, q, c, n, port), Kept(p, R),
         k.reads[c].by \in {"notes", "pedal"}, n \in k.reads[c].numbers, <<port, n, c>> \in R
  PROVE  Kept(q, R)
<1>0. c \in Controls /\ <<c, n>> \in Controls \X Numbers
  BY DEF Controls
<1>1. /\ q.router.console = k /\ \A d, m : Note(q, d, m) = Note(p, d, m)
      /\ \A d : By(q, d) = k.reads[d].by /\ By(p, d) = k.reads[d].by
  BY DEF Downed, Note, By
<1>2. \A d \in Controls, m \in Numbers :
        q.midiHeld[<<d, m>>] = IF d = c /\ m = n THEN p.midiHeld[<<d, m>>] \cup {port}
                               ELSE p.midiHeld[<<d, m>>]
  BY <1>0 DEF Downed
<1>3. Held(q) = IF p.midiHeld[<<c, n>>] = {} THEN Held(p) \cup {<<c, Note(p, c, n)>>} ELSE Held(p)
  BY DEF Downed
<1>4. Where(q)
  <2> SUFFICES ASSUME NEW d \in Controls, NEW m \in Numbers, q.midiHeld[<<d, m>>] # {}
               PROVE  /\ d \in ToSet(k.inputs)
                      /\ Steady(d) /\ k.reads[d].by = "pedal" => m \in k.reads[d].numbers
    BY <1>1 DEF Where
  <2>1. CASE d = c /\ m = n
    BY <2>1
  <2>2. CASE ~(d = c /\ m = n)
    <3>1. p.midiHeld[<<d, m>>] # {}
      BY <1>2, <2>2
    <3> QED
      BY <1>1, <3>1 DEF Kept, Where
  <2> QED
    BY <2>1, <2>2
<1>5. Matched(q)
  <2> SUFFICES ASSUME NEW press \in Holdable(k)
               PROVE  q.midiHeld[press] # {} <=> <<press[1], Note(p, press[1], press[2])>> \in Held(q)
    BY <1>1 DEF Matched
  <2> DEFINE d == press[1]  m == press[2]
  <2>1. /\ d \in ToSet(k.inputs) /\ d \in Controls /\ m \in Numbers /\ press = <<d, m>>
        /\ k.reads[d].by \in {"notes", "pedal"} /\ (k.reads[d].by = "pedal" => m \in k.reads[d].numbers)
    BY DEF Holdable, Reads, Controls
  <2>2. p.midiHeld[<<d, m>>] # {} <=> <<d, Note(p, d, m)>> \in Held(p)
    BY <2>1 DEF Kept, Matched
  <2> HIDE DEF d, m
  <2>3. CASE d = c /\ m = n
    <3>1. q.midiHeld[<<d, m>>] # {}
      BY <1>2, <2>1, <2>3
    <3>2. <<d, Note(p, d, m)>> \in Held(q)
      BY <1>3, <2>2, <2>3
    <3> QED
      BY <2>1, <3>1, <3>2 DEF d, m
  <2>4. CASE ~(d = c /\ m = n)
    <3>1. <<d, Note(p, d, m)>> # <<c, Note(p, c, n)>>
      <4>1. CASE d # c
        BY <4>1
      <4>2. CASE d = c /\ k.reads[d].by = "notes"
        BY <1>1, <2>4, <4>2 DEF Note
      <4>3. CASE d = c /\ k.reads[d].by = "pedal"
        BY <2>1, <2>4, <4>3, OneNumber
      <4> QED
        BY <2>1, <4>1, <4>2, <4>3
    <3>2. q.midiHeld[<<d, m>>] = p.midiHeld[<<d, m>>]
      BY <1>2, <2>1, <2>4
    <3> QED
      BY <1>3, <2>1, <2>2, <3>1, <3>2 DEF d, m
  <2> QED
    BY <2>3, <2>4
<1>6. Backed(q, R)
  <2>1. \A d \in Controls, m \in Numbers : \A at \in q.midiHeld[<<d, m>>] : <<at, m, d>> \in R
    BY <1>2 DEF Kept, Backed
  <2>2. ASSUME NEW press \in Held(q), KeepsKind(press[1])
        PROVE  IF By(q, press[1]) \in {"notes", "pedal"}
                 THEN \E m \in Numbers : press[2] = Note(q, press[1], m) /\ q.midiHeld[<<press[1], m>>] # {}
                 ELSE press[2] = None /\ \E r \in R : r[3] = press[1]
    <3>1. CASE press \in Held(p) /\ k.reads[press[1]].by \in {"notes", "pedal"}
      <4>1. PICK m \in Numbers : press[2] = Note(p, press[1], m) /\ p.midiHeld[<<press[1], m>>] # {}
        BY <1>1, <2>2, <3>1 DEF Kept, Backed
      <4>2. q.midiHeld[<<press[1], m>>] # {}
        <5>1. CASE press[1] = c /\ m = n
          BY <1>0, <1>2, <5>1
        <5>2. CASE ~(press[1] = c /\ m = n)
          <6>1. <<press[1], m>> # <<c, n>>
            BY <5>2
          <6> QED
            BY <4>1, <6>1, <1>0 DEF Downed
        <5> QED
          BY <5>1, <5>2
      <4> QED
        BY <1>1, <3>1, <4>1, <4>2
    <3>2. CASE press \in Held(p) /\ k.reads[press[1]].by \notin {"notes", "pedal"}
      BY <1>1, <2>2, <3>2 DEF Kept, Backed
    <3>3. CASE press \notin Held(p)
      <4>1. press = <<c, Note(p, c, n)>>
        BY <1>3, <3>3
      <4>2. q.midiHeld[<<c, n>>] # {}
        BY <1>0, <1>2
      <4> QED
        BY <1>1, <4>1, <4>2
    <3> QED
      BY <3>1, <3>2, <3>3
  <2> QED
    BY <1>1, <2>1, <2>2 DEF Backed
<1> QED
  BY <1>4, <1>5, <1>6 DEF Kept

\* The last port releases and the others do not, so ports and presses match still.
LEMMA UpKept ==
  ASSUME NEW k \in Consoles, NEW p, NEW q, p.router.console = k,
         p.midiHeld \in [Controls \X Numbers -> SUBSET MidiPorts],
         NEW c \in ToSet(k.inputs), NEW n \in Numbers, NEW port, NEW R,
         Held(p) \subseteq Press(k), Upped(p, q, c, n, port), Kept(p, R)
  PROVE  Kept(q, R)
<1>0. c \in Controls /\ <<c, n>> \in Controls \X Numbers
  BY DEF Controls
<1>1. /\ q.router.console = k /\ \A d, m : Note(q, d, m) = Note(p, d, m)
      /\ \A d : By(q, d) = k.reads[d].by /\ By(p, d) = k.reads[d].by
  BY DEF Upped, Note, By
<1>2. /\ q.midiHeld = [p.midiHeld EXCEPT ![<<c, n>>] = @ \ {port}]
      /\ \A d \in Controls, m \in Numbers :
           q.midiHeld[<<d, m>>] = IF d = c /\ m = n THEN p.midiHeld[<<d, m>>] \ {port}
                                  ELSE p.midiHeld[<<d, m>>]
  BY <1>0 DEF Upped
<1>3. Held(q) = IF p.midiHeld[<<c, n>>] = {port} THEN Held(p) \ {<<c, Note(p, c, n)>>} ELSE Held(p)
  BY DEF Upped
<1>4. Where(q)
  BY <1>0, <1>1, <1>2 DEF Kept, Where
<1>5. Matched(q)
  <2> SUFFICES ASSUME NEW press \in Holdable(k)
               PROVE  q.midiHeld[press] # {} <=> <<press[1], Note(p, press[1], press[2])>> \in Held(q)
    BY <1>1 DEF Matched
  <2> DEFINE d == press[1]  m == press[2]
  <2>1. /\ d \in ToSet(k.inputs) /\ d \in Controls /\ m \in Numbers /\ press = <<d, m>> /\ Steady(d)
        /\ k.reads[d].by \in {"notes", "pedal"} /\ (k.reads[d].by = "pedal" => m \in k.reads[d].numbers)
    BY DEF Holdable, Reads, Controls
  <2>2. p.midiHeld[<<d, m>>] # {} <=> <<d, Note(p, d, m)>> \in Held(p)
    BY <2>1 DEF Kept, Matched
  <2> HIDE DEF d, m
  <2>3. CASE d = c /\ m = n
    <3>1. CASE p.midiHeld[<<c, n>>] = {port}
      BY <1>2, <1>3, <2>1, <2>3, <3>1 DEF d, m
    <3>2. CASE p.midiHeld[<<c, n>>] # {port}
      <4>1. q.midiHeld[<<c, n>>] # {} <=> p.midiHeld[<<c, n>>] # {}
        BY <1>0, <1>2, <3>2
      <4> QED
        BY <1>3, <2>1, <2>2, <2>3, <3>2, <4>1 DEF d, m
    <3> QED
      BY <3>1, <3>2
  <2>4. CASE ~(d = c /\ m = n)
    <3>1. q.midiHeld[<<d, m>>] = p.midiHeld[<<d, m>>]
      BY <1>2, <2>1, <2>4
    <3>2. CASE p.midiHeld[<<c, n>>] # {port}
      BY <1>3, <2>1, <2>2, <3>1, <3>2 DEF d, m
    <3>3. CASE p.midiHeld[<<c, n>>] = {port}
      <4>1. <<d, Note(p, d, m)>> # <<c, Note(p, c, n)>>
        <5>1. CASE d # c
          BY <5>1
        <5>2. CASE d = c /\ k.reads[d].by = "notes"
          BY <1>1, <2>4, <5>2 DEF Note
        <5>3. CASE d = c /\ k.reads[d].by = "pedal"
          <6>1. n \in k.reads[c].numbers
            BY <1>0, <1>1, <2>1, <3>3, <5>3 DEF Kept, Where
          <6> QED
            BY <2>1, <2>4, <5>3, <6>1, OneNumber
        <5> QED
          BY <2>1, <5>1, <5>2, <5>3
      <4> QED
        BY <1>3, <2>1, <2>2, <3>1, <3>3, <4>1 DEF d, m
    <3> QED
      BY <3>2, <3>3
  <2> QED
    BY <2>3, <2>4
<1>6. Backed(q, R)
  <2>1. \A d \in Controls, m \in Numbers : \A at \in q.midiHeld[<<d, m>>] : <<at, m, d>> \in R
    BY <1>2 DEF Kept, Backed
  <2>2. ASSUME NEW press \in Held(q), KeepsKind(press[1])
        PROVE  IF By(q, press[1]) \in {"notes", "pedal"}
                 THEN \E m \in Numbers : press[2] = Note(q, press[1], m) /\ q.midiHeld[<<press[1], m>>] # {}
                 ELSE press[2] = None /\ \E r \in R : r[3] = press[1]
    <3>0. press \in Held(p)
      BY <1>3
    <3>1. CASE k.reads[press[1]].by \in {"notes", "pedal"}
      <4>1. PICK m \in Numbers : press[2] = Note(p, press[1], m) /\ p.midiHeld[<<press[1], m>>] # {}
        BY <1>1, <2>2, <3>0, <3>1 DEF Kept, Backed
      <4>2. q.midiHeld[<<press[1], m>>] # {}
        <5>1. CASE press[1] = c /\ m = n
          <6>1. CASE p.midiHeld[<<c, n>>] = {port}
            <7>1. press = <<press[1], press[2]>>
              BY <3>0 DEF Press
            <7>2. press = <<c, Note(p, c, n)>>
              BY <4>1, <5>1, <7>1
            <7> QED
              BY <1>3, <2>2, <6>1, <7>2
          <6>2. CASE p.midiHeld[<<c, n>>] # {port}
            BY <1>0, <1>2, <4>1, <5>1, <6>2
          <6> QED
            BY <6>1, <6>2
        <5>2. CASE ~(press[1] = c /\ m = n)
          <6>1. <<press[1], m>> # <<c, n>>
            BY <5>2
          <6> QED
            BY <1>0, <1>2, <4>1, <6>1
        <5> QED
          BY <5>1, <5>2
      <4> QED
        BY <1>1, <3>1, <4>1, <4>2
    <3>2. CASE k.reads[press[1]].by \notin {"notes", "pedal"}
      BY <1>1, <2>2, <3>0, <3>2 DEF Kept, Backed
    <3> QED
      BY <3>1, <3>2
  <2> QED
    BY <1>1, <2>1, <2>2 DEF Backed
<1> QED
  BY <1>4, <1>5, <1>6 DEF Kept

\* A control that the ports do not hold is pressed, let go of or moved.
LEMMA DirectKept ==
  ASSUME NEW k \in Consoles, NEW p, NEW q, p.router.console = k, q.router.console = k,
         NEW c, NEW R, Kept(p, R), k.reads[c].by \notin {"notes", "pedal"},
         q.midiHeld = p.midiHeld, Held(q) \subseteq Held(p) \cup {<<c, None>>},
         Held(p) \ {<<c, None>>} \subseteq Held(q),
         <<c, None>> \in Held(q) /\ <<c, None>> \notin Held(p) => \E r \in R : r[3] = c
  PROVE  Kept(q, R)
<1>1. /\ \A d, m : Note(q, d, m) = Note(p, d, m)
      /\ \A d : By(q, d) = k.reads[d].by /\ By(p, d) = k.reads[d].by
  BY DEF Note, By
<1>2. Where(q)
  BY <1>1 DEF Kept, Where
<1>3. Matched(q)
  <2> SUFFICES ASSUME NEW press \in Holdable(k)
               PROVE  q.midiHeld[press] # {} <=> <<press[1], Note(p, press[1], press[2])>> \in Held(q)
    BY <1>1 DEF Matched
  <2>1. press[1] # c
    BY DEF Holdable, Reads
  <2>2. <<press[1], Note(p, press[1], press[2])>> # <<c, None>>
    BY <2>1
  <2>3. p.midiHeld[press] # {} <=> <<press[1], Note(p, press[1], press[2])>> \in Held(p)
    BY DEF Kept, Matched
  <2> QED
    BY <2>2, <2>3
<1>4. Backed(q, R)
  <2>1. \A d \in Controls, m \in Numbers : \A at \in q.midiHeld[<<d, m>>] : <<at, m, d>> \in R
    BY DEF Kept, Backed
  <2>2. ASSUME NEW press \in Held(q), KeepsKind(press[1])
        PROVE  IF k.reads[press[1]].by \in {"notes", "pedal"}
                 THEN \E m \in Numbers : press[2] = Note(p, press[1], m) /\ q.midiHeld[<<press[1], m>>] # {}
                 ELSE press[2] = None /\ \E r \in R : r[3] = press[1]
    <3>1. CASE press \in Held(p)
      BY <1>1, <2>2, <3>1 DEF Kept, Backed
    <3>2. CASE press \notin Held(p)
      BY <2>2, <3>2
    <3> QED
      BY <3>1, <3>2
  <2> QED
    BY <1>1, <2>1, <2>2 DEF Backed
<1> QED
  BY <1>2, <1>3, <1>4 DEF Kept

\* Reasons may come; those that go must leave nothing behind.
LEMMA Restated ==
  ASSUME NEW p, NEW R, NEW S, NEW T, Kept(p, R), \A r \in R : r \in S \/ r \in T,
         \A c \in Controls, n \in Numbers : \A port \in p.midiHeld[<<c, n>>] : <<port, n, c>> \notin T,
         \A press \in Held(p) :
           KeepsKind(press[1]) /\ By(p, press[1]) \notin {"notes", "pedal"} /\ press[2] = None
             => \A r \in R \cap T : r[3] # press[1]
  PROVE  Kept(p, S)
<1>1. \A c \in Controls, n \in Numbers : \A port \in p.midiHeld[<<c, n>>] : <<port, n, c>> \in S
  BY DEF Kept, Backed
<1>2. ASSUME NEW press \in Held(p), KeepsKind(press[1]), By(p, press[1]) \notin {"notes", "pedal"}
      PROVE  press[2] = None /\ \E r \in S : r[3] = press[1]
  <2>1. press[2] = None /\ \E r \in R : r[3] = press[1]
    BY <1>2 DEF Kept, Backed
  <2> QED
    BY <1>2, <2>1
<1>3. Backed(p, S)
  BY <1>1, <1>2 DEF Kept, Backed
<1> QED
  BY <1>3 DEF Kept

\* The performances that an input may make of the one in progress.
Kin(k, R) == {q \in Stage(perform, k, now) : Kept(q, R)}

\* What there is to know of such a performance.
LEMMA KinTyped ==
  ASSUME NEW k \in Consoles, NEW R, NEW q \in Kin(k, R)
  PROVE  /\ q \in Stage(perform, k, now) /\ Kept(q, R) /\ q.router.console = k
         /\ q.midiHeld \in [Controls \X Numbers -> SUBSET MidiPorts]
         /\ Held(q) \subseteq Press(k)
<1>1. q \in Stage(perform, k, now) /\ Kept(q, R)
  BY DEF Kin
<1>2. q.router \in RouterType(k) /\ q.midiHeld \in [Controls \X Numbers -> SUBSET MidiPorts]
  BY <1>1 DEF Stage, Good
<1>3. q.router.console = k /\ q.router.held \in Seq(Press(k))
  BY <1>2 DEF RouterType, Unrepeated
<1>4. Held(q) \subseteq Press(k)
  BY <1>3 DEF Held, ToSet
<1> QED
  BY <1>1, <1>2, <1>3, <1>4

\* A port lets go of a press.
LEMMA UpKin ==
  ASSUME NEW k \in Consoles, now \in 0..Session, NEW R, NEW q \in Kin(k, R),
         NEW c \in ToSet(k.inputs), NEW n \in Numbers, NEW port
  PROVE  Up(q, c, n, port) \in Kin(k, R) /\ Upped(q, Up(q, c, n, port), c, n, port)
<1>1. /\ q \in Stage(perform, k, now) /\ Kept(q, R) /\ q.router.console = k
      /\ q.midiHeld \in [Controls \X Numbers -> SUBSET MidiPorts]
      /\ Held(q) \subseteq Press(k)
  BY KinTyped
<1> DEFINE r == Up(q, c, n, port)
<1>2. r \in Stage(perform, k, now) /\ Upped(q, r, c, n, port)
  BY <1>1, UpTyped
<1> HIDE DEF r
<1>3. Kept(r, R)
  BY <1>1, <1>2, UpKept
<1> QED
  BY <1>2, <1>3 DEF Kin, r

\* A port presses what the console reads from it, for a reason.
LEMMA DownKin ==
  ASSUME NEW k \in Consoles, now \in 0..Session, NEW R, NEW q \in Kin(k, R),
         NEW c \in ToSet(k.inputs), NEW n \in Numbers, NEW port \in MidiPorts, NEW value \in Int,
         k.reads[c].by \in {"notes", "pedal"}, n \in k.reads[c].numbers, <<port, n, c>> \in R
  PROVE  Down(q, c, n, port, value) \in Kin(k, R)
<1>1. /\ q \in Stage(perform, k, now) /\ Kept(q, R) /\ q.router.console = k
      /\ q.midiHeld \in [Controls \X Numbers -> SUBSET MidiPorts]
  BY KinTyped
<1> DEFINE r == Down(q, c, n, port, value)
<1>2. r \in Stage(perform, k, now) /\ Downed(q, r, c, n, port)
  BY <1>1, DownTyped
<1> HIDE DEF r
<1>3. Kept(r, R)
  BY <1>1, <1>2, DownKept
<1> QED
  BY <1>2, <1>3 DEF Kin, r

\* What an input does to the presses of a control that the ports do not hold.
LEMMA DirectKin ==
  ASSUME NEW k \in Consoles, now \in 0..Session, NEW R, NEW q \in Kin(k, R),
         NEW c \in ToSet(k.inputs), k.reads[c].by \notin {"notes", "pedal"},
         NEW happening \in Happening, NEW value \in Int,
         happening = "press" => \E reason \in R : reason[3] = c
  PROVE  LET r == Pressed(q, c, None, happening, value)
         IN  /\ r \in Kin(k, R) /\ r.midiHeld = q.midiHeld
             /\ Held(r) = HeldAfter(Held(q), <<c, None>>, happening)
<1> DEFINE r == Pressed(q, c, None, happening, value)
<1>0. None \in Numbers \cup {None}
  OBVIOUS
<1>1. q \in Stage(perform, k, now) /\ Kept(q, R) /\ q.router.console = k
  BY KinTyped
<1>2. /\ r \in Stage(perform, k, now) /\ r.midiHeld = q.midiHeld
      /\ Held(r) = HeldAfter(Held(q), <<c, None>>, happening)
  BY <1>0, <1>1, PressedTyped
<1> HIDE DEF r
<1>3. r.router.console = k
  BY <1>2, StageConsole
<1>4. /\ Held(r) \subseteq Held(q) \cup {<<c, None>>} /\ Held(q) \ {<<c, None>>} \subseteq Held(r)
      /\ <<c, None>> \in Held(r) /\ <<c, None>> \notin Held(q) => happening = "press"
  BY <1>2 DEF HeldAfter, Happening
<1>5. Kept(r, R)
  BY <1>1, <1>2, <1>3, <1>4, DirectKept
<1> QED
  BY <1>2, <1>5 DEF Kin, r

\* A message that comes without a value is a press and its release.
LEMMA TapKin ==
  ASSUME NEW k \in Consoles, now \in 0..Session, NEW R, NEW q \in Kin(k, R),
         NEW c \in ToSet(k.inputs), k.reads[c].by \notin {"notes", "pedal"}
  PROVE  LET r == Pressed(Pressed(q, c, None, "press", Full), c, None, "release", 0)
         IN  /\ r \in Kin(k, R) /\ r.midiHeld = q.midiHeld
             /\ Held(r) = Held(q) \ {<<c, None>>}
<1> DEFINE s == Pressed(q, c, None, "press", Full)
           r == Pressed(s, c, None, "release", 0)
<1>0. None \in Numbers \cup {None} /\ Full \in Int /\ 0 \in Int /\ "press" \in Happening /\ "release" \in Happening
  BY RouterAssumption DEF Happening
<1>1. q \in Stage(perform, k, now) /\ Kept(q, R) /\ q.router.console = k
  BY KinTyped
<1>2. /\ s \in Stage(perform, k, now) /\ s.midiHeld = q.midiHeld
      /\ Held(s) = HeldAfter(Held(q), <<c, None>>, "press")
  BY <1>0, <1>1, PressedTyped
<1> HIDE DEF s
<1>3. /\ r \in Stage(perform, k, now) /\ r.midiHeld = s.midiHeld
      /\ Held(r) = HeldAfter(Held(s), <<c, None>>, "release")
  BY <1>0, <1>2, PressedTyped
<1> HIDE DEF r
<1>4. r.router.console = k /\ r.midiHeld = q.midiHeld /\ Held(r) = Held(q) \ {<<c, None>>}
  BY <1>2, <1>3, StageConsole DEF HeldAfter
<1>5. Kept(r, R)
  BY <1>1, <1>4, DirectKept
<1> QED
  BY <1>3, <1>4, <1>5 DEF Kin, r, s

\* A key.
LEMMA KeyedKept ==
  ASSUME NEW k \in Consoles, now \in 0..Session, NEW R, perform \in Kin(k, R),
         NEW number \in Numbers, NEW happening \in {"press", "release"},
         happening = "press" => \A c \in Bound({"key"}, number, Keyboard) : \E r \in R : r[3] = c
  PROVE  LET q == Keyed(number, happening)
         IN  /\ q \in Kin(k, R) /\ q.midiHeld = perform.midiHeld
             /\ happening = "release" => \A c \in Bound({"key"}, number, Keyboard) : <<c, None>> \notin Held(q)
<1> DEFINE inputs == k.inputs
           n == Len(inputs)
           ears == Bound({"key"}, number, Keyboard)
           value == IF happening = "press" THEN Full ELSE 0
           G == {q \in Kin(k, R) : q.midiHeld = perform.midiHeld}
<1>1. /\ n \in Nat /\ DOMAIN inputs = 1..n /\ \A i \in 1..n : inputs[i] \in ToSet(k.inputs)
      /\ \A c \in ToSet(k.inputs) : \E i \in 1..n : c = inputs[i]
  <2>1. k.inputs \in Seq(ToSet(k.inputs))
    BY InputAssumption DEF WellFormed
  <2> QED
    BY <2>1 DEF ToSet
<1>2. perform.router.console = k /\ perform \in G
  BY KinTyped
<1>3. \A c \in ears : c \in ToSet(k.inputs) /\ k.reads[c].by \notin {"notes", "pedal"}
  BY <1>2 DEF Bound, Reads
<1>4. value \in Int /\ happening \in Happening
  BY RouterAssumption DEF Happening
<1> HIDE DEF n, inputs, value
<1>5. ASSUME NEW q \in G, NEW c \in ToSet(k.inputs)
      PROVE  /\ KeyOf(q, c, number, happening) \in G
             /\ happening = "release" =>
                  /\ Held(KeyOf(q, c, number, happening)) \subseteq Held(q)
                  /\ c \in ears => <<c, None>> \notin Held(KeyOf(q, c, number, happening))
  <2>1. CASE c \notin ears
    BY <2>1 DEF KeyOf
  <2>2. CASE c \in ears
    <3> DEFINE r == Pressed(q, c, None, happening, value)
    <3>1. KeyOf(q, c, number, happening) = r
      BY <2>2 DEF KeyOf, value
    <3>2. /\ r \in Kin(k, R) /\ r.midiHeld = q.midiHeld
          /\ Held(r) = HeldAfter(Held(q), <<c, None>>, happening)
      <4>1. q \in Kin(k, R)
        OBVIOUS
      <4> HIDE DEF G, ears
      <4>2. happening = "press" => \E reason \in R : reason[3] = c
        BY <2>2 DEF ears
      <4> QED
        BY <1>3, <1>4, <2>2, <4>1, <4>2, DirectKin
    <3> HIDE DEF r
    <3> QED
      BY <3>1, <3>2 DEF HeldAfter
  <2> QED
    BY <2>1, <2>2
<1> HIDE DEF G, ears
<1>6. Keyed(number, happening) \in G /\ \E f : KeysBy(f, G, n, number, happening)
  <2>1. ASSUME NEW q \in G, NEW i \in 1..n
        PROVE  KeyOf(q, perform.router.console.inputs[i], number, happening) \in G
    BY <1>1, <1>2, <1>5 DEF inputs
  <2>2. DOMAIN perform.router.console.inputs = 1..n
    BY <1>1, <1>2 DEF inputs
  <2> QED
    BY <1>1, <1>2, <2>1, <2>2, KeyedFold
<1>7. PICK f : KeysBy(f, G, n, number, happening)
  BY <1>6
<1>8. ASSUME happening = "release"
      PROVE  \A c \in ears : <<c, None>> \notin Held(Keyed(number, happening))
  <2> DEFINE J == {i \in 0..n : \A j \in 1..i : inputs[j] \in ears => <<inputs[j], None>> \notin Held(f[i])}
  <2>1. 0 \in J
    BY <1>1
  <2>2. ASSUME NEW i \in 1..n, i - 1 \in J
        PROVE  i \in J
    <3>1. /\ i \in 0..n /\ i - 1 \in 0..n /\ f[i - 1] \in G
          /\ f[i] = KeyOf(f[i - 1], inputs[i], number, happening)
      BY <1>2, <1>7 DEF KeysBy, inputs
    <3>2. /\ Held(f[i]) \subseteq Held(f[i - 1])
          /\ inputs[i] \in ears => <<inputs[i], None>> \notin Held(f[i])
      BY <1>1, <1>5, <1>8, <3>1
    <3>3. \A j \in 1..i : j = i \/ j \in 1..(i - 1)
      BY <1>1
    <3> QED
      BY <2>2, <3>1, <3>2, <3>3
  <2> HIDE DEF J
  <2>3. n \in J
    <3>1. \A i \in 0..n : i \in J
      BY <1>1, <2>1, <2>2, Reaches
    <3> QED
      BY <1>1, <3>1
  <2> QED
    BY <1>1, <1>3, <1>7, <2>3 DEF J, KeysBy
<1> QED
  BY <1>6, <1>8 DEF G, ears

\* A message that a port may send, and the buttons that hear it.
LEMMA MessageTyped ==
  ASSUME NEW port, NEW m, <<port, m>> \in Sendable
  PROVE  /\ port \in Ports /\ m.kind \in {"note", "control", "osc"} /\ m.number \in Numbers
         /\ m.value \in Int \cup {None} /\ (m.kind # "osc" => m.value \in Int)
<1>1. <<port, m>> \in Ports \X [kind : {"note", "control", "osc"}, number : Numbers, value : 0..Full \cup {None}]
  BY InputAssumption
<1>2. m.value = None => m.kind = "osc"
  BY InputAssumption
<1>3. \A x \in 0..Full : x \in Int
  BY RouterAssumption
<1> QED
  BY <1>1, <1>2, <1>3

Ears(port, m) == Bound(Kinds(m) \cap Buttons, m.number, port)
LetGo(q, c, n, port) ==
  /\ port \notin q.midiHeld[<<c, n>>]
  /\ By(q, c) \notin {"notes", "pedal"} => <<c, None>> \notin Held(q)

\* Nothing is held that was not, and a control that hears an end lets go.
Releasing(q, r, c, port, m) ==
  /\ r.router.console = q.router.console /\ Held(r) \subseteq Held(q)
  /\ \A d \in Controls : port \in r.midiHeld[<<d, m.number>>] => port \in q.midiHeld[<<d, m.number>>]
  /\ c \in Ears(port, m) => LetGo(r, c, m.number, port)

\* A message at one control: an end leaves nothing there.
LEMMA HeardStep ==
  ASSUME NEW k \in Consoles, now \in 0..Session, NEW R, perform.router.console = k, NEW q \in Kin(k, R),
         NEW c \in ToSet(k.inputs), NEW port, NEW m, <<port, m>> \in Sendable,
         ~EndsPress(m) => \A d \in Ears(port, m) : <<port, m.number, d>> \in R
  PROVE  /\ HeardBy(q, c, port, m) \in Kin(k, R)
         /\ EndsPress(m) => Releasing(q, HeardBy(q, c, port, m), c, port, m)
<1> DEFINE r == HeardBy(q, c, port, m)
           n == m.number
           reads == k.reads[c]
<1>1. /\ q.router.console = k /\ q.midiHeld \in [Controls \X Numbers -> SUBSET MidiPorts]
      /\ c \in Controls /\ <<c, n>> \in Controls \X Numbers
  <2>1. c \in Controls /\ n \in Numbers
    BY MessageTyped DEF Controls
  <2> HIDE DEF n
  <2> QED
    BY <2>1, KinTyped
<1>2. /\ port \in Ports /\ m.kind \in {"note", "control", "osc"} /\ n \in Numbers
      /\ m.value \in Int \cup {None} /\ (m.kind # "osc" => m.value \in Int)
      /\ Full \in Int /\ 0 \in Int
  BY MessageTyped, RouterAssumption
<1>3. By(q, c) = reads.by /\ \A d : By(q, d) = k.reads[d].by
  BY <1>1 DEF By
<1>4. CASE c \notin Bound(Kinds(m), n, port)
  <2>1. c \notin Ears(port, m)
    BY <1>4 DEF Ears, Bound, Reads
  <2>2. r = q
    BY <1>4 DEF HeardBy
  <2> QED
    BY <2>1, <2>2 DEF Releasing
<1>5. ASSUME c \in Bound(Kinds(m), n, port)
      PROVE  reads.by \in Kinds(m) /\ n \in reads.numbers /\ port \in reads.from
             /\ (reads.by \in Buttons => c \in Ears(port, m))
             /\ (reads.by \in Midi => port \in MidiPorts)
             /\ (reads.by \in Osc => port \notin MidiPorts)
  <2>1. reads.by \in Kinds(m) /\ n \in reads.numbers /\ port \in reads.from
        /\ (reads.by \in Buttons => c \in Ears(port, m))
    BY <1>5 DEF Ears, Bound, Reads
  <2>2. WellRead(reads) /\ MidiPorts \cap OscPorts = {}
    BY InputAssumption
  <2>3. (reads.by \in Midi => port \in MidiPorts) /\ (reads.by \in Osc => port \in OscPorts)
    BY <2>1, <2>2 DEF WellRead, Midi, Osc
  <2> QED
    BY <2>1, <2>2, <2>3
<1>6. ASSUME c \in Bound(Kinds(m), n, port), reads.by \in {"notes", "pedal"}
      PROVE  /\ EndsPress(m) => Up(q, c, n, port) \in Kin(k, R)
                                /\ Releasing(q, Up(q, c, n, port), c, port, m)
             /\ ~EndsPress(m) => \A value \in Int : Down(q, c, n, port, value) \in Kin(k, R)
  <2>1. port \in MidiPorts /\ n \in reads.numbers /\ c \in Ears(port, m)
    BY <1>5, <1>6 DEF Midi, Buttons
  <2>2. ASSUME EndsPress(m)
        PROVE  Up(q, c, n, port) \in Kin(k, R) /\ Releasing(q, Up(q, c, n, port), c, port, m)
    <3> DEFINE s == Up(q, c, n, port)
    <3>1. s \in Kin(k, R) /\ Upped(q, s, c, n, port)
      BY <1>2, UpKin
    <3> HIDE DEF s
    <3>2. /\ s.router.console = k /\ Held(s) \subseteq Held(q)
          /\ s.midiHeld = [q.midiHeld EXCEPT ![<<c, n>>] = @ \ {port}]
      BY <1>1, <3>1 DEF Upped
    <3>3. port \notin s.midiHeld[<<c, n>>] /\ By(s, c) = reads.by
      BY <1>1, <3>2 DEF By
    <3>4. \A d \in Controls : port \in s.midiHeld[<<d, n>>] => port \in q.midiHeld[<<d, n>>]
      BY <1>1, <1>2, <3>2
    <3> QED
      BY <1>1, <1>6, <3>1, <3>2, <3>3, <3>4 DEF Releasing, LetGo, s
  <2>3. ASSUME ~EndsPress(m), NEW value \in Int
        PROVE  Down(q, c, n, port, value) \in Kin(k, R)
    BY <1>2, <1>6, <2>1, <2>3, DownKin
  <2> QED
    BY <2>2, <2>3
<1>7. CASE c \in Bound(Kinds(m), n, port) /\ m.kind = "note"
  <2>1. reads.by = "notes"
    BY <1>5, <1>7 DEF Kinds
  <2>2. r = IF EndsPress(m) THEN Up(q, c, n, port) ELSE Down(q, c, n, port, m.value)
    BY <1>1, <1>7, <2>1 DEF HeardBy, MidiHeard
  <2> HIDE DEF r, reads, n
  <2> QED
    BY <1>2, <1>6, <1>7, <2>1, <2>2 DEF r
<1>8. CASE c \in Bound(Kinds(m), n, port) /\ m.kind = "control" /\ reads.by = "pedal"
  <2>1. r = IF EndsPress(m) THEN Up(q, c, n, port) ELSE Down(q, c, n, port, Full)
    BY <1>1, <1>8 DEF HeardBy, MidiHeard
  <2> HIDE DEF r, reads, n
  <2> QED
    BY <1>2, <1>6, <1>8, <2>1 DEF r
<1>9. ASSUME c \in Bound(Kinds(m), n, port), reads.by \in {"axis", "addressAxis"}, NEW value \in Int
      PROVE  /\ Pressed(q, c, None, "move", value) \in Kin(k, R)
             /\ Releasing(q, Pressed(q, c, None, "move", value), c, port, m)
  <2> DEFINE s == Pressed(q, c, None, "move", value)
  <2>1. s \in Kin(k, R) /\ s.midiHeld = q.midiHeld /\ Held(s) = HeldAfter(Held(q), <<c, None>>, "move")
    <3>1. reads.by \notin {"notes", "pedal"} /\ "move" \in Happening
      BY <1>9 DEF Happening
    <3> QED
      BY <3>1, DirectKin
  <2> HIDE DEF s
  <2>2. s.router.console = k /\ Held(s) = Held(q)
    BY <2>1, KinTyped DEF HeldAfter
  <2>3. c \notin Ears(port, m)
    BY <1>9 DEF Ears, Bound, Reads, Buttons
  <2> QED
    BY <1>1, <2>1, <2>2, <2>3 DEF Releasing, s
<1>10. CASE c \in Bound(Kinds(m), n, port) /\ m.kind = "control" /\ reads.by # "pedal"
  <2>1. reads.by = "axis"
    BY <1>5, <1>10 DEF Kinds
  <2>2. r = Pressed(q, c, None, "move", m.value)
    BY <1>1, <1>10, <2>1 DEF HeardBy, MidiHeard
  <2> HIDE DEF r, reads, n
  <2> QED
    BY <1>2, <1>9, <1>10, <2>1, <2>2 DEF r
<1>11. CASE c \in Bound(Kinds(m), n, port) /\ m.kind = "osc" /\ reads.by = "addressAxis"
  <2>1. r = IF m.value = None THEN q ELSE Pressed(q, c, None, "move", m.value)
    <3>1. r = OscHeard(q, c, m) /\ q.router.console.reads[c].by = "addressAxis"
      BY <1>1, <1>11 DEF HeardBy
    <3> HIDE DEF r
    <3> QED
      BY <3>1, RouterAssumption DEF OscHeard
  <2>2. c \notin Ears(port, m)
    BY <1>11 DEF Ears, Bound, Reads, Buttons
  <2>3. Releasing(q, q, c, port, m)
    BY <2>2 DEF Releasing
  <2> HIDE DEF r, reads, n
  <2> QED
    BY <1>2, <1>9, <1>11, <2>1, <2>3 DEF r
<1>12. CASE c \in Bound(Kinds(m), n, port) /\ m.kind = "osc" /\ reads.by # "addressAxis"
  <2>1. reads.by = "address" /\ port \notin MidiPorts /\ c \in Ears(port, m)
    BY <1>5, <1>12 DEF Kinds, Osc, Buttons
  <2>2. EndsPress(m) <=> m.value \in {0, None}
    BY <1>12 DEF EndsPress
  <2>3. r = IF m.value = None THEN Pressed(Pressed(q, c, None, "press", Full), c, None, "release", 0)
            ELSE IF m.value = 0 THEN Pressed(q, c, None, "release", 0)
            ELSE Pressed(q, c, None, "press", Full)
    <3>1. r = OscHeard(q, c, m) /\ q.router.console.reads[c].by # "addressAxis"
      BY <1>1, <1>12 DEF HeardBy
    <3> HIDE DEF r
    <3> QED
      BY <3>1, RouterAssumption DEF OscHeard
  <2> HIDE DEF r
  <2>4. ASSUME NEW s \in Kin(k, R), s.midiHeld = q.midiHeld, Held(s) = Held(q) \ {<<c, None>>}
        PROVE  Releasing(q, s, c, port, m)
    <3>1. s.router.console = k /\ By(s, c) = reads.by
      BY KinTyped DEF By
    <3>2. port \notin s.midiHeld[<<c, n>>]
      BY <1>1, <2>1, <2>4
    <3> QED
      BY <1>1, <2>4, <3>1, <3>2 DEF Releasing, LetGo
  <2>5. reads.by \notin {"notes", "pedal"} /\ "press" \in Happening /\ "release" \in Happening
    BY <2>1 DEF Happening
  <2>6. CASE m.value = None
    <3>1. r \in Kin(k, R) /\ r.midiHeld = q.midiHeld /\ Held(r) = Held(q) \ {<<c, None>>}
      BY <2>3, <2>5, <2>6, TapKin
    <3> QED
      BY <2>2, <2>4, <2>6, <3>1 DEF r
  <2>7. CASE m.value # None /\ m.value = 0
    <3>1. /\ r \in Kin(k, R) /\ r.midiHeld = q.midiHeld
          /\ Held(r) = HeldAfter(Held(q), <<c, None>>, "release")
      BY <1>2, <2>3, <2>5, <2>7, DirectKin
    <3>2. Held(r) = Held(q) \ {<<c, None>>}
      BY <3>1 DEF HeldAfter
    <3> QED
      BY <2>2, <2>4, <2>7, <3>1, <3>2 DEF r
  <2>8. CASE m.value # None /\ m.value # 0
    <3>1. \E reason \in R : reason[3] = c
      BY <2>1, <2>2, <2>8
    <3>2. r \in Kin(k, R)
      BY <1>2, <2>3, <2>5, <2>8, <3>1, DirectKin
    <3> QED
      BY <2>2, <2>8, <3>2 DEF r
  <2> QED
    BY <2>6, <2>7, <2>8
<1> QED
  BY <1>2, <1>4, <1>7, <1>8, <1>10, <1>11, <1>12

\* A message.
LEMMA HeardKept ==
  ASSUME NEW k \in Consoles, now \in 0..Session, NEW R, perform \in Kin(k, R),
         NEW port, NEW m, <<port, m>> \in Sendable,
         ~EndsPress(m) => \A d \in Ears(port, m) : <<port, m.number, d>> \in R
  PROVE  LET q == Heard(port, m)
         IN  /\ q \in Kin(k, R)
             /\ EndsPress(m) => \A c \in Ears(port, m) : LetGo(q, c, m.number, port)
<1> DEFINE inputs == k.inputs
           n == Len(inputs)
           G == Kin(k, R)
<1>1. /\ n \in Nat /\ DOMAIN inputs = 1..n /\ \A i \in 1..n : inputs[i] \in ToSet(k.inputs)
      /\ \A c \in ToSet(k.inputs) : \E i \in 1..n : c = inputs[i]
  <2>1. k.inputs \in Seq(ToSet(k.inputs))
    BY InputAssumption DEF WellFormed
  <2> QED
    BY <2>1 DEF ToSet
<1>2. perform.router.console = k /\ perform \in G /\ \A q \in G : q.router.console = k
  BY KinTyped
<1>3. \A c \in Ears(port, m) : c \in ToSet(k.inputs) /\ c \in Controls
  BY <1>2 DEF Ears, Bound, Reads, Controls
<1> HIDE DEF n, inputs
<1>5. ASSUME NEW q \in G, NEW c \in ToSet(k.inputs)
      PROVE  /\ HeardBy(q, c, port, m) \in G
             /\ EndsPress(m) => Releasing(q, HeardBy(q, c, port, m), c, port, m)
  BY <1>2, HeardStep
<1> HIDE DEF G
<1>6. Heard(port, m) \in G /\ \E f : HearsBy(f, G, n, port, m)
  <2>1. ASSUME NEW q \in G, NEW i \in 1..n
        PROVE  HeardBy(q, perform.router.console.inputs[i], port, m) \in G
    BY <1>1, <1>2, <1>5 DEF inputs
  <2>2. DOMAIN perform.router.console.inputs = 1..n
    BY <1>1, <1>2 DEF inputs
  <2> QED
    BY <1>1, <1>2, <2>1, <2>2, HeardFold
<1>7. PICK f : HearsBy(f, G, n, port, m)
  BY <1>6
<1>8. ASSUME EndsPress(m)
      PROVE  \A c \in Ears(port, m) : LetGo(Heard(port, m), c, m.number, port)
  <2> DEFINE J == {i \in 0..n : \A j \in 1..i : inputs[j] \in Ears(port, m) => LetGo(f[i], inputs[j], m.number, port)}
  <2>1. 0 \in J
    BY <1>1
  <2>2. ASSUME NEW i \in 1..n, i - 1 \in J
        PROVE  i \in J
    <3>1. /\ i \in 0..n /\ i - 1 \in 0..n /\ f[i - 1] \in G /\ f[i] \in G
          /\ f[i] = HeardBy(f[i - 1], inputs[i], port, m)
      BY <1>2, <1>7 DEF HearsBy, inputs
    <3>2. Releasing(f[i - 1], f[i], inputs[i], port, m)
      BY <1>1, <1>5, <1>8, <3>1
    <3>3. ASSUME NEW c \in Ears(port, m), LetGo(f[i - 1], c, m.number, port)
          PROVE  LetGo(f[i], c, m.number, port)
      BY <1>2, <1>3, <3>1, <3>2, <3>3 DEF LetGo, Releasing, By
    <3>4. inputs[i] \in Ears(port, m) => LetGo(f[i], inputs[i], m.number, port)
      BY <3>2 DEF Releasing
    <3>5. \A j \in 1..i : j = i \/ j \in 1..(i - 1)
      BY <1>1
    <3> QED
      BY <2>2, <3>1, <3>3, <3>4, <3>5
  <2> HIDE DEF J
  <2>3. n \in J
    <3>1. \A i \in 0..n : i \in J
      BY <1>1, <2>1, <2>2, Reaches
    <3> QED
      BY <1>1, <3>1
  <2> QED
    BY <1>1, <1>3, <1>7, <2>3 DEF J, HearsBy
<1> QED
  BY <1>6, <1>8 DEF G

\* A finite set in some order.
LEMMA InSomeOrder ==
  ASSUME NEW S, IsFiniteSet(S), NEW order \in SetToSeqs(S)
  PROVE  \E n \in Nat : /\ DOMAIN order = 1..n /\ \A i \in 1..n : order[i] \in S
                        /\ \A x \in S : \E i \in 1..n : order[i] = x
<1> DEFINE n == Cardinality(S)
           D == 1..n
<1>1. n \in Nat
  BY FS_CardinalityType
<1>2. order \in [D -> S] /\ \A i, j \in D : i # j => order[i] # order[j]
  BY DEF SetToSeqs
<1> HIDE DEF n
<1>3. order \in Injection(D, S)
  BY <1>2 DEF Injection, IsInjective
<1>4. Cardinality(D) = n
  BY <1>1, FS_Interval
<1>5. order \in Surjection(D, S)
  <2>1. Cardinality(D) = Cardinality(S)
    BY <1>4 DEF n
  <2> HIDE DEF D
  <2> QED
    BY <1>3, <2>1, FS_Injection
<1> QED
  BY <1>1, <1>2, <1>5 DEF Surjection

\* A port that is lost.
LEMMA LostKept ==
  ASSUME NEW k \in Consoles, now \in 0..Session, NEW R, perform \in Kin(k, R), NEW port,
         NEW order \in SetToSeqs({press \in Controls \X Numbers : port \in perform.midiHeld[press]})
  PROVE  /\ Lost(port, order) \in Kin(k, R)
         /\ \A c \in Controls, n \in Numbers : port \notin Lost(port, order).midiHeld[<<c, n>>]
<1> DEFINE S == {press \in Controls \X Numbers : port \in perform.midiHeld[press]}
           G == Kin(k, R)
<1>1. IsFiniteSet(S)
  <2>1. IsFiniteSet(Controls \X Numbers)
    BY InputAssumption, FS_Product
  <2> QED
    BY <2>1, FS_Subset
<1>2. PICK n \in Nat : /\ DOMAIN order = 1..n /\ \A i \in 1..n : order[i] \in S
                       /\ \A x \in S : \E i \in 1..n : order[i] = x
  <2>1. order \in SetToSeqs(S)
    OBVIOUS
  <2> HIDE DEF S
  <2> QED
    BY <1>1, <2>1, InSomeOrder
<1>3. /\ perform \in G
      /\ \A press \in S : /\ press[1] \in ToSet(k.inputs) /\ press[2] \in Numbers
                          /\ press[1] \in Controls /\ press = <<press[1], press[2]>>
  <2>1. Where(perform) /\ perform.router.console = k
    BY KinTyped DEF Kept
  <2> QED
    BY <2>1 DEF Where
<1>4. ASSUME NEW q \in G, NEW press \in S
      PROVE  /\ Up(q, press[1], press[2], port) \in G
             /\ Upped(q, Up(q, press[1], press[2], port), press[1], press[2], port)
  BY <1>3, UpKin
<1>5. \A q \in G : q.midiHeld \in [Controls \X Numbers -> SUBSET MidiPorts]
  BY KinTyped
<1> HIDE DEF G, S
<1>6. Lost(port, order) \in G /\ \E f : LosesBy(f, G, n, port, order)
  <2>1. ASSUME NEW q \in G, NEW i \in 1..n
        PROVE  Up(q, order[i][1], order[i][2], port) \in G
    BY <1>2, <1>4
  <2> QED
    BY <1>2, <1>3, <2>1, LostFold
<1>7. PICK f : LosesBy(f, G, n, port, order)
  BY <1>6
<1> DEFINE J == {i \in 0..n : \A x \in Controls \X Numbers :
                    port \in f[i].midiHeld[x] => x \in S /\ \A j \in 1..i : order[j] # x}
<1>8. 0 \in J
  BY <1>2, <1>7 DEF LosesBy, S
<1>9. ASSUME NEW i \in 1..n, i - 1 \in J
      PROVE  i \in J
  <2>1. /\ i \in 0..n /\ i - 1 \in 0..n /\ f[i - 1] \in G
        /\ f[i] = Up(f[i - 1], order[i][1], order[i][2], port)
    BY <1>7 DEF LosesBy
  <2>2. /\ Upped(f[i - 1], f[i], order[i][1], order[i][2], port)
        /\ order[i] = <<order[i][1], order[i][2]>> /\ order[i] \in Controls \X Numbers
    BY <1>2, <1>3, <1>4, <2>1 DEF S
  <2>3. ASSUME NEW x \in Controls \X Numbers, port \in f[i].midiHeld[x]
        PROVE  x # order[i] /\ port \in f[i - 1].midiHeld[x]
    BY <1>5, <2>1, <2>2, <2>3 DEF Upped
  <2>4. \A j \in 1..i : j = i \/ j \in 1..(i - 1)
    BY <1>2
  <2> QED
    BY <1>9, <2>1, <2>3, <2>4
<1> HIDE DEF J
<1>10. n \in J
  <2>1. \A i \in 0..n : i \in J
    BY <1>2, <1>8, <1>9, Reaches
  <2> QED
    BY <1>2, <2>1
<1>11. \A x \in Controls \X Numbers : port \notin Lost(port, order).midiHeld[x]
  BY <1>2, <1>7, <1>10 DEF J, LosesBy
<1> QED
  BY <1>6, <1>11 DEF G

-------------------------------------------------------------------------------
(* The invariant.                                                          *)

\* Everything but the performance.
Settled ==
  /\ armed \in 0..MaxArms /\ now \in 0..Session
  /\ plugged \subseteq MidiPorts /\ links \subseteq Links
  /\ calls \subseteq [link : Links, generation : 0..MaxArms, message : Messages]
  /\ hand \subseteq (Ports \cup {Keyboard}) \X Numbers
  /\ missed \subseteq ((Ports \cup {Keyboard}) \X Numbers) \X Controls
  /\ left \in [touches : 0..MaxTouches, arms : 0..MaxArms] /\ armed + left.arms <= MaxArms
  /\ \A l \in links : l.by.kind = "midi" => l.port \in MidiPorts

\* A callback has read a number there was, and the callbacks of a port bring
\* one message.
Calls ==
  /\ \A call \in calls :
       /\ call.generation <= armed
       /\ IF call.message.kind = "lost" THEN call.link.port \in MidiPorts
          ELSE <<call.link.port, call.message>> \in Sendable
  /\ \A a, b \in calls :
       a.link.port = b.link.port /\ a.message.kind # "lost" /\ b.message.kind # "lost"
         => a.message = b.message

Performing ==
  perform # None =>
    /\ perform.router.console \in Consoles
    /\ perform \in Kin(perform.router.console, Reasons)
    /\ perform.generation = armed /\ perform.session \in 1..armed
    /\ perform.midi \in Inputs \cup {None} /\ perform.osc \in Inputs \cup {None}

\* What a press that is on its way leaves behind has a reason already.
Begins(call) == call.message.kind # "lost" /\ ~EndsPress(call.message)
Pending ==
  perform # None =>
    \A call \in calls :
      Begins(call) /\ call.generation = perform.generation =>
        \A c \in Readers(call.link.port, call.message.number) :
          <<call.link.port, call.message.number, c>> \in Reasons

IInv == Settled /\ Calls /\ Performing /\ Pending

\* Readers are controls of some console.
LEMMA EndsTyped ==
  ASSUME NEW port, NEW n
  PROVE  Readers(port, n) \subseteq Controls
BY DEF Readers

\* What a reason is.
LEMMA ReasonTyped ==
  ASSUME NEW r \in Reasons
  PROVE  /\ r = <<r[1], r[2], r[3]>> /\ r[1] \in Ports \cup {Keyboard} /\ r[2] \in Numbers
         /\ r[3] \in Controls /\ r[3] \in Readers(r[1], r[2]) /\ Ending(r[3], r[1], r[2])
BY DEF Reasons

\* The controls of this console that hear a number are readers of it.
LEMMA EarsRead ==
  ASSUME perform.router.console \in Consoles, NEW by, by \subseteq Buttons, NEW n, NEW port,
         NEW c \in Bound(by, n, port)
  PROVE  c \in Readers(port, n) /\ c \in Controls /\ c \in ToSet(perform.router.console.inputs)
BY DEF Bound, Reads, Readers, Controls

\* A performance that starts, or that an edit arms again, has the next number.
LEMMA ArmedAgain ==
  ASSUME NEW console, StartPerforming(console) \/ Rearm(console)
  PROVE  armed' = armed + 1
<1>1. Arm(console, FALSE) \/ Arm(console, TRUE)
  BY DEF StartPerforming, Rearm
<1>2. Arm(console, FALSE) => armed' = armed + 1
  BY DEF Arm
<1>3. Arm(console, TRUE) => armed' = armed + 1
  BY DEF Arm
<1> QED
  BY <1>1, <1>2, <1>3

\* Every step keeps the types and bounds of everything but the performance.
LEMMA SettledKept ==
  ASSUME IInv, [Next]_vars
  PROVE  Settled'
<1> USE InputAssumption DEF IInv, Settled
<1>0. /\ \A c \in Nat, d \in Nat : TRUE
      /\ MaxArms \in Nat /\ MaxTouches \in Nat /\ Session \in Nat
  BY RouterAssumption
<1>1. ASSUME NEW what \in {"touches", "arms"}, Spend(what)
      PROVE  /\ left' \in [touches : 0..MaxTouches, arms : 0..MaxArms] /\ left'.arms <= left.arms
             /\ what = "arms" => left'.arms = left.arms - 1 /\ left.arms > 0
  BY <1>0, <1>1 DEF Spend
<1>2. ASSUME NEW console, StartPerforming(console) \/ Rearm(console)
      PROVE  Settled'
  <2>1. armed' = armed + 1
    BY <1>2, ArmedAgain
  <2>2. now' \in 0..Session /\ missed' \subseteq missed /\ UNCHANGED <<plugged, links, calls, hand>>
    <3>1. 0 \in 0..Session /\ {} \subseteq missed
      BY <1>0
    <3>2. CASE StartPerforming(console)
      BY <3>1, <3>2 DEF StartPerforming
    <3>3. CASE Rearm(console)
      BY <3>3 DEF Rearm
    <3> QED
      BY <1>2, <3>2, <3>3
  <2>3. Spend("arms")
    BY <1>2 DEF StartPerforming, Rearm
  <2> QED
    BY <1>0, <1>1, <2>1, <2>2, <2>3
<1>3. CASE StopPerforming
  BY <1>0, <1>3 DEF StopPerforming
<1>4. CASE Tick
  BY <1>0, <1>4 DEF Tick
<1>5. CASE Blur
  BY <1>1, <1>5 DEF Blur
<1>6. ASSUME NEW n \in Keys, KeyDown(n) \/ KeyUp(n)
      PROVE  Settled'
  <2>1. n \in Numbers /\ <<Keyboard, n>> \in (Ports \cup {Keyboard}) \X Numbers
    BY DEF Numbers
  <2>2. /\ hand' \subseteq hand \cup {<<Keyboard, n>>} /\ Spend("touches")
        /\ UNCHANGED <<armed, now, plugged, links, calls>>
    BY <1>6 DEF KeyDown, KeyUp
  <2>3. missed' \subseteq missed \cup ({<<Keyboard, n>>} \X Readers(Keyboard, n))
    BY <1>6 DEF KeyDown, KeyUp, Ended
  <2> QED
    BY <1>1, <2>1, <2>2, <2>3, EndsTyped
<1>7. ASSUME NEW port \in MidiPorts, Plug(port) \/ Unplug(port)
      PROVE  Settled'
  <2>1. port \in Ports
    BY DEF Ports
  <2>2. /\ hand' \subseteq hand /\ plugged' \subseteq MidiPorts /\ Spend("touches")
        /\ UNCHANGED <<armed, now, links, calls>>
    BY <1>7 DEF Plug, Unplug
  <2>3. missed' \subseteq Gone(port)
    BY <1>7 DEF Plug, Unplug, Gone
  <2>4. Gone(port) \subseteq ((Ports \cup {Keyboard}) \X Numbers) \X Controls
    BY <2>1, EndsTyped DEF Gone
  <2> QED
    BY <1>1, <2>2, <2>3, <2>4
<1>8. ASSUME NEW by \in Listening, NEW port \in Ports, Connect(by, port)
      PROVE  Settled'
  <2>1. /\ perform # None /\ by \in Inputs
    BY <1>8 DEF Performing, Listening
  <2>2. Found(perform.router.console, Midi) \subseteq MidiPorts
    <3>1. ASSUME NEW c \in Reads(perform.router.console, Midi)
          PROVE  Finds[perform.router.console.reads[c].filter] \subseteq MidiPorts
      <4>1. /\ WellRead(perform.router.console.reads[c])
            /\ perform.router.console.reads[c].by \in Midi
        BY <2>1 DEF Reads, Performing
      <4> QED
        BY <4>1 DEF WellRead, Midi, Osc
    <3> QED
      BY <3>1 DEF Found, Wanted
  <2>3. by.kind = "midi" => port \in MidiPorts
    BY <1>8, <2>2 DEF Connect
  <2>4. [port |-> port, by |-> by] \in Links
    BY <2>1 DEF Links
  <2> QED
    BY <1>8, <2>3, <2>4 DEF Connect
<1>9. ASSUME NEW l \in links, Close(l)
      PROVE  Settled'
  <2>1. links' \subseteq links /\ missed' \subseteq Gone(l.port) /\ l.port \in Ports
        /\ UNCHANGED <<armed, now, plugged, calls, hand, left>>
    BY <1>9 DEF Close, Gone, Links
  <2>2. Gone(l.port) \subseteq ((Ports \cup {Keyboard}) \X Numbers) \X Controls
    BY <2>1, EndsTyped DEF Gone
  <2> QED
    BY <2>1, <2>2
<1>10. ASSUME NEW ls \in SUBSET links, NEW m \in Messages
       PROVE  Calling(ls, m) \subseteq [link : Links, generation : 0..MaxArms, message : Messages]
  <2>1. \A l \in ls : Generation(l.by) \in 0..MaxArms
    BY <1>0 DEF Generation, Performing
  <2> QED
    BY <2>1 DEF Calling
<1>11. ASSUME NEW l \in links, Lose(l)
       PROVE  Settled'
  <2> DEFINE lost == [kind |-> "lost", number |-> None, value |-> None]
  <2>1. lost \in Messages /\ {l} \in SUBSET links
    BY DEF Messages
  <2>2. /\ links' \subseteq links /\ calls' = calls \cup Calling({l}, lost)
        /\ UNCHANGED <<armed, now, plugged, hand, missed, left>>
    BY <1>11 DEF Lose
  <2> HIDE DEF lost
  <2> QED
    BY <1>10, <2>1, <2>2
<1>12. ASSUME NEW sent \in Sendable, Send(sent[1], sent[2])
       PROVE  Settled'
  <2> DEFINE port == sent[1]  m == sent[2]  ls == {l \in links : l.port = port}
  <2>1. port \in Ports /\ m.number \in Numbers /\ m \in Messages /\ ls \in SUBSET links
    <3>1. sent = <<sent[1], sent[2]>>
      OBVIOUS
    <3>2. sent[1] \in Ports /\ sent[2].number \in Numbers
      BY <3>1, MessageTyped
    <3> QED
      BY <3>2 DEF Messages
  <2>2. /\ hand' \subseteq hand \cup {<<port, m.number>>} /\ Spend("touches")
        /\ calls' = calls \cup Calling(ls, m)
        /\ UNCHANGED <<armed, now, plugged, links>>
    BY <1>12 DEF Send
  <2>3. missed' \subseteq missed \cup ({<<port, m.number>>} \X Readers(port, m.number))
    BY <1>12 DEF Send, Ended
  <2> HIDE DEF port, m, ls
  <2>4. calls' \subseteq [link : Links, generation : 0..MaxArms, message : Messages]
    BY <1>10, <2>1, <2>2
  <2> QED
    BY <1>1, <2>1, <2>2, <2>3, <2>4, EndsTyped
<1>13. ASSUME NEW call \in calls, Hear(call)
       PROVE  Settled'
  <2>1. call.link.port \in Ports /\ call.message.number \in Numbers
    <3>1. <<call.link.port, call.message>> \in Sendable
      BY <1>13 DEF Calls, Hear
    <3> QED
      BY <3>1, MessageTyped
  <2>2. /\ calls' \subseteq calls /\ UNCHANGED <<armed, now, plugged, links, hand, left>>
        /\ missed' \subseteq missed \cup ({<<call.link.port, call.message.number>>} \X Readers(call.link.port, call.message.number))
    BY <1>13 DEF Hear, Ended
  <2> QED
    BY <2>1, <2>2, EndsTyped
<1>14. ASSUME NEW call \in calls, HearLost(call)
       PROVE  Settled'
  <2>1. call.link.port \in Ports
    BY DEF Links
  <2>2. /\ calls' \subseteq calls /\ UNCHANGED <<armed, now, plugged, links, hand, left>>
        /\ missed' \subseteq Gone(call.link.port)
    BY <1>14 DEF HearLost, Gone
  <2>3. Gone(call.link.port) \subseteq ((Ports \cup {Keyboard}) \X Numbers) \X Controls
    BY <2>1, EndsTyped DEF Gone
  <2> QED
    BY <2>2, <2>3
<1>15. CASE UNCHANGED vars
  BY <1>15 DEF vars
<1> HIDE DEF IInv, Settled
<1> QED
  BY <1>2, <1>3, <1>4, <1>5, <1>6, <1>7, <1>8, <1>9, <1>11, <1>12, <1>13, <1>14, <1>15 DEF Next

\* A callback reads the number of the performance in progress or 0, and one message
\* is on its way from a port.
LEMMA CallsKept ==
  ASSUME IInv, [Next]_vars
  PROVE  Calls'
<1>0. armed \in Nat /\ \A call \in calls : call.generation \in Nat
  BY InputAssumption DEF IInv, Settled
<1>1. armed' \in Nat /\ armed <= armed'
  <2>1. ASSUME NEW console, StartPerforming(console) \/ Rearm(console)
        PROVE  armed' = armed + 1
    BY <2>1, ArmedAgain
  <2>2. (\E console : StartPerforming(console) \/ Rearm(console)) \/ armed' = armed
    BY DEF Next, vars, StopPerforming, Tick, Blur, KeyDown, KeyUp, Plug, Unplug, Connect, Close, Lose, Send, Hear, HearLost
  <2> QED
    BY <1>0, <2>1, <2>2
<1>2. ASSUME calls' \subseteq calls
      PROVE  Calls'
  BY <1>0, <1>1, <1>2 DEF IInv, Calls
<1>3. ASSUME NEW ls \in SUBSET links, NEW m
      PROVE  \A call \in Calling(ls, m) :
               /\ call.generation \in Nat /\ call.generation <= armed /\ call.message = m
               /\ \E l \in ls : call.link = l
  <2>1. \A l \in ls : Generation(l.by) \in Nat /\ Generation(l.by) <= armed
    BY <1>0 DEF Generation, IInv, Performing
  <2> QED
    BY <2>1 DEF Calling
<1>4. ASSUME NEW l \in links, Lose(l)
      PROVE  Calls'
  <2> DEFINE lost == [kind |-> "lost", number |-> None, value |-> None]
  <2>1. /\ calls' = calls \cup Calling({l}, lost) /\ armed' = armed /\ l.by.kind = "midi"
    BY <1>4 DEF Lose
  <2>2. l.port \in MidiPorts /\ {l} \in SUBSET links /\ lost.kind = "lost"
    BY <2>1 DEF IInv, Settled
  <2> HIDE DEF lost
  <2> QED
    BY <1>3, <2>1, <2>2 DEF IInv, Calls
<1>5. ASSUME NEW sent \in Sendable, Send(sent[1], sent[2])
      PROVE  Calls'
  <2> DEFINE port == sent[1]  m == sent[2]  ls == {l \in links : l.port = port}
  <2>1. <<port, m>> \in Sendable /\ m.kind # "lost" /\ ls \in SUBSET links
    <3>1. sent = <<sent[1], sent[2]>>
      BY InputAssumption
    <3>2. <<sent[1], sent[2]>> \in Sendable
      BY <3>1
    <3>3. sent[2].kind # "lost"
      BY <3>2, MessageTyped
    <3> QED
      BY <3>2, <3>3
  <2>2. /\ calls' = calls \cup Calling(ls, m) /\ armed' = armed
        /\ \A call \in calls : call.link.port # port
    BY <1>5 DEF Send
  <2>3. \A l \in ls : l.port = port
    OBVIOUS
  <2> HIDE DEF port, m, ls
  <2> QED
    BY <1>3, <2>1, <2>2, <2>3 DEF IInv, Calls
<1>6. \/ \E l \in links : Lose(l)
      \/ \E sent \in Sendable : Send(sent[1], sent[2])
      \/ calls' \subseteq calls
  BY DEF Next, vars, StartPerforming, Rearm, StopPerforming, Tick, Blur, KeyDown, KeyUp, Plug, Unplug, Connect, Close, Hear, HearLost
<1> QED
  BY <1>2, <1>4, <1>5, <1>6

\* What a step leaves pending.
EndingKept(T) ==
  \A port \in Ports \cup {Keyboard}, n \in Numbers : \A c \in Readers(port, n) :
    Ending(c, port, n) => <<port, n, c>> \in T \/ Ending(c, port, n)'

\* Reasons go only with the presses T that end.
LEMMA ReasonsKept ==
  ASSUME NEW T, EndingKept(T)
  PROVE  \A r \in Reasons : r \in Reasons' \/ r \in T
<1> SUFFICES ASSUME NEW r \in Reasons, r \notin T
             PROVE  r \in Reasons'
  OBVIOUS
<1>1. /\ r = <<r[1], r[2], r[3]>> /\ r[1] \in Ports \cup {Keyboard} /\ r[2] \in Numbers
      /\ r[3] \in Controls /\ r[3] \in Readers(r[1], r[2]) /\ Ending(r[3], r[1], r[2])
  BY ReasonTyped
<1>2. Ending(r[3], r[1], r[2])'
  BY <1>1 DEF EndingKept
<1>3. r \in (Ports \cup {Keyboard}) \X Numbers \X Controls
  BY <1>1
<1> QED
  BY <1>1, <1>2, <1>3 DEF Reasons

-------------------------------------------------------------------------------
(* Each action, and the reasons of what is held.                           *)

\* A port that comes ends no press.
LEMMA PlugKeeps ==
  ASSUME IInv, NEW port \in MidiPorts, Plug(port)
  PROVE  EndingKept({})
BY DEF EndingKept, Ending, Plug

\* A port that goes away leaves its presses to its connections, or they are missed.
LEMMA UnplugKeeps ==
  ASSUME IInv, NEW port \in MidiPorts, Unplug(port)
  PROVE  EndingKept({})
BY DEF EndingKept, Ending, Unplug, Gone

\* A connection more loses no end.
LEMMA ConnectKeeps ==
  ASSUME IInv, NEW by, NEW port, Connect(by, port)
  PROVE  EndingKept({})
BY DEF EndingKept, Ending, Connect

\* A dropped input that closes the last connection of a port that is gone misses
\* the ends of its presses.
LEMMA CloseKeeps ==
  ASSUME IInv, NEW l \in links, Close(l)
  PROVE  EndingKept({})
BY DEF EndingKept, Ending, Close, Gone

\* A lost connection leaves a callback that will say so.
LEMMA LoseKeeps ==
  ASSUME IInv, NEW l \in links, Lose(l)
  PROVE  EndingKept({})
<1>1. \E call \in calls' : call.link.port = l.port /\ call.message.kind = "lost"
  <2> DEFINE lost == [kind |-> "lost", number |-> None, value |-> None]
             call == [link |-> l, generation |-> Generation(l.by), message |-> lost]
  <2>1. calls' = calls \cup Calling({l}, lost)
    BY DEF Lose
  <2>2. call \in Calling({l}, lost)
    BY DEF Calling
  <2> QED
    BY <2>1, <2>2
<1>2. calls \subseteq calls' /\ links' = links \ {l} /\ UNCHANGED <<plugged, hand, missed>>
  BY DEF Lose
<1> QED
  BY <1>1, <1>2 DEF EndingKept, Ending

\* A message that ends a press is on its way, or missed when nothing is connected.
LEMMA SendKeeps ==
  ASSUME IInv, NEW port, NEW m, Send(port, m)
  PROVE  EndingKept({})
<1> DEFINE ls == {l \in links : l.port = port}
<1>1. CASE EndsPress(m) /\ ls # {}
  <2>1. \E call \in calls' : call.link.port = port /\ call.message = m
    <3>1. calls' = calls \cup Calling(ls, m)
      BY DEF Send
    <3>2. PICK l \in ls : TRUE
      BY <1>1
    <3> DEFINE call == [link |-> l, generation |-> Generation(l.by), message |-> m]
    <3>3. call \in Calling(ls, m)
      BY DEF Calling
    <3> QED
      BY <3>1, <3>2, <3>3
  <2>2. calls \subseteq calls' /\ hand' = hand \ {<<port, m.number>>} /\ UNCHANGED <<plugged, links, missed>>
    BY <1>1 DEF Send
  <2> QED
    BY <1>1, <2>1, <2>2 DEF EndingKept, Ending
<1>2. CASE EndsPress(m) /\ ls = {}
  <2>1. calls \subseteq calls' /\ hand' = hand \ {<<port, m.number>>} /\ UNCHANGED <<plugged, links>>
        /\ missed' = Ended(port, m.number, {})
    BY <1>2 DEF Send
  <2> QED
    BY <2>1 DEF EndingKept, Ending, Ended
<1>3. CASE ~EndsPress(m)
  <2>1. calls \subseteq calls' /\ hand \subseteq hand' /\ UNCHANGED <<plugged, links, missed>>
    BY <1>3 DEF Send
  <2> QED
    BY <2>1 DEF EndingKept, Ending
<1> QED
  BY <1>1, <1>2, <1>3

\* An end that does not reach the performance.
LEMMA DeafKeeps ==
  ASSUME IInv, NEW call \in calls, (Hear(call) \/ HearLost(call)) /\ ~Hears(call)
  PROVE  EndingKept({}) /\ perform' = perform
<1> DEFINE port == call.link.port  m == call.message
<1>1. CASE Hear(call) /\ ~Hears(call)
  <2>1. /\ m.kind # "lost" /\ calls' = calls \ {call} /\ UNCHANGED <<plugged, links, hand>> /\ perform' = perform
        /\ missed' = IF EndsPress(m) THEN Ended(port, m.number, {}) ELSE missed
    BY <1>1 DEF Hear
  <2> QED
    BY <2>1 DEF EndingKept, Ending, Ended
<1>2. CASE HearLost(call) /\ ~Hears(call)
  <2>1. /\ calls' = calls \ {call} /\ UNCHANGED <<plugged, links, hand>> /\ perform' = perform
        /\ missed' = Gone(port)
    BY <1>2 DEF HearLost
  <2>2. \A x \in missed : x \in missed'
    BY <2>1 DEF Gone
  <2>3. \A n \in Numbers : \A c \in Readers(port, n) : <<<<port, n>>, c>> \in missed'
    BY <2>1 DEF Gone
  <2> QED
    BY <2>1, <2>2, <2>3 DEF EndingKept, Ending
<1> QED
  BY <1>1, <1>2

\* The end of a press that the performance hears.
LEMMA HearKeeps ==
  ASSUME IInv, NEW call \in calls, Hear(call), Hears(call)
  PROVE  LET port == call.link.port  m == call.message
         IN  /\ ~EndsPress(m) => EndingKept({})
             /\ EndsPress(m) => EndingKept({<<port, m.number, c>> : c \in Ears(port, m)})
<1> DEFINE port == call.link.port  m == call.message
<1>1. /\ m.kind # "lost" /\ calls' = calls \ {call} /\ UNCHANGED <<plugged, links, hand>>
      /\ missed' = IF EndsPress(m) THEN Ended(port, m.number, Ears(port, m)) ELSE missed
  BY DEF Hear, Ears
<1>2. CASE ~EndsPress(m)
  BY <1>1, <1>2 DEF EndingKept, Ending
<1>3. CASE EndsPress(m)
  <2>1. ASSUME NEW c \in Readers(port, m.number), c \notin Ears(port, m)
        PROVE  <<<<port, m.number>>, c>> \in missed'
    BY <1>1, <1>3, <2>1 DEF Ended
  <2>2. ASSUME NEW x \in missed, x \notin missed'
        PROVE  x[1] = <<port, m.number>> /\ x[2] \in Ears(port, m)
    BY <1>1, <1>3, <2>2 DEF Ended
  <2> QED
    BY <1>1, <1>3, <2>1, <2>2 DEF EndingKept, Ending
<1> QED
  BY <1>2, <1>3

\* A lost port loses the reasons of its own presses only.
LEMMA HearLostKeeps ==
  ASSUME IInv, NEW call \in calls, HearLost(call), Hears(call)
  PROVE  EndingKept({call.link.port} \X Numbers \X Controls)
<1> DEFINE port == call.link.port
<1>1. /\ calls' = calls \ {call} /\ UNCHANGED <<plugged, links, hand>>
      /\ \A x \in missed : x \in missed' \/ x[1][1] = port
  BY DEF HearLost, Gone
<1> SUFFICES ASSUME NEW at \in Ports \cup {Keyboard}, NEW n \in Numbers, NEW c \in Readers(at, n),
                    Ending(c, at, n), at # port
             PROVE  Ending(c, at, n)'
  BY EndsTyped DEF EndingKept
<1> QED
  BY <1>1 DEF Ending

\* A key that goes down is a reason for the controls that read it.
LEMMA KeyDownKeeps ==
  ASSUME IInv, NEW n \in Keys, KeyDown(n)
  PROVE  EndingKept({}) /\ \A c \in Readers(Keyboard, n) : <<Keyboard, n, c>> \in Reasons'
<1>1. hand' = hand \cup {<<Keyboard, n>>} /\ UNCHANGED <<plugged, links, calls, missed>>
  BY DEF KeyDown
<1>2. EndingKept({})
  BY <1>1 DEF EndingKept, Ending
<1>3. ASSUME NEW c \in Readers(Keyboard, n)
      PROVE  <<Keyboard, n, c>> \in Reasons'
  <2>1. Ending(c, Keyboard, n)'
    BY <1>1 DEF Ending
  <2>2. n \in Numbers /\ c \in Controls
    BY EndsTyped DEF Numbers
  <2> QED
    BY <2>1, <2>2 DEF Reasons
<1> QED
  BY <1>2, <1>3

\* A key that comes up is no reason any more where it is heard.
LEMMA KeyUpKeeps ==
  ASSUME IInv, NEW n \in Keys, KeyUp(n)
  PROVE  EndingKept({<<Keyboard, n, c>> : c \in Bound({"key"}, n, Keyboard)})
<1> DEFINE ears == Bound({"key"}, n, Keyboard)
<1>1. hand' = hand \ {<<Keyboard, n>>} /\ UNCHANGED <<plugged, links, calls>>
      /\ missed' = Ended(Keyboard, n, ears)
  BY DEF KeyUp
<1> HIDE DEF ears
<1>2. ASSUME NEW c \in Readers(Keyboard, n), c \notin ears
      PROVE  <<<<Keyboard, n>>, c>> \in missed'
  BY <1>1, <1>2 DEF Ended
<1>3. ASSUME NEW x \in missed, x \notin missed'
      PROVE  x[1] = <<Keyboard, n>> /\ x[2] \in ears
  BY <1>1, <1>3 DEF Ended
<1>4. EndingKept({<<Keyboard, n, c>> : c \in ears})
  BY <1>1, <1>2, <1>3 DEF EndingKept, Ending
<1> QED
  BY <1>4 DEF ears

\* Reasons may go when what they held is let go.
LEMMA LetGoKept ==
  ASSUME NEW k \in Consoles, NEW R, NEW q \in Kin(k, R), NEW S, NEW T, \A r \in R : r \in S \/ r \in T,
         \A r \in T : LetGo(q, r[3], r[2], r[1]) /\ r = <<r[1], r[2], r[3]>>
  PROVE  Kept(q, S)
<1>1. Kept(q, R) /\ Held(q) \subseteq Press(k)
  BY KinTyped
<1>2. \A c \in Controls, n \in Numbers : \A port \in q.midiHeld[<<c, n>>] : <<port, n, c>> \notin T
  BY DEF LetGo
<1>3. ASSUME NEW press \in Held(q), By(q, press[1]) \notin {"notes", "pedal"}, press[2] = None
      PROVE  \A r \in R \cap T : r[3] # press[1]
  <2>1. press = <<press[1], None>>
    BY <1>1, <1>3 DEF Press
  <2> QED
    BY <1>3, <2>1 DEF LetGo
<1> QED
  BY <1>1, <1>2, <1>3, Restated

\* More reasons hold what was held.
LEMMA MoreReasons ==
  ASSUME NEW k \in Consoles, NEW R, NEW q \in Kin(k, R), NEW S, \A r \in R : r \in S
  PROVE  Kept(q, S)
<1> DEFINE T == {}
<1>1. \A r \in T : LetGo(q, r[3], r[2], r[1]) /\ r = <<r[1], r[2], r[3]>>
  OBVIOUS
<1> HIDE DEF T
<1> QED
  BY <1>1, LetGoKept

\* The port of a control of a kind.
LEMMA PortsOfKind ==
  ASSUME NEW k \in Consoles, NEW c \in ToSet(k.inputs), KeepsKind(c), NEW port, NEW n, c \in Readers(port, n)
  PROVE  /\ k.reads[c].by = "key" => port = Keyboard
         /\ k.reads[c].by = "address" => port \in OscPorts
         /\ k.reads[c].by \in Buttons
<1>1. PICK a \in Consoles : c \in Reads(a, Buttons) /\ port \in a.reads[c].from
  BY DEF Readers
<1>2. c \in ToSet(a.inputs) /\ a.reads[c].by \in Buttons
  BY <1>1 DEF Reads
<1>3. k.reads[c].by = a.reads[c].by
  BY <1>2 DEF KeepsKind
<1>4. WellRead(a.reads[c])
  BY <1>2, InputAssumption
<1> QED
  BY <1>1, <1>2, <1>3, <1>4 DEF WellRead, Midi, Osc

\* The invariant, of a performance in progress.
LEMMA PlayedOn ==
  ASSUME IInv, perform # None
  PROVE  /\ perform.router.console \in Consoles /\ now \in 0..Session
         /\ perform \in Kin(perform.router.console, Reasons)
BY DEF IInv, Performing, Settled

\* A message that is heard keeps ports and presses matched and what is held in hand.
LEMMA HearPlays ==
  ASSUME IInv, NEW call \in calls, Hear(call), Hears(call)
  PROVE  perform' \in Kin(perform.router.console, Reasons) /\ Kept(perform', Reasons')
<1> DEFINE port == call.link.port  m == call.message  k == perform.router.console
           R == Reasons  S == Reasons'  q == Heard(port, m)
           T == {<<port, m.number, c>> : c \in Ears(port, m)}
<1>1. <<port, m>> \in Sendable /\ perform' = q /\ perform # None
  BY DEF IInv, Calls, Hear, Hears
<1>2. k \in Consoles /\ now \in 0..Session /\ perform \in Kin(k, R)
  BY <1>1, PlayedOn
<1>3. ASSUME ~EndsPress(m)
      PROVE  \A d \in Ears(port, m) : <<port, m.number, d>> \in R
  <2>1. \A d \in Ears(port, m) : d \in Readers(port, m.number)
    BY <1>2, EarsRead DEF Ears
  <2>2. Begins(call) /\ call.generation = perform.generation
    BY <1>3 DEF Begins, Hear, Hears
  <2> QED
    BY <1>1, <2>1, <2>2 DEF IInv, Pending
<1>4. /\ ~EndsPress(m) => EndingKept({})
      /\ EndsPress(m) => EndingKept(T)
  BY HearKeeps
<1>5. /\ ~EndsPress(m) => \A r \in R : r \in S
      /\ EndsPress(m) => \A r \in R : r \in S \/ r \in T
  BY <1>4, ReasonsKept
<1> HIDE DEF R, S, k
<1>6. /\ q \in Kin(k, R)
      /\ EndsPress(m) => \A c \in Ears(port, m) : LetGo(q, c, m.number, port)
  <2> HIDE DEF port, m
  <2> QED
    BY <1>1, <1>2, <1>3, HeardKept DEF k
<1>7. EndsPress(m) => \A r \in T : LetGo(q, r[3], r[2], r[1]) /\ r = <<r[1], r[2], r[3]>>
  BY <1>6
<1> HIDE DEF q, T, port, m
<1>8. CASE EndsPress(m)
  <2>1. Kept(q, S)
    BY <1>2, <1>5, <1>6, <1>7, <1>8, LetGoKept
  <2> QED
    BY <1>1, <1>6, <2>1 DEF R, S, k, q
<1>9. CASE ~EndsPress(m)
  <2>1. Kept(q, S)
    BY <1>2, <1>5, <1>6, <1>9, MoreReasons
  <2> QED
    BY <1>1, <1>6, <2>1 DEF R, S, k, q
<1> QED
  BY <1>8, <1>9

\* So does a port that is lost: only what a port may hold loses its reason.
LEMMA HearLostPlays ==
  ASSUME IInv, NEW call \in calls, HearLost(call), Hears(call)
  PROVE  perform' \in Kin(perform.router.console, Reasons) /\ Kept(perform', Reasons')
<1> DEFINE port == call.link.port  k == perform.router.console
           R == Reasons  S == Reasons'  T == {port} \X Numbers \X Controls
<1>1. perform # None /\ port \in MidiPorts
  BY DEF IInv, Calls, HearLost, Hears
<1>2. k \in Consoles /\ now \in 0..Session /\ perform \in Kin(k, R)
  BY <1>1, PlayedOn
<1>3. PICK order \in SetToSeqs({press \in Controls \X Numbers : port \in perform.midiHeld[press]}) :
        perform' = Lost(port, order)
  BY DEF HearLost
<1> DEFINE q == Lost(port, order)
<1>4. \A r \in R : r \in S \/ r \in T
  BY HearLostKeeps, ReasonsKept
<1>5. \A r \in R : r \in (Ports \cup {Keyboard}) \X Numbers \X Controls /\ r[3] \in Readers(r[1], r[2])
  BY ReasonTyped
<1> HIDE DEF R, S, k, port
<1>6. q \in Kin(k, R) /\ \A c \in Controls, n \in Numbers : port \notin q.midiHeld[<<c, n>>]
  BY <1>2, LostKept
<1> HIDE DEF q
<1>7. Kept(q, R) /\ Held(q) \subseteq Press(k) /\ q.router.console = k
  BY <1>2, <1>6, KinTyped
<1>8. \A c \in Controls, n \in Numbers : \A at \in q.midiHeld[<<c, n>>] : <<at, n, c>> \notin T
  BY <1>6
<1>9. ASSUME NEW press \in Held(q), KeepsKind(press[1]), By(q, press[1]) \notin {"notes", "pedal"}, press[2] = None
      PROVE  \A r \in R \cap T : r[3] # press[1]
  <2> SUFFICES ASSUME NEW r \in R \cap T, r[3] = press[1]
               PROVE  FALSE
    OBVIOUS
  <2>1. r[1] = port /\ r[3] \in Readers(r[1], r[2])
    BY <1>5
  <2>2. press[1] \in ToSet(k.inputs)
    BY <1>7 DEF Press
  <2>3. /\ k.reads[press[1]].by = "key" => port = Keyboard
        /\ k.reads[press[1]].by = "address" => port \in OscPorts
        /\ k.reads[press[1]].by \in Buttons
    BY <1>2, <1>9, <2>1, <2>2, PortsOfKind
  <2>4. k.reads[press[1]].by \in {"key", "address"}
    BY <1>7, <1>9, <2>3 DEF By, Buttons
  <2>5. Keyboard \notin MidiPorts /\ MidiPorts \cap OscPorts = {}
    BY InputAssumption DEF Ports
  <2> QED
    BY <1>1, <2>3, <2>4, <2>5
<1> HIDE DEF T
<1>10. Kept(q, S)
  BY <1>4, <1>7, <1>8, <1>9, Restated
<1> QED
  BY <1>3, <1>6, <1>10 DEF R, S, k, q

\* So does a key that goes down,
LEMMA KeyDownPlays ==
  ASSUME IInv, NEW n \in Keys, KeyDown(n)
  PROVE  perform' \in Kin(perform.router.console, Reasons') /\ Kept(perform', Reasons')
<1> DEFINE k == perform.router.console  S == Reasons'
<1>1. perform # None /\ perform' = Keyed(n, "press") /\ n \in Numbers
  BY DEF KeyDown, Numbers
<1>2. k \in Consoles /\ now \in 0..Session /\ perform \in Kin(k, Reasons)
  BY <1>1, PlayedOn
<1>3. \A r \in Reasons : r \in S
  BY KeyDownKeeps, ReasonsKept
<1>4. \A c \in Bound({"key"}, n, Keyboard) : \E r \in S : r[3] = c
  <2> SUFFICES ASSUME NEW c \in Bound({"key"}, n, Keyboard)
               PROVE  \E r \in S : r[3] = c
    OBVIOUS
  <2>1. c \in Readers(Keyboard, n)
    BY <1>2, EarsRead DEF Buttons
  <2>2. <<Keyboard, n, c>> \in S
    BY <2>1, KeyDownKeeps
  <2> QED
    BY <2>2
<1> HIDE DEF S, k
<1>5. perform \in Kin(k, S)
  <2>1. Kept(perform, S)
    BY <1>2, <1>3, MoreReasons
  <2> QED
    BY <1>2, <2>1 DEF Kin
<1>6. Keyed(n, "press") \in Kin(k, S)
  BY <1>1, <1>2, <1>4, <1>5, KeyedKept
<1> QED
  BY <1>1, <1>6 DEF Kin, S, k

\* and a key that comes up.
LEMMA KeyUpPlays ==
  ASSUME IInv, NEW n \in Keys, KeyUp(n)
  PROVE  perform' \in Kin(perform.router.console, Reasons) /\ Kept(perform', Reasons')
<1> DEFINE k == perform.router.console  R == Reasons  S == Reasons'
           ears == Bound({"key"}, n, Keyboard)
           T == {<<Keyboard, n, c>> : c \in ears}
           q == Keyed(n, "release")
<1>1. perform # None /\ perform' = q /\ n \in Numbers
  BY DEF KeyUp, Numbers
<1>2. k \in Consoles /\ now \in 0..Session /\ perform \in Kin(k, R)
  BY <1>1, PlayedOn
<1>3. \A r \in R : r \in S \/ r \in T
  BY KeyUpKeeps, ReasonsKept
<1>4. \A c \in ears : c \in Controls
  BY <1>2, EarsRead DEF Buttons
<1> HIDE DEF R, S, k, T
<1>5. /\ q \in Kin(k, R) /\ \A c \in ears : <<c, None>> \notin Held(q)
  <2>1. "release" \in {"press", "release"} /\ "release" # "press"
    OBVIOUS
  <2> HIDE DEF q
  <2> QED
    BY <1>1, <1>2, <2>1, KeyedKept DEF q, k
<1> HIDE DEF q, ears
<1>6. \A c \in ears : Keyboard \notin q.midiHeld[<<c, n>>]
  <2>1. q.midiHeld \in [Controls \X Numbers -> SUBSET MidiPorts]
    BY <1>2, <1>5, KinTyped
  <2>2. Keyboard \notin MidiPorts
    BY InputAssumption DEF Ports
  <2> QED
    BY <1>1, <1>4, <2>1, <2>2
<1>7. \A r \in T : LetGo(q, r[3], r[2], r[1]) /\ r = <<r[1], r[2], r[3]>>
  BY <1>5, <1>6 DEF T, LetGo
<1>8. Kept(q, S)
  BY <1>2, <1>3, <1>5, <1>7, LetGoKept
<1> QED
  BY <1>1, <1>5, <1>8 DEF R, S, k

\* Nothing held needs no reason.
LEMMA NothingHeld ==
  ASSUME NEW k \in Consoles, NEW q, q.router.console = k, NEW R,
         q.midiHeld = [press \in Controls \X Numbers |-> {}], Held(q) = {}
  PROVE  Kept(q, R)
<1>1. \A c \in Controls, n \in Numbers : q.midiHeld[<<c, n>>] = {}
  OBVIOUS
<1>2. Where(q)
  BY <1>1 DEF Where
<1>3. Matched(q)
  <2>1. ASSUME NEW press \in Holdable(k)
        PROVE  q.midiHeld[press] = {}
    <3>1. press[1] \in ToSet(k.inputs) /\ press[2] \in Numbers /\ press = <<press[1], press[2]>>
      BY DEF Holdable, Reads
    <3>2. press[1] \in Controls
      BY <3>1 DEF Controls
    <3> QED
      BY <1>1, <3>1, <3>2
  <2> QED
    BY <2>1 DEF Matched
<1>4. Backed(q, R)
  BY <1>1 DEF Backed
<1> QED
  BY <1>2, <1>3, <1>4 DEF Kept

\* The loss of the focus lets everything go.
LEMMA BlurKeeps ==
  ASSUME IInv, Blur
  PROVE  /\ perform' \in Kin(perform.router.console, {}) /\ Kept(perform', Reasons')
         /\ \A c \in Controls, n \in Numbers : \A call \in calls :
              <<call.link.port, n, c>> \in Reasons => <<call.link.port, n, c>> \in Reasons'
<1> DEFINE k == perform.router.console  S == Reasons'  r == ReleaseAll(perform.router, now)
           empty == [press \in Controls \X Numbers |-> {}]
           q == [perform EXCEPT !.midiHeld = empty, !.router = r]
<1>1. perform # None /\ perform' = q
  BY DEF Blur
<1>2. k \in Consoles /\ now \in 0..Session /\ perform \in Stage(perform, k, now) /\ perform.router \in Good(k, now)
  BY <1>1, PlayedOn DEF Kin, Stage
<1> HIDE DEF k
<1>3. r \in Good(k, now) /\ ToSet(r.held) = {}
  BY <1>2, ReleaseAllGood
<1> HIDE DEF r
<1>4. q \in Stage(perform, k, now) /\ Held(q) = {} /\ q.midiHeld = empty
  BY <1>2, <1>3 DEF Stage, Held
<1> HIDE DEF q
<1>5. \A R : Kept(q, R)
  BY <1>2, <1>4, StageConsole, NothingHeld DEF empty
<1>6. ASSUME NEW c \in Controls, NEW n \in Numbers, NEW call \in calls, <<call.link.port, n, c>> \in Reasons
      PROVE  <<call.link.port, n, c>> \in Reasons'
  <2> DEFINE port == call.link.port
  <2>1. port \in Ports /\ port # Keyboard
    BY InputAssumption DEF IInv, Settled, Links
  <2>2. c \in Readers(port, n) /\ Ending(c, port, n)
    BY <1>6 DEF Reasons
  <2>3. /\ <<port, n>> \in hand => <<port, n>> \in hand'
        /\ <<<<port, n>>, c>> \in missed => <<<<port, n>>, c>> \in missed'
        /\ UNCHANGED <<plugged, links, calls>>
    BY <2>1 DEF Blur
  <2> HIDE DEF port
  <2>4. Ending(c, port, n)'
    BY <2>2, <2>3 DEF Ending
  <2> QED
    BY <2>1, <2>2, <2>4 DEF Reasons, port
<1> QED
  BY <1>1, <1>4, <1>5, <1>6 DEF Kin, k

\* The session goes on.
LEMMA GoodLater ==
  ASSUME NEW k, NEW t \in Int, NEW u \in Int, t <= u, NEW q \in Good(k, t)
  PROVE  q \in Good(k, u)
<1>1. /\ q \in RouterType(k) /\ LogSays(q, ToSet(q.held)) /\ AgreesFrom(q, t) /\ InOrder(q.log, t)
  BY DEF Good
<1>2. AgreesFrom(q, u)
  BY <1>1, AgreesLater
<1>3. \A i \in DOMAIN q.log : q.log[i].time \in Int
  <2>1. q.log \in Seq(Entry(k))
    BY <1>1 DEF RouterType
  <2>2. \A i \in DOMAIN q.log : q.log[i] \in Entry(k)
    BY <2>1
  <2> QED
    BY <2>2 DEF Entry
<1>4. InOrder(q.log, u)
  BY <1>1, <1>3 DEF InOrder
<1> QED
  BY <1>1, <1>2, <1>4 DEF Good

\* Time passes, and nothing that is held changes.
LEMMA TickPlays ==
  ASSUME IInv, Tick
  PROVE  perform' \in Kin(perform.router.console, Reasons)'
<1> DEFINE k == perform.router.console  S == Reasons'
<1>1. perform # None /\ perform' = perform /\ now' = now + 1 /\ now < Session
  BY DEF Tick
<1>2. k \in Consoles /\ now \in 0..Session /\ perform \in Kin(k, Reasons)
  BY <1>1, PlayedOn
<1>3. EndingKept({})
  BY DEF Tick, EndingKept, Ending
<1>4. \A r \in Reasons : r \in S
  BY <1>3, ReasonsKept
<1>5. now \in Int /\ now + 1 \in Int /\ now <= now + 1
  BY <1>2, RouterAssumption
<1> HIDE DEF S, k
<1>6. Kept(perform, S)
  BY <1>2, <1>4, MoreReasons
<1>7. perform \in Stage(perform, k, now + 1)
  <2>1. perform \in Stage(perform, k, now) /\ perform.router \in Good(k, now)
    BY <1>2 DEF Kin, Stage
  <2>2. perform.router \in Good(k, now + 1)
    BY <1>5, <2>1, GoodLater
  <2> QED
    BY <2>1, <2>2 DEF Stage
<1>8. perform' \in Stage(perform', k, now') /\ Kept(perform', S)
  BY <1>1, <1>6, <1>7
<1>9. perform'.router.console = k
  BY <1>1 DEF k
<1> QED
  BY <1>8, <1>9 DEF Kin, S

-------------------------------------------------------------------------------
(* A performance that starts, and one that an edit arms again.             *)

\* The inputs that stay open, or that a console opens.
LEMMA OpenedTyped ==
  ASSUME IInv, NEW console, NEW carry \in BOOLEAN, carry => perform # None,
         NEW kind \in {"midi", "osc"}, NEW kinds, NEW session \in 1..MaxArms, armed + 1 \in 1..MaxArms
  PROVE  Opened(console, carry, kind, kinds, session) \in Inputs \cup {None}
<1>1. carry => perform[kind] \in Inputs \cup {None}
  BY DEF IInv, Performing
<1> QED
  BY <1>1 DEF Opened, Inputs

\* What arming makes of the performance in progress.
Rearmed(p, q, l) ==
  /\ q.router = Resume(Fresh(l), p.router.log)
  /\ q.midiHeld = [press \in Controls \X Numbers |->
                     IF press[1] \in ToSet(l.inputs) THEN p.midiHeld[press] ELSE {}]

\* Arming again keeps the log in order and the lights in agreement, and what the
\* ports hold matched with the presses that carry over.
LEMMA RearmedKept ==
  ASSUME NEW k \in Consoles, NEW l \in Consoles, NEW t \in 0..Session, NEW p, NEW q, NEW R,
         p.router \in Good(k, t), p.midiHeld \in [Controls \X Numbers -> SUBSET MidiPorts],
         Kept(p, R), Rearmed(p, q, l)
  PROVE  /\ q.router \in Good(l, t) /\ q.midiHeld \in [Controls \X Numbers -> SUBSET MidiPorts]
         /\ Held(q) = {press \in Held(p) : press[1] \in ToSet(l.inputs)}
         /\ SameEvents(k, l) => Plays(p.router, q.router)
         /\ Kept(q, R)
<1>1. /\ q.router \in Good(l, t) /\ Held(q) = {press \in Held(p) : press[1] \in ToSet(l.inputs)}
      /\ SameEvents(k, l) => Plays(p.router, q.router)
  BY ResumeGood DEF Rearmed, Held
<1>2. /\ p.router.console = k /\ q.router.console = l /\ Held(p) \subseteq Press(k)
  BY <1>1 DEF Good, RouterType, Unrepeated, Held, ToSet
<1>3. \A c \in Controls, n \in Numbers :
        q.midiHeld[<<c, n>>] = IF c \in ToSet(l.inputs) THEN p.midiHeld[<<c, n>>] ELSE {}
  BY DEF Rearmed
<1>4. q.midiHeld \in [Controls \X Numbers -> SUBSET MidiPorts]
  BY DEF Rearmed
<1>5. /\ \A c : By(p, c) = k.reads[c].by /\ By(q, c) = l.reads[c].by
      /\ \A c, n : Note(p, c, n) = (IF k.reads[c].by = "pedal" THEN None ELSE n)
                   /\ Note(q, c, n) = (IF l.reads[c].by = "pedal" THEN None ELSE n)
  BY <1>2 DEF By, Note
<1>6. ASSUME NEW c \in ToSet(k.inputs), c \in ToSet(l.inputs)
      PROVE  /\ KeepsKind(c) => k.reads[c].by = l.reads[c].by
             /\ Steady(c) => /\ KeepsKind(c)
                             /\ k.reads[c].by = "pedal" => k.reads[c].numbers = l.reads[c].numbers
  BY <1>6 DEF KeepsKind, Steady
<1>7. Where(q)
  <2> SUFFICES ASSUME NEW c \in Controls, NEW n \in Numbers, q.midiHeld[<<c, n>>] # {}
               PROVE  /\ c \in ToSet(l.inputs)
                      /\ Steady(c) /\ l.reads[c].by = "pedal" => n \in l.reads[c].numbers
    BY <1>2, <1>5 DEF Where
  <2>1. c \in ToSet(l.inputs) /\ p.midiHeld[<<c, n>>] # {}
    BY <1>3
  <2>2. c \in ToSet(k.inputs) /\ (Steady(c) /\ k.reads[c].by = "pedal" => n \in k.reads[c].numbers)
    BY <1>2, <1>5, <2>1 DEF Kept, Where
  <2> QED
    BY <1>6, <2>1, <2>2
<1>8. Matched(q)
  <2> SUFFICES ASSUME NEW press \in Holdable(l)
               PROVE  q.midiHeld[press] # {} <=> <<press[1], Note(q, press[1], press[2])>> \in Held(q)
    BY <1>2 DEF Matched
  <2> DEFINE c == press[1]  n == press[2]
  <2>1. /\ c \in ToSet(l.inputs) /\ c \in Controls /\ n \in Numbers /\ press = <<c, n>>
        /\ l.reads[c].by \in {"notes", "pedal"} /\ Steady(c)
        /\ l.reads[c].by = "pedal" => n \in l.reads[c].numbers
    BY DEF Holdable, Reads, Controls
  <2> HIDE DEF c, n
  <2>2. q.midiHeld[press] = p.midiHeld[<<c, n>>]
    BY <1>3, <2>1
  <2>3. CASE c \in ToSet(k.inputs)
    <3>1. k.reads[c].by = l.reads[c].by /\ (k.reads[c].by = "pedal" => k.reads[c].numbers = l.reads[c].numbers)
      BY <1>6, <2>1, <2>3
    <3>2. <<c, n>> \in Holdable(k)
      BY <2>1, <2>3, <3>1 DEF Holdable, Reads
    <3>3. p.midiHeld[<<c, n>>] # {} <=> <<c, Note(p, c, n)>> \in Held(p)
      BY <1>2, <3>2 DEF Kept, Matched
    <3>4. Note(q, c, n) = Note(p, c, n)
      BY <1>5, <3>1
    <3> QED
      BY <1>1, <2>1, <2>2, <3>3, <3>4 DEF c, n
  <2>4. CASE c \notin ToSet(k.inputs)
    <3>1. p.midiHeld[<<c, n>>] = {}
      BY <1>2, <2>1, <2>4 DEF Kept, Where
    <3>2. \A note : <<c, note>> \notin Held(p)
      BY <1>2, <2>4 DEF Press
    <3> QED
      BY <1>1, <2>1, <2>2, <3>1, <3>2 DEF c, n
  <2> QED
    BY <2>3, <2>4
<1>9. Backed(q, R)
  <2>1. \A c \in Controls, n \in Numbers : \A port \in q.midiHeld[<<c, n>>] : <<port, n, c>> \in R
    BY <1>3 DEF Kept, Backed
  <2>2. ASSUME NEW press \in Held(q), KeepsKind(press[1])
        PROVE  IF By(q, press[1]) \in {"notes", "pedal"}
                 THEN \E n \in Numbers : press[2] = Note(q, press[1], n) /\ q.midiHeld[<<press[1], n>>] # {}
                 ELSE press[2] = None /\ \E r \in R : r[3] = press[1]
    <3>1. press \in Held(p) /\ press[1] \in ToSet(l.inputs) /\ press[1] \in ToSet(k.inputs)
          /\ press[1] \in Controls
      BY <1>1, <1>2 DEF Press, Controls
    <3>2. k.reads[press[1]].by = l.reads[press[1]].by
      BY <1>6, <2>2, <3>1
    <3>3. IF By(p, press[1]) \in {"notes", "pedal"}
            THEN \E n \in Numbers : press[2] = Note(p, press[1], n) /\ p.midiHeld[<<press[1], n>>] # {}
            ELSE press[2] = None /\ \E r \in R : r[3] = press[1]
      BY <2>2, <3>1 DEF Kept, Backed
    <3>4. CASE By(p, press[1]) \in {"notes", "pedal"}
      <4>1. PICK n \in Numbers : press[2] = Note(p, press[1], n) /\ p.midiHeld[<<press[1], n>>] # {}
        BY <3>3, <3>4
      <4>2. Note(q, press[1], n) = Note(p, press[1], n) /\ By(q, press[1]) = By(p, press[1])
        BY <1>5, <3>2
      <4>3. q.midiHeld[<<press[1], n>>] # {}
        BY <1>3, <3>1, <4>1
      <4> QED
        BY <3>4, <4>1, <4>2, <4>3
    <3>5. CASE By(p, press[1]) \notin {"notes", "pedal"}
      <4>1. By(q, press[1]) = By(p, press[1])
        BY <1>5, <3>2
      <4> QED
        BY <3>3, <3>5, <4>1
    <3> QED
      BY <3>4, <3>5
  <2> QED
    BY <2>1, <2>2 DEF Backed
<1> QED
  BY <1>1, <1>4, <1>7, <1>8, <1>9 DEF Kept

\* A performance that starts holds nothing and has a session of its own.
LEMMA StartPlays ==
  ASSUME IInv, Settled', NEW console \in Starting, StartPerforming(console)
  PROVE  Performing' /\ perform'.generation = armed + 1 /\ perform'.session = armed + 1
<1> DEFINE router == Fresh(console)
           empty == [press \in Controls \X Numbers |-> {}]
           midi == Opened(console, FALSE, "midi", Midi, armed + 1)
           osc == Opened(console, FALSE, "osc", Osc, armed + 1)
           q == [generation |-> armed + 1, session |-> armed + 1, router |-> router,
                 midiHeld |-> empty, midi |-> midi, osc |-> osc]
<1>1. perform' = q /\ now' = 0 /\ armed' = armed + 1
  <2>1. Arm(console, FALSE) /\ now' = 0
    BY DEF StartPerforming
  <2>2. perform' = q /\ armed' = armed + 1
    <3>1. \A press \in Controls \X Numbers : (IF FALSE /\ press[1] \in ToSet(console.inputs)
                                                THEN perform.midiHeld[press] ELSE {}) = {}
      OBVIOUS
    <3> QED
      BY <2>1, <3>1 DEF Arm, Fresh
  <2> QED
    BY <2>1, <2>2
<1>2. console \in Consoles /\ armed \in Nat /\ armed + 1 \in 1..MaxArms
  <2>1. armed \in Nat /\ armed + 1 \in 0..MaxArms
    BY <1>1, InputAssumption DEF IInv, Settled
  <2> QED
    BY <2>1, InputAssumption
<1>3. router \in Good(console, 0) /\ ToSet(router.held) = {}
  BY <1>2, FreshGood
<1>4. midi \in Inputs \cup {None} /\ osc \in Inputs \cup {None}
  BY <1>2, OpenedTyped
<1> HIDE DEF router, midi, osc, empty
<1>5. q \in Stage(q, console, 0) /\ Held(q) = {} /\ q.router.console = console /\ q.midiHeld = empty
  <2>1. router.console = console
    BY <1>3 DEF Good, RouterType
  <2>2. empty \in [Controls \X Numbers -> SUBSET MidiPorts]
    BY DEF empty
  <2> QED
    BY <1>3, <2>1, <2>2 DEF Stage, Held
<1>6. q.generation = armed + 1 /\ q.session = armed + 1 /\ q.midi = midi /\ q.osc = osc
  OBVIOUS
<1> HIDE DEF q
<1> DEFINE S == Reasons'
<1> HIDE DEF S
<1>7. Kept(q, S)
  BY <1>2, <1>5, NothingHeld DEF empty
<1>8. perform' \in Kin(perform.router.console, Reasons)'
  BY <1>1, <1>5, <1>7 DEF Kin, S
<1>9. armed + 1 \in 1..(armed + 1)
  BY <1>2
<1> QED
  BY <1>1, <1>2, <1>4, <1>5, <1>6, <1>8, <1>9 DEF Performing

\* One that an edit arms again keeps its session and the presses of its controls.
LEMMA RearmPlays ==
  ASSUME IInv, Settled', NEW console \in Consoles, Rearm(console)
  PROVE  /\ Performing' /\ perform'.generation = armed + 1 /\ perform'.session = perform.session
         /\ perform'.router.console = console
         /\ Held(perform') = {press \in Held(perform) : press[1] \in ToSet(console.inputs)}
         /\ SameEvents(perform.router.console, console) => Plays(perform.router, perform'.router)
<1> DEFINE k == perform.router.console
           router == Resume(Fresh(console), perform.router.log)
           holds == [press \in Controls \X Numbers |->
                       IF press[1] \in ToSet(console.inputs) THEN perform.midiHeld[press] ELSE {}]
           midi == Opened(console, TRUE, "midi", Midi, perform.session)
           osc == Opened(console, TRUE, "osc", Osc, perform.session)
           q == [generation |-> armed + 1, session |-> perform.session, router |-> router,
                 midiHeld |-> holds, midi |-> midi, osc |-> osc]
<1>1. perform # None /\ perform' = q /\ now' = now /\ armed' = armed + 1
  <2>1. Arm(console, TRUE) /\ now' = now /\ perform # None
    BY DEF Rearm
  <2>2. perform' = q /\ armed' = armed + 1
    BY <2>1 DEF Arm, Fresh
  <2> QED
    BY <2>1, <2>2
<1>2. /\ armed \in Nat /\ armed + 1 \in 1..MaxArms /\ perform.session \in 1..MaxArms
      /\ perform.session \in 1..(armed + 1)
  <2>1. armed \in Nat /\ armed + 1 \in 0..MaxArms /\ perform.session \in 1..armed
    BY <1>1, InputAssumption DEF IInv, Settled, Performing
  <2> QED
    BY <2>1, InputAssumption
<1>3. k \in Consoles /\ now \in 0..Session /\ perform \in Kin(k, Reasons)
  BY <1>1, PlayedOn
<1>4. perform.router \in Good(k, now) /\ perform.midiHeld \in [Controls \X Numbers -> SUBSET MidiPorts]
      /\ Kept(perform, Reasons)
  BY <1>3 DEF Kin, Stage
<1>5. midi \in Inputs \cup {None} /\ osc \in Inputs \cup {None}
  BY <1>1, <1>2, OpenedTyped
<1>6. Rearmed(perform, q, console)
  BY DEF Rearmed
<1>7. EndingKept({})
  BY DEF Rearm, EndingKept, Ending
<1> DEFINE S == Reasons'
<1>8. \A r \in Reasons : r \in S
  BY <1>7, ReasonsKept
<1>9. q.generation = armed + 1 /\ q.session = perform.session /\ q.midi = midi /\ q.osc = osc
  OBVIOUS
<1>10. q \in [generation : {q.generation}, session : {q.session}, router : {q.router},
              midiHeld : {q.midiHeld}, midi : {q.midi}, osc : {q.osc}]
  OBVIOUS
<1> HIDE DEF q, S, k, midi, osc
<1>11. Kept(perform, S)
  BY <1>3, <1>8, MoreReasons
<1>12. /\ q.router \in Good(console, now) /\ q.midiHeld \in [Controls \X Numbers -> SUBSET MidiPorts]
       /\ Held(q) = {press \in Held(perform) : press[1] \in ToSet(console.inputs)}
       /\ SameEvents(k, console) => Plays(perform.router, q.router)
       /\ Kept(q, S)
  BY <1>3, <1>4, <1>6, <1>11, RearmedKept
<1>13. q \in Stage(q, console, now) /\ q.router.console = console
  BY <1>10, <1>12 DEF Stage, Good, RouterType
<1>14. perform' \in Kin(perform.router.console, Reasons)'
  BY <1>1, <1>12, <1>13 DEF Kin, S
<1>15. Performing'
  BY <1>1, <1>2, <1>5, <1>9, <1>13, <1>14 DEF Performing
<1> QED
  BY <1>1, <1>9, <1>12, <1>13, <1>15 DEF k

-------------------------------------------------------------------------------
(* The invariant is inductive.                                             *)

\* Every step keeps the performance in order.
LEMMA PerformingKept ==
  ASSUME IInv, Settled', [Next]_vars
  PROVE  Performing'
<1> DEFINE k == perform.router.console
           Fields == /\ perform'.generation = perform.generation /\ perform'.session = perform.session
                     /\ perform'.midi = perform.midi /\ perform'.osc = perform.osc
<1>0. perform # None => k \in Consoles /\ now \in 0..Session /\ perform \in Kin(k, Reasons)
  BY PlayedOn
<1>1. ASSUME perform # None, NEW R, perform' \in Kin(k, R), now' = now, armed' = armed, Kept(perform', Reasons')
      PROVE  Performing'
  <2>1. perform' \in Stage(perform, k, now) /\ perform'.router.console = k
    BY <1>0, <1>1, KinTyped
  <2>2. Fields /\ perform' \in Stage(perform', perform'.router.console, now')
    BY <1>1, <2>1 DEF Stage
  <2>3. perform' \in Kin(perform.router.console, Reasons)'
    BY <1>1, <2>2 DEF Kin
  <2> QED
    BY <1>0, <1>1, <2>1, <2>2, <2>3 DEF IInv, Performing
<1>2. ASSUME perform' = perform, now' = now, armed' = armed, EndingKept({})
      PROVE  Performing'
  <2>1. CASE perform = None
    BY <1>2, <2>1 DEF Performing
  <2>2. CASE perform # None
    <3>1. perform \in Kin(k, Reasons) /\ \A r \in Reasons : r \in Reasons'
      BY <1>0, <1>2, <2>2, ReasonsKept
    <3> DEFINE S == Reasons'
    <3> HIDE DEF S
    <3>2. \A r \in Reasons : r \in S
      BY <3>1 DEF S
    <3>3. Kept(perform, S)
      BY <1>0, <2>2, <3>1, <3>2, MoreReasons
    <3>4. Kept(perform', Reasons')
      BY <1>2, <3>3 DEF S
    <3>5. perform' \in Kin(k, Reasons)
      BY <1>2, <3>1
    <3> QED
      BY <1>1, <1>2, <2>2, <3>4, <3>5
  <2> QED
    BY <2>1, <2>2
<1>3. ASSUME NEW console \in Starting, StartPerforming(console)
      PROVE  Performing'
  BY <1>3, StartPlays
<1>4. ASSUME NEW console \in Consoles, Rearm(console)
      PROVE  Performing'
  BY <1>4, RearmPlays
<1>5. CASE StopPerforming
  BY <1>5 DEF StopPerforming, Performing
<1>6. CASE Tick
  <2>1. perform' \in Kin(perform.router.console, Reasons)'
    BY <1>6, TickPlays
  <2>2. perform # None /\ perform' = perform /\ armed' = armed
    BY <1>6 DEF Tick
  <2> QED
    BY <1>0, <2>1, <2>2 DEF IInv, Performing
<1>7. CASE Blur
  <2>1. perform' \in Kin(k, {}) /\ Kept(perform', Reasons')
    BY <1>7, BlurKeeps
  <2>2. perform # None /\ now' = now /\ armed' = armed
    BY <1>7 DEF Blur
  <2> QED
    BY <1>1, <2>1, <2>2
<1>8. ASSUME NEW n \in Keys, KeyDown(n) \/ KeyUp(n)
      PROVE  Performing'
  <2>1. perform # None /\ now' = now /\ armed' = armed
    BY <1>8 DEF KeyDown, KeyUp
  <2>2. CASE KeyDown(n)
    BY <1>1, <2>1, <2>2, KeyDownPlays
  <2>3. CASE KeyUp(n)
    BY <1>1, <2>1, <2>3, KeyUpPlays
  <2> QED
    BY <1>8, <2>2, <2>3
<1>9. ASSUME NEW port \in MidiPorts, Plug(port) \/ Unplug(port)
      PROVE  Performing'
  <2>1. UNCHANGED <<perform, now, armed>>
    BY <1>9 DEF Plug, Unplug
  <2> QED
    BY <1>2, <1>9, <2>1, PlugKeeps, UnplugKeeps
<1>10. ASSUME NEW by \in Listening, NEW port \in Ports, Connect(by, port)
       PROVE  Performing'
  <2>1. UNCHANGED <<perform, now, armed>>
    BY <1>10 DEF Connect
  <2> QED
    BY <1>2, <1>10, <2>1, ConnectKeeps
<1>11. ASSUME NEW l \in links, Close(l) \/ Lose(l)
       PROVE  Performing'
  <2>1. UNCHANGED <<perform, now, armed>>
    BY <1>11 DEF Close, Lose
  <2> QED
    BY <1>2, <1>11, <2>1, CloseKeeps, LoseKeeps
<1>12. ASSUME NEW sent \in Sendable, Send(sent[1], sent[2])
       PROVE  Performing'
  <2>1. UNCHANGED <<perform, now, armed>>
    BY <1>12 DEF Send
  <2> QED
    BY <1>2, <1>12, <2>1, SendKeeps
<1>13. ASSUME NEW call \in calls, Hear(call) \/ HearLost(call)
       PROVE  Performing'
  <2>1. UNCHANGED <<now, armed>>
    BY <1>13 DEF Hear, HearLost
  <2>2. CASE Hears(call)
    <3>1. perform # None
      BY <2>2 DEF Hears
    <3>2. perform' \in Kin(k, Reasons) /\ Kept(perform', Reasons')
      BY <1>13, <2>2, HearPlays, HearLostPlays
    <3> QED
      BY <1>1, <2>1, <3>1, <3>2
  <2>3. CASE ~Hears(call)
    BY <1>2, <1>13, <2>1, <2>3, DeafKeeps
  <2> QED
    BY <2>2, <2>3
<1>14. CASE UNCHANGED vars
  <2>1. UNCHANGED <<perform, now, armed, hand, missed, plugged, links, calls>>
    BY <1>14 DEF vars
  <2>2. EndingKept({})
    BY <2>1 DEF EndingKept, Ending
  <2> QED
    BY <1>2, <2>1, <2>2
<1> QED
  BY <1>3, <1>4, <1>5, <1>6, <1>7, <1>8, <1>9, <1>10, <1>11, <1>12, <1>13, <1>14 DEF Next

\* A press on its way, when the performance keeps its number.
LEMMA PendingLater ==
  ASSUME IInv, perform # None, perform' # None => perform'.generation = perform.generation, calls' \subseteq calls,
         \A call \in calls' : Begins(call) =>
           \A c \in Readers(call.link.port, call.message.number) :
             <<call.link.port, call.message.number, c>> \in Reasons =>
               <<call.link.port, call.message.number, c>> \in Reasons'
  PROVE  Pending'
BY DEF IInv, Pending, Begins

\* Every step keeps a reason for each press that is on its way.
LEMMA PendingKept ==
  ASSUME IInv, Settled', Calls', Performing', [Next]_vars
  PROVE  Pending'
<1>0. armed \in Nat /\ \A call \in calls : call.generation \in Nat /\ call.generation <= armed
  <2>1. armed \in Nat /\ \A call \in calls : call.generation \in Nat
    BY InputAssumption DEF IInv, Settled
  <2> QED
    BY <2>1 DEF IInv, Calls
<1>1. ASSUME perform' = perform, calls' \subseteq calls, EndingKept({})
      PROVE  Pending'
  <2>1. \A r \in Reasons : r \in Reasons'
    BY <1>1, ReasonsKept
  <2>2. CASE perform # None
    BY <1>1, <2>1, <2>2, PendingLater
  <2>3. CASE perform = None
    BY <1>1, <2>3 DEF Pending
  <2> QED
    BY <2>2, <2>3
<1>2. ASSUME perform' # None => perform'.generation = armed + 1, calls' = calls
      PROVE  Pending'
  BY <1>0, <1>2 DEF Pending
<1>3. ASSUME NEW console \in Starting, StartPerforming(console)
      PROVE  Pending'
  <2>1. calls' = calls
    BY <1>3 DEF StartPerforming
  <2> QED
    BY <1>2, <1>3, <2>1, StartPlays
<1>4. ASSUME NEW console \in Consoles, Rearm(console)
      PROVE  Pending'
  <2>1. calls' = calls
    BY <1>4 DEF Rearm
  <2> QED
    BY <1>2, <1>4, <2>1, RearmPlays
<1>5. CASE StopPerforming
  BY <1>5 DEF StopPerforming, Pending
<1>6. CASE Tick
  <2>1. EndingKept({}) /\ perform' = perform /\ calls' = calls
    BY <1>6 DEF Tick, EndingKept, Ending
  <2> QED
    BY <1>1, <2>1
<1>7. ASSUME perform # None, NEW R, perform' \in Kin(perform.router.console, R), calls' \subseteq calls,
             NEW T, EndingKept(T),
             \A call \in calls' : Begins(call) =>
               \A c \in Readers(call.link.port, call.message.number) : <<call.link.port, call.message.number, c>> \notin T
      PROVE  Pending'
  <2>1. \A r \in Reasons : r \in Reasons' \/ r \in T
    BY <1>7, ReasonsKept
  <2>2. perform'.generation = perform.generation
    BY <1>7 DEF Kin, Stage
  <2> QED
    BY <1>7, <2>1, <2>2, PendingLater
<1>8. CASE Blur
  <2>1. /\ perform' \in Kin(perform.router.console, {})
        /\ \A c \in Controls, n \in Numbers : \A call \in calls :
             <<call.link.port, n, c>> \in Reasons => <<call.link.port, n, c>> \in Reasons'
    BY <1>8, BlurKeeps
  <2>2. perform # None /\ calls' = calls /\ perform'.generation = perform.generation
    BY <1>8, <2>1 DEF Blur, Kin, Stage
  <2>3. \A call \in calls : call.message.kind # "lost" => call.message.number \in Numbers
    <3>1. \A call \in calls : call.message.kind # "lost" => <<call.link.port, call.message>> \in Sendable
      BY DEF IInv, Calls
    <3> QED
      BY <3>1, MessageTyped
  <2>4. \A call \in calls' : Begins(call) =>
          \A c \in Readers(call.link.port, call.message.number) :
            <<call.link.port, call.message.number, c>> \in Reasons =>
              <<call.link.port, call.message.number, c>> \in Reasons'
    BY <2>1, <2>2, <2>3, EndsTyped DEF Begins
  <2> QED
    BY <2>2, <2>4, PendingLater
<1>9. ASSUME NEW n \in Keys, KeyDown(n)
      PROVE  Pending'
  <2>1. perform # None /\ calls' = calls /\ EndingKept({})
    BY <1>9, KeyDownKeeps DEF KeyDown
  <2>2. perform' \in Kin(perform.router.console, Reasons')
    BY <1>9, KeyDownPlays
  <2> QED
    BY <1>7, <2>1, <2>2
<1>10. ASSUME NEW n \in Keys, KeyUp(n)
       PROVE  Pending'
  <2> DEFINE T == {<<Keyboard, n, c>> : c \in Bound({"key"}, n, Keyboard)}
  <2>1. perform # None /\ calls' = calls /\ EndingKept(T)
    BY <1>10, KeyUpKeeps DEF KeyUp
  <2>2. perform' \in Kin(perform.router.console, Reasons)
    BY <1>10, KeyUpPlays
  <2>3. \A call \in calls : call.link.port # Keyboard
    BY InputAssumption DEF IInv, Settled, Links
  <2>4. \A r \in T : r[1] = Keyboard
    OBVIOUS
  <2> HIDE DEF T
  <2> QED
    BY <1>7, <2>1, <2>2, <2>3, <2>4
<1>11. ASSUME NEW port \in MidiPorts, Plug(port) \/ Unplug(port)
       PROVE  Pending'
  <2>1. perform' = perform /\ calls' = calls
    BY <1>11 DEF Plug, Unplug
  <2> QED
    BY <1>1, <1>11, <2>1, PlugKeeps, UnplugKeeps
<1>12. ASSUME NEW by \in Listening, NEW port \in Ports, Connect(by, port)
       PROVE  Pending'
  <2>1. perform' = perform /\ calls' = calls
    BY <1>12 DEF Connect
  <2> QED
    BY <1>1, <1>12, <2>1, ConnectKeeps
<1>13. ASSUME NEW l \in links, Close(l)
       PROVE  Pending'
  <2>1. perform' = perform /\ calls' = calls
    BY <1>13 DEF Close
  <2> QED
    BY <1>1, <1>13, <2>1, CloseKeeps
<1>14. ASSUME NEW ls \in SUBSET links, NEW m, calls' = calls \cup Calling(ls, m), perform' = perform, EndingKept({}),
              m.kind # "lost" /\ ~EndsPress(m) =>
                \A l \in ls : \A c \in Readers(l.port, m.number) : <<l.port, m.number, c>> \in Reasons'
       PROVE  Pending'
  <2>1. \A r \in Reasons : r \in Reasons'
    BY <1>14, ReasonsKept
  <2>2. \A call \in Calling(ls, m) : call.message = m /\ \E l \in ls : call.link = l
    BY DEF Calling
  <2> QED
    BY <1>14, <2>1, <2>2 DEF IInv, Pending, Begins
<1>15. ASSUME NEW l \in links, Lose(l)
       PROVE  Pending'
  <2> DEFINE lost == [kind |-> "lost", number |-> None, value |-> None]
  <2>1. /\ calls' = calls \cup Calling({l}, lost) /\ perform' = perform /\ EndingKept({})
        /\ {l} \in SUBSET links /\ lost.kind = "lost"
    BY <1>15, LoseKeeps DEF Lose
  <2> HIDE DEF lost
  <2> QED
    BY <1>14, <2>1
<1>16. ASSUME NEW sent \in Sendable, Send(sent[1], sent[2])
       PROVE  Pending'
  <2> DEFINE port == sent[1]  m == sent[2]  ls == {l \in links : l.port = port}
  <2>1. /\ calls' = calls \cup Calling(ls, m) /\ perform' = perform /\ EndingKept({})
        /\ ls \in SUBSET links
    BY <1>16, SendKeeps DEF Send
  <2>2. port \in Ports /\ m.number \in Numbers
    <3>1. sent = <<sent[1], sent[2]>>
      BY InputAssumption
    <3> QED
      BY <3>1, MessageTyped
  <2>3. ASSUME ~EndsPress(m), NEW c \in Readers(port, m.number)
        PROVE  <<port, m.number, c>> \in Reasons'
    <3>1. <<port, m.number>> \in hand'
      BY <1>16, <2>3 DEF Send
    <3>2. Ending(c, port, m.number)'
      BY <3>1 DEF Ending
    <3> QED
      BY <2>2, <2>3, <3>2, EndsTyped DEF Reasons
  <2>4. \A l \in ls : l.port = port
    OBVIOUS
  <2> HIDE DEF port, m, ls
  <2> QED
    BY <1>14, <2>1, <2>3, <2>4
<1>17. ASSUME NEW call \in calls, Hear(call) \/ HearLost(call)
       PROVE  Pending'
  <2> DEFINE port == call.link.port  m == call.message
  <2>1. calls' = calls \ {call}
    BY <1>17 DEF Hear, HearLost
  <2>2. CASE ~Hears(call)
    BY <1>1, <1>17, <2>1, <2>2, DeafKeeps
  <2>3. CASE Hears(call) /\ Hear(call)
    <3> DEFINE T == {<<port, m.number, c>> : c \in Ears(port, m)}
    <3>1. /\ ~EndsPress(m) => EndingKept({})
          /\ EndsPress(m) => EndingKept(T)
      BY <2>3, HearKeeps
    <3>2. perform # None /\ perform' \in Kin(perform.router.console, Reasons) /\ m.kind # "lost"
      BY <2>3, HearPlays DEF Hears, Hear
    <3>3. ASSUME EndsPress(m), NEW other \in calls, Begins(other)
          PROVE  other.link.port # port
      BY <3>2, <3>3 DEF IInv, Calls, Begins
    <3>4. \A r \in T : r[1] = port
      OBVIOUS
    <3> HIDE DEF T, port, m
    <3>5. CASE EndsPress(m)
      BY <1>7, <2>1, <3>1, <3>2, <3>3, <3>4, <3>5
    <3>6. CASE ~EndsPress(m)
      BY <1>7, <2>1, <3>1, <3>2, <3>6
    <3> QED
      BY <3>5, <3>6
  <2>4. CASE Hears(call) /\ HearLost(call)
    <3> DEFINE T == {port} \X Numbers \X Controls
    <3>1. EndingKept(T)
      BY <2>4, HearLostKeeps
    <3>2. perform # None /\ perform' \in Kin(perform.router.console, Reasons)
      BY <2>4, HearLostPlays DEF Hears
    <3>3. CASE \A other \in calls' : other.link.port # port
      <4>1. \A r \in T : r[1] = port
        OBVIOUS
      <4> HIDE DEF T, port
      <4> QED
        BY <1>7, <2>1, <3>1, <3>2, <3>3, <4>1
    <3>4. CASE \E other \in calls' : other.link.port = port
      <4>1. /\ \A x \in missed : x \in missed'
            /\ \A n \in Numbers : \A c \in Readers(port, n) : <<<<port, n>>, c>> \in missed'
            /\ UNCHANGED <<plugged, links, hand>>
        BY <2>4, <3>4 DEF HearLost, Gone
      <4>2. EndingKept({})
        BY <2>1, <4>1 DEF EndingKept, Ending
      <4> QED
        BY <1>7, <2>1, <3>2, <4>2
    <3> QED
      BY <3>3, <3>4
  <2> QED
    BY <1>17, <2>2, <2>3, <2>4
<1>18. CASE UNCHANGED vars
  <2>1. EndingKept({}) /\ perform' = perform /\ calls' = calls
    BY <1>18 DEF vars, EndingKept, Ending
  <2> QED
    BY <1>1, <2>1
<1> QED
  BY <1>3, <1>4, <1>5, <1>6, <1>8, <1>9, <1>10, <1>11, <1>12, <1>13, <1>15, <1>16, <1>17, <1>18 DEF Next

\* The invariant holds throughout.
LEMMA Inductive ==
  Spec => []IInv
<1>1. Init => IInv
  <2> SUFFICES ASSUME Init
               PROVE  IInv
    OBVIOUS
  <2>1. /\ perform = None /\ armed = 0 /\ now = 0 /\ plugged \subseteq MidiPorts
        /\ links = {} /\ calls = {} /\ hand = {} /\ missed = {}
        /\ left = [touches |-> MaxTouches, arms |-> MaxArms]
    BY DEF Init
  <2>2. Settled
    BY <2>1, InputAssumption, RouterAssumption DEF Settled
  <2> QED
    BY <2>1, <2>2 DEF IInv, Calls, Performing, Pending
<1>2. IInv /\ [Next]_vars => IInv'
  <2> SUFFICES ASSUME IInv, [Next]_vars
               PROVE  IInv'
    OBVIOUS
  <2>1. Settled' /\ Calls'
    BY SettledKept, CallsKept
  <2>2. Performing'
    BY <2>1, PerformingKept
  <2>3. Pending'
    BY <2>1, <2>2, PendingKept
  <2> QED
    BY <2>1, <2>2, <2>3 DEF IInv
<1> QED
  BY <1>1, <1>2, PTL DEF Spec

-------------------------------------------------------------------------------
(* What a performance promises.                                            *)

\* The performance in progress has its type and no press twice, and so have
\* the connections, the callbacks and what the player holds.
THEOREM LiveInputTypeCorrect == Spec => []TypeOK
<1>1. IInv => TypeOK
  <2> SUFFICES ASSUME IInv
               PROVE  TypeOK
    OBVIOUS
  <2>1. Settled
    BY DEF IInv
  <2>2. ASSUME perform # None
        PROVE  /\ perform.router.console \in Consoles /\ IsInjective(perform.router.held)
               /\ perform.midiHeld \in [Controls \X Numbers -> SUBSET MidiPorts]
    <3>1. perform.router.console \in Consoles /\ perform \in Kin(perform.router.console, Reasons)
      BY <2>2, PlayedOn
    <3>2. perform.router \in Good(perform.router.console, now)
          /\ perform.midiHeld \in [Controls \X Numbers -> SUBSET MidiPorts]
      BY <3>1 DEF Kin, Stage
    <3> QED
      BY <3>1, <3>2 DEF Good, RouterType, Unrepeated
  <2>3. ASSUME perform # None
        PROVE  /\ perform.session \in 1..perform.generation /\ perform.generation = armed
               /\ perform.midi \in Inputs \cup {None} /\ perform.osc \in Inputs \cup {None}
    BY <2>3 DEF IInv, Performing
  <2> QED
    BY <2>1, <2>2, <2>3 DEF TypeOK, Settled
<1> QED
  BY <1>1, Inductive, PTL

\* A note or a pedal is held exactly as long as a port holds it.
THEOREM HeldExactlyWhilePortsHold == Spec => []HeldAlike
<1>1. IInv => HeldAlike
  <2> SUFFICES ASSUME IInv, perform # None
               PROVE  Matched(perform)
    BY DEF HeldAlike, Matched, Held
  <2>1. perform \in Kin(perform.router.console, Reasons)
    BY PlayedOn
  <2> QED
    BY <2>1 DEF Kin, Kept
<1> QED
  BY <1>1, Inductive, PTL

\* What is held, the player holds, or its end is on its way or went by.
THEOREM NothingSoundsForEver == Spec => []NothingStuck
<1>1. IInv => NothingStuck
  <2> SUFFICES ASSUME IInv, perform # None, NEW press \in Held(perform), KeepsKind(press[1])
               PROVE  \E port \in Ports \cup {Keyboard}, n \in Numbers :
                        /\ press[1] \in Readers(port, n) /\ press[2] \in {n, None}
                        /\ Ending(press[1], port, n)
    BY DEF NothingStuck, Held
  <2>1. Kept(perform, Reasons) /\ Held(perform) \subseteq Press(perform.router.console)
        /\ perform.midiHeld \in [Controls \X Numbers -> SUBSET MidiPorts]
    BY PlayedOn, KinTyped
  <2>2. press[1] \in Controls
    BY <2>1, PlayedOn DEF Press, Controls
  <2>3. CASE By(perform, press[1]) \in {"notes", "pedal"}
    <3>1. PICK n \in Numbers : press[2] = Note(perform, press[1], n) /\ perform.midiHeld[<<press[1], n>>] # {}
      BY <2>1, <2>3 DEF Kept, Backed
    <3>2. PICK port \in perform.midiHeld[<<press[1], n>>] : TRUE
      BY <3>1
    <3>3. <<port, n, press[1]>> \in Reasons
      BY <2>1, <2>2, <3>2 DEF Kept, Backed
    <3>4. press[2] \in {n, None}
      BY <3>1 DEF Note
    <3> QED
      BY <3>3, <3>4 DEF Reasons
  <2>4. CASE By(perform, press[1]) \notin {"notes", "pedal"}
    <3>1. press[2] = None /\ \E r \in Reasons : r[3] = press[1]
      BY <2>1, <2>4 DEF Kept, Backed
    <3> QED
      BY <3>1, ReasonTyped
  <2> QED
    BY <2>3, <2>4
<1> QED
  BY <1>1, Inductive, PTL

\* The router and the evaluators say the same of what plays and of what is set.
THEOREM RouterAndEvaluatorsAgree == Spec => []EvaluatorsAgree
<1>1. IInv => EvaluatorsAgree
  <2> SUFFICES ASSUME IInv, perform # None, now < Session
               PROVE  LET router == perform.router
                      IN  /\ \A voice \in Voices(router.console) :
                               PlaysAt(router.copies[voice], now) <=> IsActive(router.lights.timing[voice], now)
                          /\ router.written = router.lights.values
    BY DEF EvaluatorsAgree
  <2>1. perform.router.console \in Consoles /\ now \in 0..Session
        /\ perform \in Kin(perform.router.console, Reasons)
    BY PlayedOn
  <2>2. AgreesFrom(perform.router, now)
    BY <2>1 DEF Kin, Stage, Good
  <2>3. now \in now..(Session - 1)
    BY <2>1, RouterAssumption
  <2> QED
    BY <2>2, <2>3 DEF AgreesFrom
<1> QED
  BY <1>1, Inductive, PTL

\* An edit keeps the presses of the controls the console still reads and,
\* where the events and the clips are the same, every light.
THEOREM InputsCarryOver == Spec => CarriesOver
<1> DEFINE Carried ==
      perform # None /\ perform' # None /\ perform'.session = perform.session
        /\ perform'.generation # perform.generation =>
      LET old == perform.router  new == perform'.router
      IN  /\ ToSet(new.held) = {press \in ToSet(old.held) : press[1] \in ToSet(new.console.inputs)}
          /\ (\A same \in {"on", "always", "copies"} : old.console[same] = new.console[same]) =>
               new.lights = old.lights
<1>1. IInv /\ IInv' /\ [Next]_vars => [Carried]_vars
  <2> SUFFICES ASSUME IInv, IInv', [Next]_vars,
                      perform # None, perform' # None, perform'.session = perform.session,
                      perform'.generation # perform.generation
               PROVE  Carried
    OBVIOUS
  <2>1. armed \in Nat /\ perform.generation = armed /\ perform'.generation = armed' /\ perform.session <= armed
    BY InputAssumption DEF IInv, Settled, Performing
  <2>2. \/ \E console \in Starting : StartPerforming(console)
        \/ \E console \in Consoles : Rearm(console)
    BY <2>1 DEF Next, vars, StopPerforming, Tick, Blur, KeyDown, KeyUp, Plug, Unplug, Connect, Close, Lose, Send, Hear, HearLost
  <2>3. ~\E console \in Starting : StartPerforming(console)
    <3> SUFFICES ASSUME NEW console \in Starting, StartPerforming(console)
                 PROVE  FALSE
      OBVIOUS
    <3>1. perform'.session = armed + 1
      BY StartPlays DEF IInv
    <3> QED
      BY <2>1, <3>1
  <2>4. PICK console \in Consoles : Rearm(console)
    BY <2>2, <2>3
  <2>5. /\ perform'.router.console = console
        /\ Held(perform') = {press \in Held(perform) : press[1] \in ToSet(console.inputs)}
        /\ SameEvents(perform.router.console, console) => Plays(perform.router, perform'.router)
    BY <2>4, RearmPlays DEF IInv
  <2>6. ASSUME \A same \in {"on", "always", "copies"} : perform.router.console[same] = perform'.router.console[same]
        PROVE  perform'.router.lights = perform.router.lights
    BY <2>5, <2>6 DEF SameEvents, Plays
  <2> QED
    BY <2>5, <2>6 DEF Held
<1> QED
  BY <1>1, Inductive, PTL DEF Spec, CarriesOver
===============================================================================
