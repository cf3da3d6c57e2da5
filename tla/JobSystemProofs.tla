-------------------------- MODULE JobSystemProofs --------------------------
(***************************************************************************)
(* The safety properties of JobSystem, for any threads, jobs and programs. *)
(*                                                                         *)
(* TypeOK rests on the shape of a stack: a callback that Run has called is *)
(* that of the first job of the jobsToRun below it.  OneOwner is proved in *)
(* terms of what each sequence of pointers holds: no sequence has a job    *)
(* twice, no two have a job in common, and together they have the jobs     *)
(* that are allocated.  It needs that no continuation is added twice,      *)
(* which is up to the program.  The last section states a condition on the *)
(* program alone, ContinuationsSettled, and proves it from that: a thread  *)
(* has never more calls left of a job than the job takes to be done, and   *)
(* none once its continuation is added.                                    *)
(***************************************************************************)
EXTENDS JobSystem, SequenceTheorems, FiniteSetTheorems, TLAPS

Distinct(seq) == \A i, k \in 1..Len(seq) : seq[i] = seq[k] => i = k

\* A frame in Run, with a callback on top of it, has the job of that callback first.
Shaped(s) ==
  \A d \in 1..Len(s) :
    /\ s[d].in = "Run" /\ d < Len(s)
         => s[d].jobsToRun # <<>> /\ Head(s[d].jobsToRun) = s[d + 1].code
    /\ s[d].in # "Run" => s[d].jobsToRun = <<>>
    /\ d > 1 => s[d].code \in Jobs

StackInv == \A t \in Threads : Shaped(stack[t])

\* The jobs that the frame at depth d of a stack has still to run.
Given(s, d) == IF d \in 1..Len(s) THEN Range(s[d].jobsToRun) ELSE {}

RunsOnce(s) == \A d \in 1..Len(s) : Distinct(s[d].jobsToRun)

NoneTwice ==
  /\ Distinct(jobs)
  /\ \A t \in Threads : RunsOnce(stack[t])

Apart ==
  /\ \A t \in Threads, d \in Nat : Given(stack[t], d) \cap Range(jobs) = {}
  /\ \A t, u \in Threads, d, e \in Nat :
       (t # u \/ d # e) => Given(stack[t], d) \cap Given(stack[u], e) = {}

Owned ==
  \A j \in Jobs :
    memory[j] = "allocated"
      <=> (j \in Range(jobs) \/ \E t \in Threads, d \in Nat : j \in Given(stack[t], d))

OwnerInv == NoneTwice /\ Apart /\ Owned

----------------------------------------------------------------------------
\* The first job is taken off a sequence that has no job twice.
LEMMA TailOnce ==
  ASSUME NEW s \in Seq(Jobs), s # <<>>, Distinct(s)
  PROVE  /\ Tail(s) \in Seq(Jobs)
         /\ Head(s) \in Range(s)
         /\ Distinct(Tail(s))
         /\ Range(Tail(s)) = Range(s) \ {Head(s)}
<1>1. /\ Len(s) \in Nat \ {0}
      /\ DOMAIN s = 1..Len(s)
      /\ Head(s) = s[1]
  BY EmptySeq, LenProperties, HeadTailProperties
<1>2. /\ Tail(s) \in Seq(Jobs)
      /\ Len(Tail(s)) = Len(s) - 1
      /\ \A i \in 1..Len(Tail(s)) : Tail(s)[i] = s[i + 1]
  BY HeadTailProperties
<1>3. DOMAIN Tail(s) = 1..Len(Tail(s))
  BY <1>2, LenProperties
<1>4. Head(s) \in Range(s)
  BY <1>1 DEF Range
<1>5. Distinct(Tail(s))
  BY <1>1, <1>2 DEF Distinct
<1>6. ASSUME NEW x \in Range(Tail(s))
      PROVE  x \in Range(s) \ {Head(s)}
  <2>1. PICK i \in 1..Len(Tail(s)) : x = Tail(s)[i]
    BY <1>3, <1>6 DEF Range
  <2>2. i + 1 \in 1..Len(s) /\ x = s[i + 1] /\ i + 1 # 1 /\ 1 \in 1..Len(s)
    BY <1>1, <1>2, <2>1
  <2>3. x # s[1]
    BY <2>2 DEF Distinct
  <2> QED BY <1>1, <2>2, <2>3 DEF Range
<1>7. ASSUME NEW x \in Range(s) \ {Head(s)}
      PROVE  x \in Range(Tail(s))
  <2>1. PICK i \in 1..Len(s) : x = s[i]
    BY <1>1, <1>7 DEF Range
  <2>2. i # 1
    BY <1>1, <1>7, <2>1
  <2>3. i - 1 \in 1..Len(Tail(s)) /\ Tail(s)[i - 1] = s[(i - 1) + 1] /\ (i - 1) + 1 = i
    BY <1>1, <1>2, <2>2
  <2> QED BY <1>3, <2>1, <2>3 DEF Range
<1> QED BY <1>2, <1>4, <1>5, <1>6, <1>7

\* A job is put at the end of a sequence that does not have it.
LEMMA AppendOnce ==
  ASSUME NEW s \in Seq(Jobs), NEW j \in Jobs
  PROVE  /\ Append(s, j) \in Seq(Jobs)
         /\ Range(Append(s, j)) = Range(s) \cup {j}
         /\ Distinct(s) /\ j \notin Range(s) => Distinct(Append(s, j))
<1>1. /\ Len(s) \in Nat
      /\ DOMAIN s = 1..Len(s)
  BY LenProperties
<1>2. /\ Append(s, j) \in Seq(Jobs)
      /\ Len(Append(s, j)) = Len(s) + 1
      /\ \A i \in 1..Len(s) : Append(s, j)[i] = s[i]
      /\ Append(s, j)[Len(s) + 1] = j
  BY AppendProperties
<1>3. DOMAIN Append(s, j) = 1..(Len(s) + 1)
  BY <1>2, LenProperties
<1>4. 1..(Len(s) + 1) = (1..Len(s)) \cup {Len(s) + 1}
  BY <1>1
<1>5. Range(Append(s, j)) = Range(s) \cup {j}
  BY <1>1, <1>2, <1>3, <1>4 DEF Range
<1>6. ASSUME Distinct(s), j \notin Range(s)
      PROVE  Distinct(Append(s, j))
  <2>1. \A i \in 1..Len(s) : s[i] # j
    BY <1>1, <1>6 DEF Range
  <2> QED BY <1>1, <1>2, <1>4, <1>6, <2>1 DEF Distinct
<1> QED BY <1>2, <1>5, <1>6

\* A sequence with nothing in it.
LEMMA NothingOnce ==
  /\ <<>> \in Seq(Jobs)
  /\ Distinct(<<>>)
  /\ Range(<<>>) = {}
<1>1. <<>> \in Seq(Jobs) /\ Len(<<>>) = 0
  BY EmptySeq
<1>2. DOMAIN <<>> = 1..0
  BY <1>1, LenProperties
<1> QED BY <1>1, <1>2 DEF Distinct, Range

----------------------------------------------------------------------------
\* A stack r that is s up to its top, the frame f, which runs the code that was there.
NewTop(s, r, f) ==
  /\ r \in Seq(Frame)
  /\ Len(r) \in 1..Len(s)
  /\ \A d \in 1..(Len(r) - 1) : r[d] = s[d]
  /\ r[Len(r)] = f
  /\ f.code = s[Len(r)].code
  /\ f.in # "Run" => f.jobsToRun = <<>>

\* Its shape is kept, and only the top has other jobs to run.
LEMMA NewTopShape ==
  ASSUME NEW s \in Seq(Frame), NEW r, NEW f, NewTop(s, r, f), Shaped(s)
  PROVE  Shaped(r) /\ r # <<>>
<1>1. Len(s) \in Nat /\ Len(r) \in Nat /\ Len(r) >= 1 /\ Len(r) <= Len(s)
  BY LenProperties DEF NewTop
<1>2. ASSUME NEW d \in 1..Len(r), d < Len(r)
      PROVE  /\ r[d].in = "Run" /\ d < Len(r)
                  => r[d].jobsToRun # <<>> /\ Head(r[d].jobsToRun) = r[d + 1].code
             /\ r[d].in # "Run" => r[d].jobsToRun = <<>>
             /\ d > 1 => r[d].code \in Jobs
  <2>1. d \in 1..Len(s) /\ d < Len(s) /\ r[d] = s[d]
    BY <1>1, <1>2 DEF NewTop
  <2>2. r[d + 1].code = s[d + 1].code
    <3>1. CASE d + 1 = Len(r) BY <3>1 DEF NewTop
    <3>2. CASE d + 1 # Len(r)
      <4>1. d + 1 \in 1..(Len(r) - 1)
        BY <1>1, <1>2, <3>2
      <4> QED BY <4>1 DEF NewTop
    <3> QED BY <3>1, <3>2
  <2> QED BY <2>1, <2>2 DEF Shaped
<1>3. /\ r[Len(r)].in # "Run" => r[Len(r)].jobsToRun = <<>>
      /\ Len(r) > 1 => r[Len(r)].code \in Jobs
  <2>1. Len(r) \in 1..Len(s)
    BY DEF NewTop
  <2> QED BY <2>1 DEF NewTop, Shaped
<1>4. Shaped(r)
  BY <1>1, <1>2, <1>3 DEF Shaped
<1>5. r # <<>>
  BY <1>1, EmptySeq
<1> QED BY <1>4, <1>5

\* A stack with another top is given what the top is given, and keeps the rest.
LEMMA NewTopGiven ==
  ASSUME NEW s \in Seq(Frame), NEW r, NEW f, NewTop(s, r, f),
         \A d \in 1..Len(s) : d > Len(r) => s[d].jobsToRun = <<>>
  PROVE  /\ RunsOnce(s) /\ Distinct(f.jobsToRun) => RunsOnce(r)
         /\ Given(r, Len(r)) = Range(f.jobsToRun)
         /\ \A d \in Nat : d # Len(r) => Given(r, d) = Given(s, d)
<1>1. Len(s) \in Nat /\ Len(r) \in Nat /\ Len(r) >= 1 /\ Len(r) <= Len(s)
  BY LenProperties DEF NewTop
<1>2. \A d \in 1..Len(r) : d # Len(r) => d \in 1..Len(s) /\ r[d] = s[d]
  BY <1>1 DEF NewTop
<1>3. r[Len(r)] = f
  BY DEF NewTop
<1>4. RunsOnce(s) /\ Distinct(f.jobsToRun) => RunsOnce(r)
  BY <1>2, <1>3 DEF RunsOnce
<1>5. Given(r, Len(r)) = Range(f.jobsToRun)
  BY <1>1, <1>3 DEF Given
<1>6. ASSUME NEW d \in Nat, d # Len(r)
      PROVE  Given(r, d) = Given(s, d)
  <2>1. CASE d \in 1..Len(r)
    BY <1>2, <1>6, <2>1 DEF Given
  <2>2. CASE d \notin 1..Len(r) /\ d \in 1..Len(s)
    <3>1. d > Len(r)
      BY <1>1, <2>2
    <3>2. s[d].jobsToRun = <<>>
      BY <2>2, <3>1
    <3> QED BY <2>2, <3>2, NothingOnce DEF Given
  <2>3. CASE d \notin 1..Len(r) /\ d \notin 1..Len(s)
    BY <2>3 DEF Given
  <2> QED BY <2>1, <2>2, <2>3
<1> QED BY <1>4, <1>5, <1>6

\* The stack a callback is put on is s otherwise.
LEMMA PushShape ==
  ASSUME NEW s \in Seq(Frame), s # <<>>, Shaped(s), NEW j \in Jobs,
         s[Len(s)].in = "Run" =>
           s[Len(s)].jobsToRun # <<>> /\ Head(s[Len(s)].jobsToRun) = j
  PROVE  /\ Append(s, NewFrame(j)) \in Seq(Frame)
         /\ Append(s, NewFrame(j)) # <<>>
         /\ Shaped(Append(s, NewFrame(j)))
         /\ RunsOnce(s) => RunsOnce(Append(s, NewFrame(j)))
         /\ \A d \in Nat : Given(Append(s, NewFrame(j)), d) = Given(s, d)
<1> DEFINE r == Append(s, NewFrame(j))
<1>1. NewFrame(j) \in Frame
  BY NothingOnce DEF NewFrame, Frame
<1>2. /\ r \in Seq(Frame)
      /\ Len(r) = Len(s) + 1
      /\ \A d \in 1..Len(s) : r[d] = s[d]
      /\ r[Len(s) + 1] = NewFrame(j)
  BY <1>1, AppendProperties
<1>3. Len(s) \in Nat /\ Len(s) >= 1
  BY EmptySeq
<1>4. NewFrame(j).in = "code" /\ NewFrame(j).jobsToRun = <<>> /\ NewFrame(j).code = j
  BY DEF NewFrame
<1> HIDE DEF r
<1>5. r # <<>>
  BY <1>2, <1>3, EmptySeq
<1>6. Shaped(r)
  <2>1. ASSUME NEW d \in 1..Len(r)
        PROVE  /\ r[d].in = "Run" /\ d < Len(r)
                    => r[d].jobsToRun # <<>> /\ Head(r[d].jobsToRun) = r[d + 1].code
               /\ r[d].in # "Run" => r[d].jobsToRun = <<>>
               /\ d > 1 => r[d].code \in Jobs
    <3>1. CASE d = Len(s) + 1
      BY <1>2, <1>3, <1>4, <3>1
    <3>2. CASE d = Len(s)
      <4>1. d \in 1..Len(s) /\ r[d] = s[d] /\ r[d + 1].code = j
        BY <1>2, <1>3, <1>4, <3>2
      <4> QED BY <4>1, <3>2 DEF Shaped
    <3>3. CASE d < Len(s)
      <4>1. /\ d \in 1..Len(s) /\ d + 1 \in 1..Len(s)
            /\ r[d] = s[d] /\ r[d + 1] = s[d + 1]
        BY <1>2, <1>3, <3>3
      <4> QED BY <4>1, <3>3 DEF Shaped
    <3> QED BY <1>2, <1>3, <2>1, <3>1, <3>2, <3>3
  <2> QED BY <2>1 DEF Shaped
<1>7. ASSUME RunsOnce(s)
      PROVE  RunsOnce(r)
  <2>1. \A d \in 1..Len(r) : d \in 1..Len(s) \/ d = Len(s) + 1
    BY <1>2, <1>3
  <2>2. r[Len(s) + 1].jobsToRun = <<>>
    BY <1>2, <1>4
  <2> QED BY <1>2, <1>7, <2>1, <2>2, NothingOnce DEF RunsOnce
<1>8. ASSUME NEW d \in Nat
      PROVE  Given(r, d) = Given(s, d)
  <2>1. CASE d \in 1..Len(s)
    <3>1. d \in 1..Len(r) /\ r[d] = s[d]
      BY <1>2, <1>3, <2>1
    <3> QED BY <2>1, <3>1 DEF Given
  <2>2. CASE d = Len(s) + 1
    <3>1. d \in 1..Len(r) /\ d \notin 1..Len(s) /\ r[d].jobsToRun = <<>>
      BY <1>2, <1>3, <1>4, <2>2
    <3> QED BY <3>1, NothingOnce DEF Given
  <2>3. CASE d \notin 1..(Len(s) + 1)
    <3>1. d \notin 1..Len(r) /\ d \notin 1..Len(s)
      BY <1>2, <1>3, <2>3
    <3> QED BY <3>1 DEF Given
  <2> QED BY <1>3, <2>1, <2>2, <2>3
<1> QED BY <1>2, <1>5, <1>6, <1>7, <1>8 DEF r

\* The first frames of a stack.
LEMMA FirstFrames ==
  ASSUME NEW s \in Seq(Frame), NEW k \in Nat, k <= Len(s)
  PROVE  /\ SubSeq(s, 1, k) \in Seq(Frame)
         /\ Len(SubSeq(s, 1, k)) = k
         /\ \A d \in 1..k : SubSeq(s, 1, k)[d] = s[d]
<1>1. \A d \in 1..k : s[d] \in Frame
  <2>1. Len(s) \in Nat
    BY LenProperties
  <2>2. \A d \in 1..k : d \in 1..Len(s)
    BY <2>1
  <2> QED BY <2>2, ElementOfSeq
<1>2. /\ SubSeq(s, 1, k) \in Seq(Frame)
      /\ Len(SubSeq(s, 1, k)) = IF 1 <= k THEN k - 1 + 1 ELSE 0
      /\ \A d \in 1..(k - 1 + 1) : SubSeq(s, 1, k)[d] = s[1 + d - 1]
  BY <1>1, SubSeqProperties
<1>3. k - 1 + 1 = k /\ (~(1 <= k) => k = 0) /\ \A d \in 1..k : 1 + d - 1 = d
  OBVIOUS
<1> QED BY <1>2, <1>3

\* SetTop, the pops of Run and of operator(), and the first half of Call: new tops.
LEMMA TopReplaced ==
  ASSUME NEW s \in Seq(Frame), s # <<>>, NEW f \in Frame, f.code = s[Len(s)].code,
         f.in # "Run" => f.jobsToRun = <<>>
  PROVE  /\ NewTop(s, [s EXCEPT ![Len(s)] = f], f)
         /\ Len([s EXCEPT ![Len(s)] = f]) = Len(s)
<1>1. Len(s) \in Nat /\ Len(s) >= 1 /\ Len(s) \in 1..Len(s)
  BY EmptySeq
<1>2. /\ [s EXCEPT ![Len(s)] = f] \in Seq(Frame)
      /\ Len([s EXCEPT ![Len(s)] = f]) = Len(s)
      /\ \A d \in 1..Len(s) : [s EXCEPT ![Len(s)] = f][d] = IF d = Len(s) THEN f ELSE s[d]
  BY <1>1, ExceptSeq
<1>3. PICK r \in Seq(Frame) :
         /\ r = [s EXCEPT ![Len(s)] = f]
         /\ Len(r) = Len(s)
         /\ \A d \in 1..Len(s) : r[d] = IF d = Len(s) THEN f ELSE s[d]
  BY <1>2
<1>4. Len(r) = Len(s) /\ r[Len(s)] = f
  BY <1>1, <1>3
<1>5. \A d \in 1..(Len(r) - 1) : d \in 1..Len(s) /\ d # Len(s)
  BY <1>1, <1>4
<1>6. NewTop(s, r, f)
  BY <1>1, <1>3, <1>4, <1>5 DEF NewTop
<1> QED BY <1>3, <1>4, <1>6

\* Replacing the top of a stack is a new top.
LEMMA TopRejoined ==
  ASSUME NEW s \in Seq(Frame), s # <<>>, NEW f \in Frame, f.code = s[Len(s)].code,
         f.in # "Run" => f.jobsToRun = <<>>
  PROVE  /\ NewTop(s, SubSeq(s, 1, Len(s) - 1) \o <<f>>, f)
         /\ Len(SubSeq(s, 1, Len(s) - 1) \o <<f>>) = Len(s)
<1> DEFINE b == SubSeq(s, 1, Len(s) - 1)
<1>1. Len(s) \in Nat /\ Len(s) >= 1
  BY EmptySeq
<1>2. /\ b \in Seq(Frame)
      /\ Len(b) = Len(s) - 1
      /\ \A d \in 1..Len(b) : b[d] = s[d]
  <2>1. PICK k \in Nat : k = Len(s) - 1
    BY <1>1
  <2>2. b = SubSeq(s, 1, k) /\ k <= Len(s)
    BY <1>1, <2>1
  <2> HIDE DEF b
  <2>3. b \in Seq(Frame) /\ Len(b) = k /\ \A d \in 1..k : b[d] = s[d]
    BY <2>2, FirstFrames
  <2> QED BY <2>1, <2>3
<1>3. <<f>> \in Seq(Frame) /\ Len(<<f>>) = 1 /\ <<f>>[1] = f
  OBVIOUS
<1> HIDE DEF b
<1>4. /\ b \o <<f>> \in Seq(Frame)
      /\ Len(b \o <<f>>) = Len(s)
      /\ \A d \in 1..Len(s) : (b \o <<f>>)[d] = IF d <= Len(b) THEN b[d] ELSE <<f>>[d - Len(b)]
  BY <1>1, <1>2, <1>3, ConcatProperties
<1>5. (b \o <<f>>)[Len(s)] = f
  BY <1>1, <1>2, <1>3, <1>4
<1>6. \A d \in 1..(Len(s) - 1) : (b \o <<f>>)[d] = s[d]
  BY <1>1, <1>2, <1>4
<1>7. NewTop(s, b \o <<f>>, f)
  BY <1>1, <1>4, <1>5, <1>6 DEF NewTop
<1> QED BY <1>4, <1>7 DEF b

\* Taking off the top and replacing what is below it is a new top.
LEMMA TopPopped ==
  ASSUME NEW s \in Seq(Frame), Len(s) > 1, NEW f \in Frame, f.code = s[Len(s) - 1].code,
         f.in # "Run" => f.jobsToRun = <<>>
  PROVE  /\ NewTop(s, Append(SubSeq(s, 1, Len(s) - 2), f), f)
         /\ Len(Append(SubSeq(s, 1, Len(s) - 2), f)) = Len(s) - 1
<1> DEFINE b == SubSeq(s, 1, Len(s) - 2)
<1>1. Len(s) \in Nat
  BY LenProperties
<1>2. /\ b \in Seq(Frame)
      /\ Len(b) = Len(s) - 2
      /\ \A d \in 1..Len(b) : b[d] = s[d]
  <2>1. PICK k \in Nat : k = Len(s) - 2
    BY <1>1
  <2>2. b = SubSeq(s, 1, k) /\ k <= Len(s)
    BY <1>1, <2>1
  <2> HIDE DEF b
  <2>3. b \in Seq(Frame) /\ Len(b) = k /\ \A d \in 1..k : b[d] = s[d]
    BY <2>2, FirstFrames
  <2> QED BY <2>1, <2>3
<1> HIDE DEF b
<1>3. /\ Append(b, f) \in Seq(Frame)
      /\ Len(Append(b, f)) = Len(b) + 1
      /\ \A d \in 1..Len(b) : Append(b, f)[d] = b[d]
      /\ Append(b, f)[Len(b) + 1] = f
  BY <1>2, AppendProperties
<1>4. NewTop(s, Append(b, f), f)
  BY <1>1, <1>2, <1>3 DEF NewTop
<1>5. Len(Append(b, f)) = Len(s) - 1
  BY <1>1, <1>2, <1>3
<1> QED BY <1>4, <1>5 DEF b

----------------------------------------------------------------------------
\* A step that leaves thread t at depth n or, with a callback on top, at n + 1, and
\* the frame there with q to run.
Turned(t, n, q) ==
  /\ stack' \in [Threads -> Seq(Frame) \ {<<>>}]
  /\ StackInv'
  /\ (\A u \in Threads : RunsOnce(stack[u])) /\ Distinct(q)
       => (\A u \in Threads : RunsOnce(stack[u]))'
  /\ Given(stack[t], n)' = Range(q)
  /\ \A u \in Threads, d \in Nat :
       (u # t \/ d # n) => Given(stack[u], d)' = Given(stack[u], d)

Stacks == stack \in [Threads -> Seq(Frame) \ {<<>>}] /\ StackInv

\* What a new stack of one thread has to be for a step to be a turn of that thread.
LEMMA StackTurned ==
  ASSUME Stacks, NEW t \in Threads, NEW r \in Seq(Frame), NEW n \in Nat, NEW q,
         stack' = [stack EXCEPT ![t] = r],
         r # <<>>, Shaped(r),
         RunsOnce(stack[t]) /\ Distinct(q) => RunsOnce(r),
         Given(r, n) = Range(q),
         \A d \in Nat : d # n => Given(r, d) = Given(stack[t], d)
  PROVE  Turned(t, n, q)
<1>1. stack'[t] = r /\ \A u \in Threads : u # t => stack'[u] = stack[u]
  BY DEF Stacks
<1>2. stack' \in [Threads -> Seq(Frame) \ {<<>>}]
  BY DEF Stacks
<1>3. StackInv'
  <2>1. ASSUME NEW u \in Threads
        PROVE  Shaped(stack[u])'
    <3>1. CASE u = t
      BY <1>1, <3>1 DEF Shaped
    <3>2. CASE u # t
      <4>1. Shaped(stack[u])
        BY DEF Stacks, StackInv
      <4> QED BY <1>1, <3>2, <4>1 DEF Shaped
    <3> QED BY <3>1, <3>2
  <2> QED BY <2>1 DEF StackInv
<1>4. ASSUME \A u \in Threads : RunsOnce(stack[u]), Distinct(q)
      PROVE  (\A u \in Threads : RunsOnce(stack[u]))'
  <2>1. RunsOnce(r)
    BY <1>4
  <2>2. ASSUME NEW u \in Threads
        PROVE  RunsOnce(stack[u])'
    <3>1. CASE u = t
      BY <1>1, <2>1, <3>1 DEF RunsOnce
    <3>2. CASE u # t
      <4>1. RunsOnce(stack[u])
        BY <1>4
      <4> QED BY <1>1, <3>2, <4>1 DEF RunsOnce
    <3> QED BY <3>1, <3>2
  <2> QED BY <2>2
<1>5. Given(stack[t], n)' = Range(q)
  BY <1>1 DEF Given
<1>6. ASSUME NEW u \in Threads, NEW d \in Nat, u # t \/ d # n
      PROVE  Given(stack[u], d)' = Given(stack[u], d)
  <2>1. CASE u = t
    <3>1. Given(r, d) = Given(stack[t], d)
      BY <1>6, <2>1
    <3>2. Given(stack[t], d)' = Given(r, d)
      BY <1>1 DEF Given
    <3> QED BY <2>1, <3>1, <3>2
  <2>2. CASE u # t
    BY <1>1, <2>2 DEF Given
  <2> QED BY <2>1, <2>2
<1> QED BY <1>2, <1>3, <1>4, <1>5, <1>6 DEF Turned

\* The steps that leave the thread with a new top ...
LEMMA TopTurned ==
  ASSUME Stacks, NEW t \in Threads, NEW r, NEW f,
         stack' = [stack EXCEPT ![t] = r],
         NewTop(stack[t], r, f),
         \A d \in 1..Len(stack[t]) : d > Len(r) => stack[t][d].jobsToRun = <<>>
  PROVE  Turned(t, Len(r), f.jobsToRun)
<1>1. stack[t] \in Seq(Frame) /\ Shaped(stack[t])
  BY DEF Stacks, StackInv
<1>2. r \in Seq(Frame) /\ Len(r) \in Nat
  BY LenProperties DEF NewTop
<1>3. Shaped(r) /\ r # <<>>
  BY <1>1, NewTopShape
<1>4. /\ RunsOnce(stack[t]) /\ Distinct(f.jobsToRun) => RunsOnce(r)
      /\ Given(r, Len(r)) = Range(f.jobsToRun)
      /\ \A d \in Nat : d # Len(r) => Given(r, d) = Given(stack[t], d)
  BY <1>1, NewTopGiven
<1> QED BY <1>2, <1>3, <1>4, StackTurned

\* ... and those that call a callback over a new top.
LEMMA CallbackTurned ==
  ASSUME Stacks, NEW t \in Threads, NEW r, NEW f, NEW j \in Jobs,
         NewTop(stack[t], r, f), Len(r) = Len(stack[t]),
         stack' = [stack EXCEPT ![t] = Append(r, NewFrame(j))],
         f.in = "Run" => f.jobsToRun # <<>> /\ Head(f.jobsToRun) = j
  PROVE  Turned(t, Len(r), f.jobsToRun)
<1>1. stack[t] \in Seq(Frame) /\ Shaped(stack[t])
  BY DEF Stacks, StackInv
<1>2. r \in Seq(Frame) /\ Len(r) \in Nat /\ r[Len(r)] = f
  BY LenProperties DEF NewTop
<1>3. Shaped(r) /\ r # <<>>
  BY <1>1, NewTopShape
<1>4. \A d \in 1..Len(stack[t]) : d > Len(r) => stack[t][d].jobsToRun = <<>>
  BY <1>2
<1>5. /\ RunsOnce(stack[t]) /\ Distinct(f.jobsToRun) => RunsOnce(r)
      /\ Given(r, Len(r)) = Range(f.jobsToRun)
      /\ \A d \in Nat : d # Len(r) => Given(r, d) = Given(stack[t], d)
  BY <1>1, <1>4, NewTopGiven
<1>6. /\ Append(r, NewFrame(j)) \in Seq(Frame)
      /\ Append(r, NewFrame(j)) # <<>>
      /\ Shaped(Append(r, NewFrame(j)))
      /\ RunsOnce(r) => RunsOnce(Append(r, NewFrame(j)))
      /\ \A d \in Nat : Given(Append(r, NewFrame(j)), d) = Given(r, d)
  BY <1>2, <1>3, PushShape
<1>7. PICK p \in Seq(Frame) : p = Append(r, NewFrame(j))
  BY <1>6
<1>8. /\ stack' = [stack EXCEPT ![t] = p]
      /\ p # <<>> /\ Shaped(p)
      /\ RunsOnce(stack[t]) /\ Distinct(f.jobsToRun) => RunsOnce(p)
      /\ Given(p, Len(r)) = Range(f.jobsToRun)
      /\ \A d \in Nat : d # Len(r) => Given(p, d) = Given(stack[t], d)
  BY <1>2, <1>5, <1>6, <1>7
<1> QED BY <1>2, <1>8, StackTurned

----------------------------------------------------------------------------
\* What a thread is at.
LEMMA TopFrame ==
  ASSUME Stacks, NEW t \in Threads
  PROVE  /\ stack[t] \in Seq(Frame) /\ stack[t] # <<>>
         /\ Depth(t) \in Nat /\ Depth(t) >= 1
         /\ Top(t) \in Frame
         /\ Top(t).in # "Run" => Top(t).jobsToRun = <<>>
         /\ Depth(t) > 1 => Top(t).code \in Jobs
<1>1. stack[t] \in Seq(Frame) /\ stack[t] # <<>>
  BY DEF Stacks
<1>2. Depth(t) \in Nat /\ Depth(t) >= 1
  BY <1>1, EmptySeq DEF Depth
<1>3. Depth(t) \in 1..Len(stack[t])
  BY <1>2 DEF Depth
<1>4. Top(t) \in Frame
  BY <1>1, <1>3, ElementOfSeq DEF Top
<1>5. Shaped(stack[t])
  BY DEF Stacks, StackInv
<1> QED BY <1>1, <1>2, <1>3, <1>4, <1>5 DEF Shaped, Top

\* Below a callback is the frame that called it.
LEMMA FrameBelow ==
  ASSUME Stacks, NEW t \in Threads, NEW from, Inside(t, from)
  PROVE  /\ Depth(t) > 1
         /\ Below(t) \in Frame
         /\ Below(t).in = from
         /\ Top(t).code \in Jobs
         /\ Top(t).jobsToRun = <<>>
         /\ from = "Run" => /\ Below(t).jobsToRun # <<>>
                            /\ Head(Below(t).jobsToRun) = Top(t).code
         /\ from # "Run" => Below(t).jobsToRun = <<>>
<1>1. Depth(t) > 1 /\ Below(t).in = from /\ Top(t).in = "code"
  BY DEF Inside, Calling
<1>2. stack[t] \in Seq(Frame) /\ Depth(t) \in Nat
  BY TopFrame
<1>3. Depth(t) - 1 \in 1..Len(stack[t]) /\ Depth(t) - 1 < Len(stack[t]) /\ (Depth(t) - 1) + 1 = Depth(t)
  BY <1>1, <1>2 DEF Depth
<1>4. Below(t) \in Frame
  BY <1>2, <1>3, ElementOfSeq DEF Below
<1>5. Shaped(stack[t])
  BY DEF Stacks, StackInv
<1>6. /\ Below(t).in = "Run" => /\ Below(t).jobsToRun # <<>>
                               /\ Head(Below(t).jobsToRun) = Top(t).code
      /\ Below(t).in # "Run" => Below(t).jobsToRun = <<>>
  <2>1. PICK d \in 1..Len(stack[t]) : d = Depth(t) - 1
    BY <1>3
  <2>2. Below(t) = stack[t][d] /\ Top(t) = stack[t][d + 1] /\ d < Len(stack[t])
    BY <1>3, <2>1 DEF Below, Top
  <2> QED BY <1>5, <2>2 DEF Shaped
<1>7. Top(t).code \in Jobs /\ Top(t).jobsToRun = <<>>
  BY <1>1, TopFrame
<1> QED BY <1>1, <1>4, <1>6, <1>7

\* The operation a thread is to begin is one of its code.
LEMMA NextIsOp ==
  ASSUME Stacks, NEW t \in Threads, NEW op, Starts(t, op)
  PROVE  /\ Top(t).in = "code"
         /\ op \in {"add", "call"} => NextOp(t).job \in Jobs
<1>1. Top(t) \in Frame /\ Top(t).in = "code" /\ Top(t).ip < Len(Body[Top(t).code])
  BY TopFrame DEF Starts, HasNext, Calling
<1>2. Body[Top(t).code] \in Seq(Op) /\ Top(t).ip \in Nat
  BY <1>1, JobSystemAssumption DEF Frame
<1>3. Top(t).ip + 1 \in 1..Len(Body[Top(t).code])
  BY <1>1, <1>2, LenProperties
<1>4. NextOp(t) \in Op /\ NextOp(t).op = op
  BY <1>2, <1>3, ElementOfSeq DEF NextOp, Starts
<1>5. ASSUME op \in {"add", "call"}
      PROVE  NextOp(t).job \in Jobs
  BY <1>4, <1>5 DEF Op
<1> QED BY <1>1, <1>5

\* SetTop puts a frame with the same code in the place of the top.
LEMMA SetTopTurned ==
  ASSUME Stacks, NEW t \in Threads, NEW f \in Frame, f.code = Top(t).code,
         f.in # "Run" => f.jobsToRun = <<>>, SetTop(t, f)
  PROVE  Turned(t, Depth(t), f.jobsToRun)
<1>1. stack[t] \in Seq(Frame) /\ stack[t] # <<>>
  BY TopFrame
<1>2. PICK r : r = [stack[t] EXCEPT ![Len(stack[t])] = f]
  OBVIOUS
<1>3. NewTop(stack[t], r, f) /\ Len(r) = Len(stack[t])
  BY <1>1, <1>2, TopReplaced DEF Top, Depth
<1>4. stack' = [stack EXCEPT ![t] = r]
  BY <1>2 DEF SetTop, Depth
<1>5. \A d \in 1..Len(stack[t]) : d > Len(r) => stack[t][d].jobsToRun = <<>>
  <2>1. Len(stack[t]) \in Nat
    BY <1>1, LenProperties
  <2> QED BY <1>3, <2>1
<1> QED BY <1>3, <1>4, <1>5, TopTurned DEF Depth

\* The callback on top of a thread is over.
LEMMA PoppedTurned ==
  ASSUME Stacks, NEW t \in Threads, NEW from, Inside(t, from), NEW f \in Frame,
         f.code = Below(t).code, f.in # "Run" => f.jobsToRun = <<>>,
         stack' = [stack EXCEPT ![t] = Append(SubSeq(@, 1, Depth(t) - 2), f)]
  PROVE  Turned(t, Depth(t) - 1, f.jobsToRun)
<1>1. stack[t] \in Seq(Frame) /\ Len(stack[t]) \in Nat /\ Len(stack[t]) > 1
  BY TopFrame, FrameBelow DEF Depth
<1>2. PICK r : r = Append(SubSeq(stack[t], 1, Len(stack[t]) - 2), f)
  OBVIOUS
<1>3. NewTop(stack[t], r, f) /\ Len(r) = Len(stack[t]) - 1
  BY <1>1, <1>2, TopPopped DEF Below, Depth
<1>4. stack' = [stack EXCEPT ![t] = r]
  BY <1>2 DEF Depth
<1>5. \A d \in 1..Len(stack[t]) : d > Len(r) => stack[t][d].jobsToRun = <<>>
  <2>1. stack[t][Len(stack[t])].jobsToRun = <<>>
    BY FrameBelow DEF Top, Depth
  <2>2. \A d \in 1..Len(stack[t]) : d > Len(r) => d = Len(stack[t])
    BY <1>1, <1>3
  <2> QED BY <2>1, <2>2
<1>6. Turned(t, Len(r), f.jobsToRun)
  BY <1>3, <1>4, <1>5, TopTurned
<1>7. Len(r) = Depth(t) - 1
  BY <1>3 DEF Depth
<1> QED BY <1>6, <1>7

----------------------------------------------------------------------------
\* What each action does to the stack of its thread.
LEMMA PastTop ==
  ASSUME Stacks, NEW t \in Threads
  PROVE  /\ Past(t) \in Frame
         /\ Past(t).code = Top(t).code
         /\ Past(t).in = Top(t).in
         /\ Past(t).jobsToRun = Top(t).jobsToRun
<1>1. Top(t) \in Frame
  BY TopFrame
<1> QED BY <1>1 DEF Past, Frame

\* Each kind of step as a turn: which frame is given which jobs by it.
LEMMA SkipTurned ==
  ASSUME Stacks, NEW t \in Threads, NEW op, Starts(t, op), SetTop(t, Past(t))
  PROVE  Turned(t, Depth(t), <<>>)
<1>1. /\ Past(t) \in Frame /\ Past(t).code = Top(t).code
      /\ Past(t).jobsToRun = <<>>
  BY PastTop, TopFrame, NextIsOp
<1> QED BY <1>1, SetTopTurned

\* Run gives its frame the whole list.
LEMMA RunTurned ==
  ASSUME Stacks, jobs \in Seq(Jobs), NEW t \in Threads, Run(t)
  PROVE  Turned(t, Depth(t), jobs)
<1>1. PICK f : f = [(IF AtEnd(t) THEN Top(t) ELSE Past(t)) EXCEPT
                       !.in = "Run", !.jobsToRun = jobs]
  OBVIOUS
<1>2. /\ f \in Frame /\ f.code = Top(t).code
      /\ f.in = "Run" /\ f.jobsToRun = jobs
  <2>1. Top(t) \in Frame /\ Past(t) \in Frame /\ Past(t).code = Top(t).code
    BY PastTop, TopFrame
  <2> QED BY <1>1, <2>1 DEF Frame
<1>3. SetTop(t, f)
  BY <1>1 DEF Run
<1> QED BY <1>2, <1>3, SetTopTurned

\* Run returns with nothing left.
LEMMA RunReturnsTurned ==
  ASSUME Stacks, NEW t \in Threads, RunReturns(t)
  PROVE  Turned(t, Depth(t), <<>>)
<1>1. Top(t) \in Frame /\ Top(t).jobsToRun = <<>>
  BY TopFrame DEF RunReturns
<1>2. PICK f : f = [Top(t) EXCEPT !.in = "code"]
  OBVIOUS
<1>3. f \in Frame /\ f.code = Top(t).code /\ f.jobsToRun = <<>>
  BY <1>1, <1>2 DEF Frame
<1>4. SetTop(t, f)
  BY <1>2 DEF RunReturns
<1> QED BY <1>3, <1>4, SetTopTurned

\* A job that is too early is taken off what Run has left.
LEMMA TooEarlyTurned ==
  ASSUME Stacks, NEW t \in Threads, TooEarly(t)
  PROVE  Turned(t, Depth(t), Tail(Top(t).jobsToRun))
<1>1. /\ Top(t) \in Frame /\ Top(t).in = "Run" /\ Top(t).jobsToRun # <<>>
      /\ Top(t).jobsToRun \in Seq(Jobs)
  BY TopFrame DEF TooEarly, Running, Frame
<1>2. Tail(Top(t).jobsToRun) \in Seq(Jobs)
  BY <1>1, HeadTailProperties
<1>3. PICK f : f = [Top(t) EXCEPT !.jobsToRun = Tail(@)]
  OBVIOUS
<1>4. /\ f \in Frame /\ f.code = Top(t).code /\ f.in = "Run"
      /\ f.jobsToRun = Tail(Top(t).jobsToRun)
  BY <1>1, <1>2, <1>3 DEF Frame
<1>5. SetTop(t, f)
  BY <1>3 DEF TooEarly
<1>6. Turned(t, Depth(t), f.jobsToRun)
  BY <1>4, <1>5, SetTopTurned
<1> QED BY <1>4, <1>6

\* A job that is executed stays at the head of what Run has left.
LEMMA ExecuteTurned ==
  ASSUME Stacks, NEW t \in Threads, Execute(t)
  PROVE  Turned(t, Depth(t), Top(t).jobsToRun)
<1>1. /\ Top(t) \in Frame /\ Top(t).in = "Run" /\ Top(t).jobsToRun # <<>>
      /\ Top(t).jobsToRun \in Seq(Jobs)
  BY TopFrame DEF Execute, Running, Frame
<1>2. PICK j \in Jobs : j = Head(Top(t).jobsToRun)
  BY <1>1, HeadTailProperties
<1>3. stack[t] \in Seq(Frame) /\ stack[t] # <<>>
  BY TopFrame
<1>4. NewTop(stack[t], stack[t], Top(t))
  <2>1. Len(stack[t]) \in Nat /\ Len(stack[t]) >= 1
    BY <1>3, EmptySeq
  <2> QED BY <1>1, <1>3, <2>1 DEF NewTop, Top, Depth
<1>5. stack' = [stack EXCEPT ![t] = Append(stack[t], NewFrame(j))]
  BY <1>2 DEF Execute
<1> QED BY <1>1, <1>2, <1>4, <1>5, CallbackTurned DEF Depth

\* A job called by the program is in no frame's list.
LEMMA CallTurned ==
  ASSUME Stacks, NEW t \in Threads, Call(t)
  PROVE  Turned(t, Depth(t), <<>>)
<1>1. Top(t) \in Frame /\ Top(t).in = "code" /\ Top(t).jobsToRun = <<>>
  BY TopFrame, NextIsOp DEF Call
<1>2. PICK j \in Jobs : j = NextOp(t).job
  BY NextIsOp DEF Call
<1>3. PICK f : f = [Past(t) EXCEPT !.in = "operator()"]
  OBVIOUS
<1>4. f \in Frame /\ f.code = Top(t).code /\ f.in = "operator()" /\ f.jobsToRun = <<>>
  <2>1. Past(t) \in Frame /\ Past(t).code = Top(t).code /\ Past(t).jobsToRun = <<>>
    BY <1>1, PastTop
  <2> QED BY <1>3, <2>1 DEF Frame
<1>5. stack[t] \in Seq(Frame) /\ stack[t] # <<>>
  BY TopFrame
<1>6. PICK r : r = SubSeq(stack[t], 1, Len(stack[t]) - 1) \o <<f>>
  OBVIOUS
<1>7. NewTop(stack[t], r, f) /\ Len(r) = Len(stack[t])
  BY <1>4, <1>5, <1>6, TopRejoined DEF Top, Depth
<1>8. stack' = [stack EXCEPT ![t] = Append(r, NewFrame(j))]
  BY <1>2, <1>3, <1>6 DEF Call, Depth
<1>9. Turned(t, Len(r), f.jobsToRun)
  BY <1>4, <1>7, <1>8, CallbackTurned
<1> QED BY <1>4, <1>7, <1>9 DEF Depth

\* A job that has returned is taken off what Run has left.
LEMMA PopTurned ==
  ASSUME Stacks, NEW t \in Threads, Inside(t, "Run"), Pop(t)
  PROVE  Turned(t, Depth(t) - 1, Tail(Below(t).jobsToRun))
<1>1. /\ Below(t) \in Frame /\ Below(t).in = "Run"
      /\ Below(t).jobsToRun # <<>> /\ Below(t).jobsToRun \in Seq(Jobs)
  BY FrameBelow DEF Frame
<1>2. Tail(Below(t).jobsToRun) \in Seq(Jobs)
  BY <1>1, HeadTailProperties
<1>3. PICK f : f = [Below(t) EXCEPT !.jobsToRun = Tail(@)]
  OBVIOUS
<1>4. /\ f \in Frame /\ f.code = Below(t).code /\ f.in = "Run"
      /\ f.jobsToRun = Tail(Below(t).jobsToRun)
  BY <1>1, <1>2, <1>3 DEF Frame
<1>5. stack' = [stack EXCEPT ![t] = Append(SubSeq(@, 1, Depth(t) - 2), f)]
  BY <1>3 DEF Pop
<1>6. Turned(t, Depth(t) - 1, f.jobsToRun)
  BY <1>4, <1>5, PoppedTurned
<1> QED BY <1>4, <1>6

\* A job that throws takes Run with it, and what Run had left.
LEMMA ThrowsTurned ==
  ASSUME Stacks, NEW t \in Threads, Throws(t)
  PROVE  Turned(t, Depth(t) - 1, <<>>)
<1>1. Inside(t, "Run") /\ Below(t) \in Frame
  BY FrameBelow DEF Throws, Called, Thrown
<1>2. PICK f : f = [Below(t) EXCEPT !.in = "code", !.jobsToRun = <<>>]
  OBVIOUS
<1>3. f \in Frame /\ f.code = Below(t).code /\ f.jobsToRun = <<>>
  BY <1>1, <1>2, NothingOnce DEF Frame
<1>4. stack' = [stack EXCEPT ![t] = Append(SubSeq(@, 1, Depth(t) - 2), f)]
  BY <1>2 DEF Throws, Called, Thrown
<1>5. Turned(t, Depth(t) - 1, f.jobsToRun)
  BY <1>1, <1>3, <1>4, PoppedTurned
<1> QED BY <1>3, <1>5

\* A job that was called by the program returns to it.
LEMMA ReturnTurned ==
  ASSUME Stacks, NEW t \in Threads, Inside(t, "operator()"), Return(t)
  PROVE  Turned(t, Depth(t) - 1, <<>>)
<1>1. Below(t) \in Frame /\ Below(t).jobsToRun = <<>>
  BY FrameBelow
<1>2. PICK f : f = [Below(t) EXCEPT !.in = "code"]
  OBVIOUS
<1>3. f \in Frame /\ f.code = Below(t).code /\ f.jobsToRun = <<>>
  BY <1>1, <1>2 DEF Frame
<1>4. stack' = [stack EXCEPT ![t] = Append(SubSeq(@, 1, Depth(t) - 2), f)]
  BY <1>2 DEF Return
<1>5. Turned(t, Depth(t) - 1, f.jobsToRun)
  BY <1>3, <1>4, PoppedTurned
<1> QED BY <1>3, <1>5

----------------------------------------------------------------------------
\* TypeOK, with the shape of the stacks, holds of every state.
TypeInv == TypeOK /\ StackInv

\* At the start every thread has one frame, the program's own.
LEMMA InitTypes == Init => TypeInv
<1> SUFFICES ASSUME Init PROVE TypeInv
  OBVIOUS
<1>1. \A t \in Threads : NewFrame(t) \in Frame
  BY NothingOnce DEF NewFrame, Frame
<1>2. ASSUME NEW t \in Threads
      PROVE  /\ stack[t] = <<NewFrame(t)>>
             /\ stack[t] \in Seq(Frame) \ {<<>>}
             /\ Shaped(stack[t])
  <2>1. stack[t] = <<NewFrame(t)>>
    BY DEF Init
  <2>2. /\ <<NewFrame(t)>> \in Seq(Frame) /\ Len(<<NewFrame(t)>>) = 1
        /\ <<NewFrame(t)>>[1] = NewFrame(t)
    BY <1>1
  <2>3. <<NewFrame(t)>> # <<>>
    BY <2>2, EmptySeq
  <2>4. NewFrame(t).in = "code" /\ NewFrame(t).jobsToRun = <<>>
    BY DEF NewFrame
  <2> QED BY <2>1, <2>2, <2>3, <2>4 DEF Shaped
<1>3. stack \in [Threads -> Seq(Frame) \ {<<>>}]
  BY <1>2 DEF Init
<1>4. StackInv
  BY <1>2 DEF StackInv
<1>5. jobs \in Seq(Jobs) /\ rounds \in [Jobs -> Nat]
  BY NothingOnce, JobSystemAssumption DEF Init
<1>6. memory \in [Jobs -> {"none", "allocated", "deleted", "leaked"}] /\ due \in SUBSET Jobs
  BY DEF Init
<1> QED BY <1>3, <1>4, <1>5, <1>6 DEF TypeInv, TypeOK

\* Each action turns the stack of its thread, and leaves the types of the rest.
LEMMA StepTypes ==
  ASSUME TypeInv, NEW t \in Threads, Step(t)
  PROVE  /\ \E n \in Nat, q \in Seq(Jobs) : Turned(t, n, q)
         /\ jobs' \in Seq(Jobs)
         /\ memory' \in [Jobs -> {"none", "allocated", "deleted", "leaked"}]
         /\ due' \in SUBSET Jobs
         /\ rounds' \in [Jobs -> Nat]
<1>1. Stacks
  BY DEF TypeInv, TypeOK, Stacks
<1>2. /\ jobs \in Seq(Jobs)
      /\ memory \in [Jobs -> {"none", "allocated", "deleted", "leaked"}]
      /\ due \in SUBSET Jobs
      /\ rounds \in [Jobs -> Nat]
  BY DEF TypeInv, TypeOK
<1>3. Depth(t) \in Nat /\ Depth(t) >= 1 /\ Top(t) \in Frame
  BY <1>1, TopFrame
<1>4. Top(t).jobsToRun \in Seq(Jobs)
  BY <1>3 DEF Frame
<1>5. CASE Add(t)
  <2>1. NextOp(t).job \in Jobs
    BY <1>1, <1>5, NextIsOp DEF Add
  <2>2. jobs' \in Seq(Jobs)
    BY <1>2, <1>5, <2>1, AppendOnce DEF Add
  <2>3. Turned(t, Depth(t), <<>>)
    BY <1>1, <1>5, SkipTurned DEF Add
  <2> QED BY <1>2, <1>3, <1>5, <2>2, <2>3, NothingOnce DEF Add
<1>6. CASE Run(t)
  <2>1. Turned(t, Depth(t), jobs)
    BY <1>1, <1>2, <1>6, RunTurned
  <2> QED BY <1>2, <1>3, <1>6, <2>1, NothingOnce DEF Run
<1>7. CASE RunReturns(t)
  BY <1>1, <1>2, <1>3, <1>7, RunReturnsTurned, NothingOnce DEF RunReturns
<1>8. CASE TooEarly(t)
  <2>1. Turned(t, Depth(t), Tail(Top(t).jobsToRun))
    BY <1>1, <1>8, TooEarlyTurned
  <2>2. Tail(Top(t).jobsToRun) \in Seq(Jobs) /\ Head(Top(t).jobsToRun) \in Jobs
    BY <1>4, <1>8, HeadTailProperties DEF TooEarly
  <2>3. jobs' \in Seq(Jobs)
    BY <1>2, <1>8, <2>2, AppendOnce DEF TooEarly
  <2> QED BY <1>2, <1>3, <1>8, <2>1, <2>2, <2>3 DEF TooEarly
<1>9. CASE Execute(t)
  BY <1>1, <1>2, <1>3, <1>4, <1>9, ExecuteTurned DEF Execute
<1>10. ASSUME Inside(t, "Run"), Pop(t)
       PROVE  \E n \in Nat, q \in Seq(Jobs) : Turned(t, n, q)
  <2>1. Turned(t, Depth(t) - 1, Tail(Below(t).jobsToRun))
    BY <1>1, <1>10, PopTurned
  <2>2. Below(t).jobsToRun \in Seq(Jobs) /\ Below(t).jobsToRun # <<>>
    BY <1>1, <1>10, FrameBelow DEF Frame
  <2>3. Tail(Below(t).jobsToRun) \in Seq(Jobs)
    BY <2>2, HeadTailProperties
  <2>4. Depth(t) - 1 \in Nat
    BY <1>3
  <2> QED BY <2>1, <2>3, <2>4
<1>11. CASE Remove(t)
  BY <1>2, <1>10, <1>11 DEF Remove, Called, Thrown
<1>12. CASE Again(t)
  <2>1. Top(t).code \in Jobs
    BY <1>1, <1>12, FrameBelow DEF Again, Called, Thrown
  <2>2. jobs' \in Seq(Jobs)
    BY <1>2, <1>12, <2>1, AppendOnce DEF Again, Called, Thrown
  <2> QED BY <1>2, <1>10, <1>12, <2>1, <2>2 DEF Again, Called, Thrown
<1>13. CASE Throws(t)
  <2>1. Turned(t, Depth(t) - 1, <<>>)
    BY <1>1, <1>13, ThrowsTurned
  <2>2. Depth(t) - 1 \in Nat
    BY <1>3
  <2>3. \E n \in Nat, q \in Seq(Jobs) : Turned(t, n, q)
    BY <2>1, <2>2, NothingOnce
  <2> QED BY <1>2, <1>13, <2>3 DEF Throws, Called, Thrown
<1>14. CASE Reset(t)
  <2>1. Turned(t, Depth(t), <<>>)
    BY <1>1, <1>14, SkipTurned DEF Reset
  <2> QED BY <1>2, <1>3, <1>14, <2>1, NothingOnce DEF Reset
<1>15. CASE Call(t)
  BY <1>1, <1>2, <1>3, <1>15, CallTurned, NothingOnce DEF Call
<1>16. CASE CallTooEarly(t)
  BY <1>1, <1>2, <1>3, <1>16, SkipTurned, NothingOnce DEF CallTooEarly
<1>17. ASSUME Inside(t, "operator()"), Return(t)
       PROVE  \E n \in Nat, q \in Seq(Jobs) : Turned(t, n, q)
  <2>1. Turned(t, Depth(t) - 1, <<>>)
    BY <1>1, <1>17, ReturnTurned
  <2>2. Depth(t) - 1 \in Nat
    BY <1>3
  <2> QED BY <2>1, <2>2, NothingOnce
<1>18. CASE CallDone(t)
  <2>1. Top(t).code \in Jobs
    BY <1>1, <1>18, FrameBelow DEF CallDone, Called, Thrown
  <2>2. CASE Then[Top(t).code] = NoJob
    BY <1>2, <1>17, <1>18, <2>2 DEF CallDone, Called, Thrown
  <2>3. CASE Then[Top(t).code] # NoJob
    <3>1. Then[Top(t).code] \in Jobs
      BY <2>1, <2>3, JobSystemAssumption
    <3>2. jobs' = Append(jobs, Then[Top(t).code])
      BY <1>18, <2>3 DEF CallDone, Called, Thrown
    <3>3. jobs' \in Seq(Jobs)
      BY <1>2, <3>1, <3>2, AppendOnce
    <3> QED BY <1>2, <1>17, <1>18, <2>3, <3>1, <3>3 DEF CallDone, Called, Thrown
  <2> QED BY <2>2, <2>3
<1>19. CASE CallNotDone(t)
  <2>1. Top(t).code \in Jobs
    BY <1>1, <1>19, FrameBelow DEF CallNotDone, Called, Thrown
  <2>2. rounds' \in [Jobs -> Nat]
    BY <1>2, <1>19, <2>1 DEF CallNotDone, Called, Thrown
  <2> QED BY <1>2, <1>17, <1>19, <2>2 DEF CallNotDone, Called, Thrown
<1> QED BY <1>5, <1>6, <1>7, <1>8, <1>9, <1>11, <1>12, <1>13, <1>14, <1>15, <1>16,
           <1>18, <1>19 DEF Step

\* Every step keeps the types and the shape of the stacks.
LEMMA NextTypes == TypeInv /\ [Next]_vars => TypeInv'
<1> SUFFICES ASSUME TypeInv, [Next]_vars PROVE TypeInv'
  OBVIOUS
<1>1. ASSUME NEW t \in Threads, Step(t)
      PROVE  TypeInv'
  <2>1. stack' \in [Threads -> Seq(Frame) \ {<<>>}] /\ StackInv'
    BY <1>1, StepTypes DEF Turned
  <2> QED BY <1>1, <2>1, StepTypes DEF TypeInv, TypeOK
<1>2. ASSUME UNCHANGED stack
      PROVE  StackInv'
  BY <1>2 DEF TypeInv, StackInv, Shaped
<1>3. ASSUME NEW j \in Jobs, TimePasses(j)
      PROVE  TypeInv'
  BY <1>2, <1>3 DEF TimePasses, TypeInv, TypeOK
<1>4. CASE UNCHANGED vars
  BY <1>2, <1>4 DEF vars, TypeInv, TypeOK
<1> QED BY <1>1, <1>3, <1>4 DEF Next

\* For any threads, jobs and programs, every variable keeps its type: Run never
\* takes the first of no jobs, and no exception or return leaves a stack empty.
THEOREM TypeCorrect == Spec => []TypeOK
<1>1. Init => TypeInv
  BY InitTypes
<1>2. TypeInv /\ [Next]_vars => TypeInv'
  BY NextTypes
<1>3. TypeInv => TypeOK
  BY DEF TypeInv
<1> QED BY <1>1, <1>2, <1>3, PTL DEF Spec

----------------------------------------------------------------------------
\* A sequence of jobs has only jobs.
LEMMA RangeJobs ==
  ASSUME NEW s \in Seq(Jobs)
  PROVE  Range(s) \subseteq Jobs
<1>1. DOMAIN s = 1..Len(s)
  BY LenProperties
<1> QED BY <1>1, ElementOfSeq DEF Range

\* The pointers move between the list and one frame: those of the new list and of the
\* new frame were in one of the two, or are of jobs not allocated before, and the
\* jobs they are no longer to are no longer allocated.
LEMMA OwnersMoved ==
  ASSUME OwnerInv, NEW t \in Threads, NEW n \in Nat, NEW q \in Seq(Jobs),
         NEW l \in Seq(Jobs), Turned(t, n, q), jobs' = l,
         Distinct(q), Distinct(l), Range(q) \cap Range(l) = {},
         \A j \in Range(q) \cup Range(l) :
           \/ j \in Given(stack[t], n)
           \/ j \in Range(jobs)
           \/ memory[j] # "allocated",
         \A j \in Jobs :
           memory'[j] = "allocated" <=>
             \/ j \in Range(q) \cup Range(l)
             \/ /\ memory[j] = "allocated"
                /\ j \notin Given(stack[t], n)
                /\ j \notin Range(jobs)
  PROVE  OwnerInv'
<1>1. NoneTwice /\ Apart /\ Owned
  BY DEF OwnerInv
<1>2. Range(q) \subseteq Jobs /\ Range(l) \subseteq Jobs
  BY RangeJobs
<1>3. /\ Given(stack[t], n)' = Range(q)
      /\ \A u \in Threads, d \in Nat :
           (u # t \/ d # n) => Given(stack[u], d)' = Given(stack[u], d)
  BY DEF Turned
<1>4. NoneTwice'
  <2>1. (\A u \in Threads : RunsOnce(stack[u]))'
    BY <1>1 DEF NoneTwice, Turned
  <2>2. Distinct(jobs)'
    OBVIOUS
  <2> QED BY <2>1, <2>2 DEF NoneTwice
<1>5. Range(jobs)' = Range(l)
  OBVIOUS
<1>6. ASSUME NEW u \in Threads, NEW d \in Nat, u # t \/ d # n,
             NEW j \in Given(stack[u], d)
      PROVE  j \notin Range(q) \cup Range(l)
  <2>1. SUFFICES ASSUME j \in Range(q) \cup Range(l) PROVE FALSE
    OBVIOUS
  <2>2. j \in Jobs
    BY <1>2, <2>1
  <2>3. memory[j] = "allocated"
    BY <1>1, <1>6, <2>2 DEF Owned
  <2>4. j \notin Range(jobs) /\ j \notin Given(stack[t], n)
    BY <1>1, <1>6 DEF Apart
  <2> QED BY <2>1, <2>3, <2>4
<1>7. Apart'
  <2>1. ASSUME NEW u \in Threads, NEW d \in Nat
        PROVE  (Given(stack[u], d) \cap Range(jobs))' = {}
    <3>1. CASE u = t /\ d = n
      BY <1>3, <1>5, <3>1
    <3>2. CASE u # t \/ d # n
      BY <1>3, <1>5, <1>6, <3>2
    <3> QED BY <3>1, <3>2
  <2>2. ASSUME NEW u \in Threads, NEW v \in Threads, NEW d \in Nat, NEW e \in Nat,
               u # v \/ d # e
        PROVE  (Given(stack[u], d) \cap Given(stack[v], e))' = {}
    <3>1. CASE u = t /\ d = n
      BY <1>3, <1>6, <2>2, <3>1
    <3>2. CASE v = t /\ e = n
      BY <1>3, <1>6, <2>2, <3>2
    <3>3. CASE (u # t \/ d # n) /\ (v # t \/ e # n)
      <4>1. Given(stack[u], d) \cap Given(stack[v], e) = {}
        BY <1>1, <2>2 DEF Apart
      <4> QED BY <1>3, <3>3, <4>1
    <3> QED BY <3>1, <3>2, <3>3
  <2> QED BY <2>1, <2>2 DEF Apart
<1>8. ASSUME NEW j \in Jobs, memory'[j] = "allocated"
      PROVE  j \in Range(jobs)' \/ \E u \in Threads, d \in Nat : j \in Given(stack[u], d)'
  <2>1. CASE j \in Range(q) \cup Range(l)
    BY <1>3, <1>5, <2>1
  <2>2. CASE j \notin Range(q) \cup Range(l)
    <3>1. memory[j] = "allocated" /\ j \notin Given(stack[t], n) /\ j \notin Range(jobs)
      BY <1>8, <2>2
    <3>2. PICK u \in Threads, d \in Nat : j \in Given(stack[u], d)
      BY <1>1, <3>1 DEF Owned
    <3>3. u # t \/ d # n
      BY <3>1, <3>2
    <3>4. Given(stack[u], d)' = Given(stack[u], d)
      BY <1>3, <3>3
    <3> QED BY <3>2, <3>4
  <2> QED BY <2>1, <2>2
<1>9. ASSUME NEW j \in Jobs,
             j \in Range(jobs)' \/ \E u \in Threads, d \in Nat : j \in Given(stack[u], d)'
      PROVE  memory'[j] = "allocated"
  <2>1. CASE j \in Range(jobs)'
    BY <1>5, <2>1
  <2>2. ASSUME NEW u \in Threads, NEW d \in Nat, j \in Given(stack[u], d)'
        PROVE  memory'[j] = "allocated"
    <3>1. CASE u = t /\ d = n
      BY <1>3, <2>2, <3>1
    <3>2. CASE u # t \/ d # n
      <4>1. j \in Given(stack[u], d)
        BY <1>3, <2>2, <3>2
      <4>2. memory[j] = "allocated"
        BY <1>1, <4>1 DEF Owned
      <4>3. j \notin Range(jobs) /\ j \notin Given(stack[t], n)
        BY <1>1, <3>2, <4>1 DEF Apart
      <4> QED BY <4>2, <4>3
    <3> QED BY <3>1, <3>2
  <2> QED BY <1>9, <2>1, <2>2
<1>10. Owned'
  BY <1>8, <1>9 DEF Owned
<1> QED BY <1>4, <1>7, <1>10 DEF OwnerInv

\* What the frames of a thread have to run.
LEMMA TopGiven ==
  ASSUME Stacks, OwnerInv, NEW t \in Threads
  PROVE  /\ Top(t).jobsToRun \in Seq(Jobs)
         /\ Distinct(Top(t).jobsToRun)
         /\ Given(stack[t], Depth(t)) = Range(Top(t).jobsToRun)
         /\ Range(Top(t).jobsToRun) \cap Range(jobs) = {}
         /\ \A j \in Range(Top(t).jobsToRun) : j \in Jobs /\ memory[j] = "allocated"
<1>1. /\ Depth(t) \in Nat /\ Depth(t) \in 1..Len(stack[t])
      /\ Top(t).jobsToRun \in Seq(Jobs)
  BY TopFrame DEF Depth, Frame
<1>2. Distinct(Top(t).jobsToRun)
  BY <1>1 DEF OwnerInv, NoneTwice, RunsOnce, Top
<1>3. Given(stack[t], Depth(t)) = Range(Top(t).jobsToRun)
  BY <1>1 DEF Given, Top
<1>4. Range(Top(t).jobsToRun) \cap Range(jobs) = {}
  BY <1>1, <1>3 DEF OwnerInv, Apart
<1>5. \A j \in Range(Top(t).jobsToRun) : j \in Jobs /\ memory[j] = "allocated"
  BY <1>1, <1>3, RangeJobs DEF OwnerInv, Owned
<1> QED BY <1>1, <1>2, <1>3, <1>4, <1>5

\* What the Run below a callback has left is in the list of that frame, once each.
LEMMA BelowGiven ==
  ASSUME Stacks, OwnerInv, NEW t \in Threads, Inside(t, "Run") \/ Inside(t, "operator()")
  PROVE  /\ Depth(t) - 1 \in Nat
         /\ Below(t).jobsToRun \in Seq(Jobs)
         /\ Distinct(Below(t).jobsToRun)
         /\ Given(stack[t], Depth(t) - 1) = Range(Below(t).jobsToRun)
         /\ Range(Below(t).jobsToRun) \cap Range(jobs) = {}
         /\ \A j \in Range(Below(t).jobsToRun) : j \in Jobs /\ memory[j] = "allocated"
<1>1. Depth(t) > 1 /\ Depth(t) \in Nat /\ Below(t) \in Frame
  BY TopFrame, FrameBelow
<1>2. PICK d \in Nat : d = Depth(t) - 1
  BY <1>1
<1>3. d \in 1..Len(stack[t]) /\ Below(t) = stack[t][d] /\ Below(t).jobsToRun \in Seq(Jobs)
  BY <1>1, <1>2 DEF Depth, Below, Frame
<1>4. Distinct(Below(t).jobsToRun)
  BY <1>3 DEF OwnerInv, NoneTwice, RunsOnce
<1>5. Given(stack[t], d) = Range(Below(t).jobsToRun)
  BY <1>3 DEF Given
<1>6. Range(Below(t).jobsToRun) \cap Range(jobs) = {}
  BY <1>5 DEF OwnerInv, Apart
<1>7. \A j \in Range(Below(t).jobsToRun) : j \in Jobs /\ memory[j] = "allocated"
  BY <1>3, <1>5, RangeJobs DEF OwnerInv, Owned
<1> QED BY <1>2, <1>3, <1>4, <1>5, <1>6, <1>7

\* What is in the list is allocated and in it once.
LEMMA ListGiven ==
  ASSUME OwnerInv, jobs \in Seq(Jobs)
  PROVE  /\ Distinct(jobs)
         /\ \A j \in Range(jobs) : j \in Jobs /\ memory[j] = "allocated"
BY RangeJobs DEF OwnerInv, NoneTwice, Owned

\* The list alone changes, and the frame has nothing to run.
LEMMA ListMoved ==
  ASSUME OwnerInv, NEW t \in Threads, NEW n \in Nat, Turned(t, n, <<>>),
         Given(stack[t], n) = {},
         NEW l \in Seq(Jobs), jobs' = l, Distinct(l),
         \A j \in Range(l) : j \in Range(jobs) \/ memory[j] # "allocated",
         \A j \in Jobs :
           memory'[j] = "allocated" <=>
             j \in Range(l) \/ (memory[j] = "allocated" /\ j \notin Range(jobs))
  PROVE  OwnerInv'
<1>1. PICK q \in Seq(Jobs) : q = <<>>
  BY NothingOnce
<1>2. Distinct(q) /\ Range(q) = {} /\ Turned(t, n, q)
  BY <1>1, NothingOnce
<1>3. \A j \in Range(q) \cup Range(l) :
        \/ j \in Given(stack[t], n)
        \/ j \in Range(jobs)
        \/ memory[j] # "allocated"
  BY <1>2
<1>4. \A j \in Jobs :
        memory'[j] = "allocated" <=>
          \/ j \in Range(q) \cup Range(l)
          \/ /\ memory[j] = "allocated"
             /\ j \notin Given(stack[t], n)
             /\ j \notin Range(jobs)
  BY <1>2
<1> QED BY <1>2, <1>3, <1>4, OwnersMoved

\* A step that moves no pointer.
LEMMA OwnersStay ==
  ASSUME OwnerInv, jobs \in Seq(Jobs), NEW t \in Threads, NEW n \in Nat,
         NEW q \in Seq(Jobs), Turned(t, n, q), Distinct(q), Range(q) = Given(stack[t], n),
         Range(q) \cap Range(jobs) = {}, UNCHANGED <<jobs, memory>>
  PROVE  OwnerInv'
<1>1. Distinct(jobs) /\ \A j \in Range(jobs) : j \in Jobs /\ memory[j] = "allocated"
  BY ListGiven
<1>2. \A j \in Jobs : j \in Given(stack[t], n) => memory[j] = "allocated"
  BY DEF OwnerInv, Owned
<1> QED BY <1>1, <1>2, OwnersMoved

----------------------------------------------------------------------------
\* Each action keeps the pointers apart.
LEMMA AddOwners ==
  ASSUME TypeInv, OwnerInv, NEW t \in Threads, Add(t)
  PROVE  OwnerInv'
<1>1. /\ Stacks /\ jobs \in Seq(Jobs)
      /\ memory \in [Jobs -> {"none", "allocated", "deleted", "leaked"}]
  BY DEF TypeInv, TypeOK, Stacks
<1>2. PICK j \in Jobs : j = NextOp(t).job
  BY <1>1, NextIsOp DEF Add
<1>3. /\ jobs' = Append(jobs, j) /\ memory[j] = "none"
      /\ memory' = [memory EXCEPT ![j] = "allocated"]
  BY <1>2 DEF Add
<1>4. Turned(t, Depth(t), <<>>) /\ Top(t).jobsToRun = <<>>
  BY <1>1, SkipTurned, TopFrame, NextIsOp DEF Add
<1>5. PICK n \in Nat : n = Depth(t) /\ Given(stack[t], n) = {}
  BY <1>1, <1>4, TopFrame, TopGiven, NothingOnce
<1>6. /\ Distinct(jobs) /\ j \notin Range(jobs)
      /\ \A k \in Range(jobs) : k \in Jobs /\ memory[k] = "allocated"
  BY <1>1, <1>3, ListGiven
<1>7. PICK l \in Seq(Jobs) : l = Append(jobs, j)
  BY <1>1, AppendOnce
<1>8. Distinct(l) /\ Range(l) = Range(jobs) \cup {j}
  BY <1>1, <1>6, <1>7, AppendOnce
<1>9. \A k \in Jobs : memory'[k] = "allocated" <=> k = j \/ memory[k] = "allocated"
  BY <1>1, <1>3
<1>10. \A k \in Range(l) : k \in Range(jobs) \/ memory[k] # "allocated"
  BY <1>3, <1>8
<1>11. \A k \in Jobs :
         memory'[k] = "allocated" <=>
           k \in Range(l) \/ (memory[k] = "allocated" /\ k \notin Range(jobs))
  BY <1>6, <1>8, <1>9
<1>12. Turned(t, n, <<>>) /\ jobs' = l
  BY <1>3, <1>4, <1>5, <1>7
<1> QED BY <1>5, <1>8, <1>10, <1>11, <1>12, ListMoved

\* Run takes the whole list, which nobody else has any of.
LEMMA RunOwners ==
  ASSUME TypeInv, OwnerInv, NEW t \in Threads, Run(t)
  PROVE  OwnerInv'
<1>1. Stacks /\ jobs \in Seq(Jobs)
  BY DEF TypeInv, TypeOK, Stacks
<1>2. Turned(t, Depth(t), jobs) /\ jobs' = <<>> /\ UNCHANGED memory
  BY <1>1, RunTurned DEF Run
<1>3. Top(t).in = "code"
  BY DEF Run, Starts, HasNext, AtEnd, Calling
<1>4. Depth(t) \in Nat /\ Given(stack[t], Depth(t)) = {}
  BY <1>1, <1>3, TopFrame, TopGiven, NothingOnce
<1>5. Distinct(jobs) /\ \A j \in Range(jobs) : j \in Jobs /\ memory[j] = "allocated"
  BY <1>1, ListGiven
<1> QED BY <1>1, <1>2, <1>4, <1>5, NothingOnce, OwnersMoved

\* The first job of jobsToRun goes back to the list, or is over.
LEMMA FirstOwners ==
  ASSUME TypeInv, OwnerInv, NEW t \in Threads, NEW n \in Nat, NEW s \in Seq(Jobs), s # <<>>,
         Distinct(s), Given(stack[t], n) = Range(s), Range(s) \cap Range(jobs) = {},
         \A j \in Range(s) : j \in Jobs /\ memory[j] = "allocated",
         Turned(t, n, Tail(s)),
         \/ jobs' = Append(jobs, Head(s)) /\ UNCHANGED memory
         \/ UNCHANGED jobs /\ memory' = [memory EXCEPT ![Head(s)] = "deleted"]
  PROVE  OwnerInv'
<1>1. /\ jobs \in Seq(Jobs)
      /\ memory \in [Jobs -> {"none", "allocated", "deleted", "leaked"}]
  BY DEF TypeInv, TypeOK
<1>2. PICK q \in Seq(Jobs) : q = Tail(s)
  BY TailOnce
<1>3. PICK h \in Jobs : h = Head(s)
  BY TailOnce
<1>4. Distinct(q) /\ Range(q) = Range(s) \ {h} /\ h \in Range(s)
  BY <1>2, <1>3, TailOnce
<1>5. Distinct(jobs) /\ \A j \in Range(jobs) : j \in Jobs /\ memory[j] = "allocated"
  BY <1>1, ListGiven
<1>6. CASE jobs' = Append(jobs, Head(s)) /\ UNCHANGED memory
  <2>1. PICK l \in Seq(Jobs) : l = Append(jobs, h)
    BY <1>1, AppendOnce
  <2>2. Distinct(l) /\ Range(l) = Range(jobs) \cup {h}
    BY <1>1, <1>4, <1>5, <2>1, AppendOnce
  <2>3. Turned(t, n, q) /\ jobs' = l /\ UNCHANGED memory
    BY <1>2, <1>3, <1>6, <2>1
  <2>4. Range(q) \cap Range(l) = {}
    BY <1>4, <2>2
  <2>5. \A j \in Range(q) \cup Range(l) : j \in Range(s) \/ j \in Range(jobs)
    BY <1>4, <2>2
  <2>6. \A j \in Jobs :
          memory'[j] = "allocated" <=>
            \/ j \in Range(q) \cup Range(l)
            \/ memory[j] = "allocated" /\ j \notin Range(s) /\ j \notin Range(jobs)
    BY <1>4, <1>5, <2>2, <2>3
  <2> QED BY <1>4, <2>2, <2>3, <2>4, <2>5, <2>6, OwnersMoved
<1>7. CASE UNCHANGED jobs /\ memory' = [memory EXCEPT ![Head(s)] = "deleted"]
  <2>1. /\ Turned(t, n, q) /\ jobs' = jobs
        /\ \A j \in Jobs : memory'[j] = IF j = h THEN "deleted" ELSE memory[j]
    BY <1>1, <1>2, <1>3, <1>7
  <2>2. Range(q) \cap Range(jobs) = {} /\ h \notin Range(jobs)
    BY <1>4
  <2>3. \A j \in Jobs :
          memory'[j] = "allocated" <=>
            \/ j \in Range(q) \cup Range(jobs)
            \/ memory[j] = "allocated" /\ j \notin Range(s) /\ j \notin Range(jobs)
    BY <1>4, <1>5, <2>1, <2>2
  <2>4. \A j \in Range(q) \cup Range(jobs) : j \in Range(s) \/ j \in Range(jobs)
    BY <1>4
  <2> QED BY <1>1, <1>4, <1>5, <2>1, <2>2, <2>3, <2>4, OwnersMoved
<1> QED BY <1>6, <1>7

\* A job that is too early goes from a frame's list back to the list.
LEMMA TooEarlyOwners ==
  ASSUME TypeInv, OwnerInv, NEW t \in Threads, TooEarly(t)
  PROVE  OwnerInv'
<1>1. Stacks
  BY DEF TypeInv, TypeOK, Stacks
<1>2. PICK s \in Seq(Jobs) : s = Top(t).jobsToRun
  BY <1>1, TopGiven
<1>3. s # <<>> /\ jobs' = Append(jobs, Head(s)) /\ UNCHANGED memory
  BY <1>2 DEF TooEarly
<1>4. Turned(t, Depth(t), Tail(s)) /\ Depth(t) \in Nat
  BY <1>1, <1>2, TooEarlyTurned, TopFrame
<1>5. /\ Distinct(s) /\ Given(stack[t], Depth(t)) = Range(s)
      /\ Range(s) \cap Range(jobs) = {}
      /\ \A j \in Range(s) : j \in Jobs /\ memory[j] = "allocated"
  BY <1>1, <1>2, TopGiven
<1> QED BY <1>3, <1>4, <1>5, FirstOwners

\* A job that has returned goes back to the list, or is deleted.
LEMMA TurnOwners ==
  ASSUME TypeInv, OwnerInv, NEW t \in Threads, Remove(t) \/ Again(t)
  PROVE  OwnerInv'
<1>1. Stacks
  BY DEF TypeInv, TypeOK, Stacks
<1>2. Inside(t, "Run") /\ Pop(t)
  BY DEF Remove, Again, Called, Thrown
<1>3. PICK s \in Seq(Jobs) : s = Below(t).jobsToRun
  BY <1>1, <1>2, BelowGiven
<1>4. PICK n \in Nat : n = Depth(t) - 1
  BY <1>1, <1>2, BelowGiven
<1>5. s # <<>> /\ Head(s) = Top(t).code
  BY <1>1, <1>2, <1>3, FrameBelow
<1>6. Turned(t, n, Tail(s))
  BY <1>1, <1>2, <1>3, <1>4, PopTurned
<1>7. /\ Distinct(s) /\ Given(stack[t], n) = Range(s)
      /\ Range(s) \cap Range(jobs) = {}
      /\ \A j \in Range(s) : j \in Jobs /\ memory[j] = "allocated"
  BY <1>1, <1>2, <1>3, <1>4, BelowGiven
<1>8. \/ jobs' = Append(jobs, Head(s)) /\ UNCHANGED memory
      \/ UNCHANGED jobs /\ memory' = [memory EXCEPT ![Head(s)] = "deleted"]
  BY <1>5 DEF Remove, Again, Called, Thrown
<1> QED BY <1>5, <1>6, <1>7, <1>8, FirstOwners

\* An exception gives up all that is left of jobsToRun, ...
LEMMA ThrowsOwners ==
  ASSUME TypeInv, OwnerInv, NEW t \in Threads, Throws(t)
  PROVE  OwnerInv'
<1>1. Stacks /\ jobs \in Seq(Jobs)
  BY DEF TypeInv, TypeOK, Stacks
<1>2. Inside(t, "Run") /\ UNCHANGED jobs
  BY DEF Throws, Called, Thrown
<1>3. PICK n \in Nat : n = Depth(t) - 1
  BY <1>1, <1>2, BelowGiven
<1>4. Turned(t, n, <<>>)
  BY <1>1, <1>3, ThrowsTurned
<1>5. Given(stack[t], n) = Lost(t) /\ Lost(t) \cap Range(jobs) = {}
  <2>1. Lost(t) = Range(Below(t).jobsToRun)
    BY DEF Lost, Range
  <2> QED BY <1>1, <1>2, <1>3, <2>1, BelowGiven
<1>6. \A j \in Jobs : memory'[j] = IF j \in Lost(t) THEN "leaked" ELSE memory[j]
  BY DEF Throws, Called, Thrown
<1>7. Distinct(jobs) /\ \A j \in Range(jobs) : j \in Jobs /\ memory[j] = "allocated"
  BY <1>1, ListGiven
<1>8. PICK q \in Seq(Jobs) : q = <<>>
  BY NothingOnce
<1>9. PICK l \in Seq(Jobs) : l = jobs
  BY <1>1
<1>10. /\ Distinct(q) /\ Range(q) = {} /\ Turned(t, n, q)
       /\ Distinct(l) /\ Range(l) = Range(jobs) /\ jobs' = l
  BY <1>2, <1>4, <1>7, <1>8, <1>9, NothingOnce
<1>11. \A j \in Jobs :
         memory'[j] = "allocated" <=>
           \/ j \in Range(q) \cup Range(l)
           \/ /\ memory[j] = "allocated"
              /\ j \notin Given(stack[t], n)
              /\ j \notin Range(jobs)
  BY <1>5, <1>6, <1>7, <1>10
<1>12. \A j \in Range(q) \cup Range(l) : j \in Range(jobs)
  BY <1>10
<1> QED BY <1>10, <1>11, <1>12, OwnersMoved

\* ... and Reset the whole list.
LEMMA ResetOwners ==
  ASSUME TypeInv, OwnerInv, NEW t \in Threads, Reset(t)
  PROVE  OwnerInv'
<1>1. Stacks /\ jobs \in Seq(Jobs)
  BY DEF TypeInv, TypeOK, Stacks
<1>2. Turned(t, Depth(t), <<>>) /\ Top(t).jobsToRun = <<>> /\ jobs' = <<>>
  BY <1>1, SkipTurned, TopFrame, NextIsOp DEF Reset
<1>3. PICK n \in Nat : n = Depth(t) /\ Given(stack[t], n) = {}
  BY <1>1, <1>2, TopFrame, TopGiven, NothingOnce
<1>4. \A j \in Jobs :
        memory'[j] = IF \E i \in DOMAIN jobs : jobs[i] = j THEN "leaked" ELSE memory[j]
  BY DEF Reset
<1>5. \A j \in Jobs : (\E i \in DOMAIN jobs : jobs[i] = j) <=> j \in Range(jobs)
  BY DEF Range
<1>6. PICK l \in Seq(Jobs) : l = <<>>
  BY NothingOnce
<1>7. Distinct(l) /\ Range(l) = {} /\ jobs' = l
  BY <1>2, <1>6, NothingOnce
<1>8. \A j \in Jobs :
        memory'[j] = "allocated" <=>
          j \in Range(l) \/ (memory[j] = "allocated" /\ j \notin Range(jobs))
  BY <1>4, <1>5, <1>7
<1>9. Turned(t, n, <<>>)
  BY <1>2, <1>3
<1> QED BY <1>3, <1>7, <1>8, <1>9, ListMoved

\* The steps of a thread that move no pointer.
LEMMA QuietOwners ==
  ASSUME TypeInv, OwnerInv, NEW t \in Threads,
         RunReturns(t) \/ Execute(t) \/ Call(t) \/ CallTooEarly(t)
  PROVE  OwnerInv'
<1>1. Stacks /\ jobs \in Seq(Jobs) /\ UNCHANGED <<jobs, memory>>
  BY DEF TypeInv, TypeOK, Stacks, RunReturns, Execute, Call, CallTooEarly
<1>2. Turned(t, Depth(t), Top(t).jobsToRun)
  <2>1. CASE RunReturns(t)
    BY <1>1, <2>1, RunReturnsTurned DEF RunReturns
  <2>2. CASE Execute(t)
    BY <1>1, <2>2, ExecuteTurned
  <2>3. CASE Call(t)
    BY <1>1, <2>3, CallTurned, TopFrame, NextIsOp DEF Call
  <2>4. CASE CallTooEarly(t)
    BY <1>1, <2>4, SkipTurned, TopFrame, NextIsOp DEF CallTooEarly
  <2> QED BY <2>1, <2>2, <2>3, <2>4
<1> QED BY <1>1, <1>2, TopFrame, TopGiven, OwnersStay

\* A continuation that nobody has is added; else nothing moves when operator() ends.
LEMMA ReturnOwners ==
  ASSUME TypeInv, OwnerInv, ContinuedOnce, NEW t \in Threads, CallDone(t) \/ CallNotDone(t)
  PROVE  OwnerInv'
<1>1. /\ Stacks /\ jobs \in Seq(Jobs)
      /\ memory \in [Jobs -> {"none", "allocated", "deleted", "leaked"}]
  BY DEF TypeInv, TypeOK, Stacks
<1>2. Inside(t, "operator()") /\ Return(t)
  BY DEF CallDone, CallNotDone, Called, Thrown
<1>3. PICK n \in Nat : n = Depth(t) - 1
  BY <1>1, <1>2, BelowGiven
<1>4. Turned(t, n, <<>>)
  BY <1>1, <1>2, <1>3, ReturnTurned
<1>5. Given(stack[t], n) = {}
  BY <1>1, <1>2, <1>3, FrameBelow, BelowGiven, NothingOnce
<1>6. CASE UNCHANGED <<jobs, memory>>
  BY <1>1, <1>4, <1>5, <1>6, NothingOnce, OwnersStay
<1>7. CASE ~UNCHANGED <<jobs, memory>>
  <2>1. CallDone(t) /\ Then[Top(t).code] # NoJob
    BY <1>7 DEF CallDone, CallNotDone, Called, Thrown
  <2>2. PICK j \in Jobs : j = Then[Top(t).code]
    BY <1>1, <1>2, <2>1, FrameBelow, JobSystemAssumption
  <2>3. memory[j] = "none"
    BY <2>1, <2>2 DEF ContinuedOnce, CallDone, Called, Thrown
  <2>4. jobs' = Append(jobs, j) /\ memory' = [memory EXCEPT ![j] = "allocated"]
    BY <2>1, <2>2 DEF CallDone, Called, Thrown
  <2>5. /\ Distinct(jobs) /\ j \notin Range(jobs)
        /\ \A k \in Range(jobs) : k \in Jobs /\ memory[k] = "allocated"
    BY <1>1, <2>3, ListGiven
  <2>6. PICK l \in Seq(Jobs) : l = Append(jobs, j)
    BY <1>1, AppendOnce
  <2>7. Distinct(l) /\ Range(l) = Range(jobs) \cup {j}
    BY <1>1, <2>5, <2>6, AppendOnce
  <2>8. \A k \in Jobs : memory'[k] = "allocated" <=> k = j \/ memory[k] = "allocated"
    BY <1>1, <2>4
  <2>9. \A k \in Range(l) : k \in Range(jobs) \/ memory[k] # "allocated"
    BY <2>3, <2>7
  <2>10. \A k \in Jobs :
           memory'[k] = "allocated" <=>
             k \in Range(l) \/ (memory[k] = "allocated" /\ k \notin Range(jobs))
    BY <2>5, <2>7, <2>8
  <2>11. jobs' = l
    BY <2>4, <2>6
  <2> QED BY <1>4, <1>5, <2>7, <2>9, <2>10, <2>11, ListMoved
<1> QED BY <1>6, <1>7

\* Every step keeps OwnerInv, while no job is continued twice.
LEMMA NextOwners == TypeInv /\ OwnerInv /\ ContinuedOnce /\ [Next]_vars => OwnerInv'
<1> SUFFICES ASSUME TypeInv, OwnerInv, ContinuedOnce, [Next]_vars PROVE OwnerInv'
  OBVIOUS
<1>1. ASSUME NEW t \in Threads, Step(t)
      PROVE  OwnerInv'
  BY <1>1, AddOwners, RunOwners, QuietOwners, TooEarlyOwners, TurnOwners, ThrowsOwners,
     ResetOwners, ReturnOwners DEF Step
<1>2. CASE UNCHANGED <<jobs, stack, memory>>
  <2>1. jobs' = jobs /\ stack' = stack /\ memory' = memory
    BY <1>2
  <2>2. NoneTwice'
    BY <2>1 DEF OwnerInv, NoneTwice, Distinct, RunsOnce
  <2>3. Apart'
    BY <2>1 DEF OwnerInv, Apart
  <2>4. Owned'
    BY <2>1 DEF OwnerInv, Owned
  <2> QED BY <2>2, <2>3, <2>4 DEF OwnerInv
<1>3. ASSUME NEW j \in Jobs, TimePasses(j)
      PROVE  OwnerInv'
  BY <1>2, <1>3 DEF TimePasses
<1>4. CASE UNCHANGED vars
  BY <1>2, <1>4 DEF vars
<1> QED BY <1>1, <1>3, <1>4 DEF Next

\* At the start nothing is allocated.
LEMMA InitOwners == Init => OwnerInv
<1> SUFFICES ASSUME Init PROVE OwnerInv
  OBVIOUS
<1>1. ASSUME NEW t \in Threads
      PROVE  /\ Len(stack[t]) = 1
             /\ \A d \in 1..Len(stack[t]) : stack[t][d].jobsToRun = <<>>
  BY <1>1 DEF Init, NewFrame
<1>2. jobs = <<>> /\ \A j \in Jobs : memory[j] # "allocated"
  BY DEF Init
<1>3. NoneTwice
  BY <1>1, <1>2, NothingOnce DEF NoneTwice, RunsOnce
<1>4. \A t \in Threads, d \in Nat : Given(stack[t], d) = {}
  BY <1>1, NothingOnce DEF Given
<1>5. Range(jobs) = {}
  BY <1>2, NothingOnce
<1> QED BY <1>2, <1>3, <1>4, <1>5 DEF OwnerInv, Apart, Owned

----------------------------------------------------------------------------
\* The jobsToRun of a frame.
LEMMA FrameJobs ==
  ASSUME TypeInv, NEW t \in Threads
  PROVE  /\ DOMAIN stack[t] = 1..Len(stack[t])
         /\ \A d \in 1..Len(stack[t]) :
              /\ d \in Nat
              /\ stack[t][d].jobsToRun \in Seq(Jobs)
              /\ DOMAIN stack[t][d].jobsToRun = 1..Len(stack[t][d].jobsToRun)
              /\ Given(stack[t], d) = Range(stack[t][d].jobsToRun)
<1>1. stack[t] \in Seq(Frame)
  BY DEF TypeInv, TypeOK
<1>2. DOMAIN stack[t] = 1..Len(stack[t])
  BY <1>1, LenProperties
<1>3. ASSUME NEW d \in 1..Len(stack[t])
      PROVE  /\ d \in Nat
             /\ stack[t][d].jobsToRun \in Seq(Jobs)
             /\ DOMAIN stack[t][d].jobsToRun = 1..Len(stack[t][d].jobsToRun)
             /\ Given(stack[t], d) = Range(stack[t][d].jobsToRun)
  <2>1. stack[t][d] \in Frame
    BY <1>1, ElementOfSeq
  <2>2. stack[t][d].jobsToRun \in Seq(Jobs)
    BY <2>1 DEF Frame
  <2>3. DOMAIN stack[t][d].jobsToRun = 1..Len(stack[t][d].jobsToRun)
    BY <2>2, LenProperties
  <2> QED BY <2>2, <2>3 DEF Given
<1> QED BY <1>2, <1>3

\* A pointer to a job is where a sequence that has the job has it.
ListPlace(place, j) == \E i \in 1..Len(jobs) : place = <<i>> /\ jobs[i] = j
RunPlace(place, j, t, d) ==
  \E i \in 1..Len(stack[t][d].jobsToRun) :
    place = <<t, d, i>> /\ stack[t][d].jobsToRun[i] = j

\* The places of a job, one by one.
LEMMA PlacesAre ==
  ASSUME TypeInv, NEW j \in Jobs, NEW place
  PROVE  place \in Places(j) <=>
           \/ ListPlace(place, j)
           \/ \E t \in Threads : \E d \in 1..Len(stack[t]) : RunPlace(place, j, t, d)
<1>1. DOMAIN jobs = 1..Len(jobs)
  BY LenProperties DEF TypeInv, TypeOK
<1>2. place \in {<<i>> : i \in Positions(jobs, j)} <=> ListPlace(place, j)
  BY <1>1 DEF Positions, ListPlace
<1>3. ASSUME NEW t \in Threads, NEW d \in 1..Len(stack[t])
      PROVE  place \in {<<t, d, i>> : i \in Positions(stack[t][d].jobsToRun, j)}
               <=> RunPlace(place, j, t, d)
  <2>1. DOMAIN stack[t][d].jobsToRun = 1..Len(stack[t][d].jobsToRun)
    BY FrameJobs
  <2> QED BY <2>1 DEF Positions, RunPlace
<1>4. ASSUME NEW t \in Threads
      PROVE  place \in UNION {{<<t, d, i>> : i \in Positions(stack[t][d].jobsToRun, j)}
                               : d \in DOMAIN stack[t]}
               <=> \E d \in 1..Len(stack[t]) : RunPlace(place, j, t, d)
  BY <1>3, FrameJobs
<1> QED BY <1>2, <1>4 DEF Places

\* OneOwner says so of the places of every job.
LEMMA InvIsOneOwner == TypeInv /\ OwnerInv => OneOwner
<1> SUFFICES ASSUME TypeInv, OwnerInv, NEW j \in Jobs
             PROVE  IF memory[j] = "allocated"
                      THEN \E place \in Places(j) : Places(j) = {place}
                      ELSE Places(j) = {}
  BY DEF OneOwner
<1>1. NoneTwice /\ Apart /\ Owned
  BY DEF OwnerInv
<1>2. jobs \in Seq(Jobs) /\ DOMAIN jobs = 1..Len(jobs)
  BY LenProperties DEF TypeInv, TypeOK
<1>3. ASSUME NEW place, ListPlace(place, j)
      PROVE  j \in Range(jobs)
  BY <1>2, <1>3 DEF Range, ListPlace
<1>4. ASSUME NEW place, NEW t \in Threads, NEW d \in 1..Len(stack[t]), RunPlace(place, j, t, d)
      PROVE  d \in Nat /\ j \in Given(stack[t], d)
  <2>1. j \in Range(stack[t][d].jobsToRun)
    BY <1>4, FrameJobs DEF Range, RunPlace
  <2> QED BY <2>1, FrameJobs
<1>5. CASE memory[j] # "allocated"
  <2>1. j \notin Range(jobs) /\ \A t \in Threads, d \in Nat : j \notin Given(stack[t], d)
    BY <1>1, <1>5 DEF Owned
  <2>2. ASSUME NEW place \in Places(j)
        PROVE  FALSE
    <3>1. ~ListPlace(place, j)
      BY <1>3, <2>1
    <3>2. PICK t \in Threads : \E d \in 1..Len(stack[t]) : RunPlace(place, j, t, d)
      BY <2>2, <3>1, PlacesAre
    <3> QED BY <1>4, <2>1, <3>2
  <2> QED BY <1>5, <2>2
<1>6. CASE memory[j] = "allocated" /\ j \in Range(jobs)
  <2>1. PICK i \in 1..Len(jobs) : jobs[i] = j
    BY <1>2, <1>6 DEF Range
  <2>2. <<i>> \in Places(j)
    BY <2>1, PlacesAre DEF ListPlace
  <2>3. ASSUME NEW place \in Places(j)
        PROVE  place = <<i>>
    <3>1. ASSUME NEW t \in Threads, NEW d \in 1..Len(stack[t]), RunPlace(place, j, t, d)
          PROVE  FALSE
      <4>1. d \in Nat /\ j \in Given(stack[t], d)
        BY <1>4, <3>1
      <4> QED BY <1>1, <1>6, <4>1 DEF Apart
    <3>2. ListPlace(place, j)
      BY <2>3, <3>1, PlacesAre
    <3>3. PICK k \in 1..Len(jobs) : place = <<k>> /\ jobs[k] = j
      BY <3>2 DEF ListPlace
    <3>4. k = i
      BY <1>1, <2>1, <3>3 DEF NoneTwice, Distinct
    <3> QED BY <3>3, <3>4
  <2> QED BY <1>6, <2>2, <2>3
<1>7. CASE memory[j] = "allocated" /\ j \notin Range(jobs)
  <2>1. PICK t \in Threads, d \in Nat : j \in Given(stack[t], d)
    BY <1>1, <1>7 DEF Owned
  <2>2. d \in 1..Len(stack[t])
    BY <2>1 DEF Given
  <2>3. j \in Range(stack[t][d].jobsToRun)
    BY <2>1, <2>2, FrameJobs
  <2>4. PICK i \in 1..Len(stack[t][d].jobsToRun) : stack[t][d].jobsToRun[i] = j
    BY <2>2, <2>3, FrameJobs DEF Range
  <2>5. <<t, d, i>> \in Places(j)
    <3>1. RunPlace(<<t, d, i>>, j, t, d)
      BY <2>4 DEF RunPlace
    <3> QED BY <2>2, <3>1, PlacesAre
  <2>6. ASSUME NEW place \in Places(j)
        PROVE  place = <<t, d, i>>
    <3>1. ~ListPlace(place, j)
      BY <1>3, <1>7
    <3>2. PICK u \in Threads : \E e \in 1..Len(stack[u]) : RunPlace(place, j, u, e)
      BY <2>6, <3>1, PlacesAre
    <3>3. PICK e \in 1..Len(stack[u]) : RunPlace(place, j, u, e)
      BY <3>2
    <3>4. e \in Nat /\ j \in Given(stack[u], e)
      BY <1>4, <3>3
    <3>5. u = t /\ e = d
      BY <1>1, <2>1, <3>4 DEF Apart
    <3>6. PICK k \in 1..Len(stack[t][d].jobsToRun) :
                 place = <<t, d, k>> /\ stack[t][d].jobsToRun[k] = j
      BY <3>3, <3>5 DEF RunPlace
    <3>7. Distinct(stack[t][d].jobsToRun)
      BY <1>1, <2>2 DEF NoneTwice, RunsOnce
    <3>8. k = i
      BY <2>4, <3>6, <3>7 DEF Distinct
    <3> QED BY <3>6, <3>8
  <2> QED BY <1>7, <2>5, <2>6
<1> QED BY <1>5, <1>6, <1>7

\* For any threads and jobs, of any programs that add no continuation twice: a job
\* that is allocated has one pointer to it, in the list or in the jobsToRun of one Run,
\* and a job that was deleted or given up has none.
THEOREM OwnedOnce == Spec /\ []ContinuedOnce => []OneOwner
<1>1. Init => TypeInv /\ OwnerInv
  BY InitTypes, InitOwners
<1>2. TypeInv /\ OwnerInv /\ ContinuedOnce /\ [Next]_vars => (TypeInv /\ OwnerInv)'
  BY NextTypes, NextOwners
<1>3. TypeInv /\ OwnerInv => OneOwner
  BY InvIsOneOwner
<1> QED BY <1>1, <1>2, <1>3, PTL DEF Spec

----------------------------------------------------------------------------
(* Continuations of jobs that a program calls until they are done.          *)

\* Where code x calls job k, and the jobs whose end by a call adds a continuation.
Calls(x, k) == {i \in 1..Len(Body[x]) : Body[x][i].op = "call" /\ Body[x][i].job = k}
Continues(k) ==
  /\ Then[k] # NoJob /\ k \notin Throwing
  /\ \E x \in Threads \cup Jobs : Calls(x, k) # {}

\* A condition on the program, of the constants only.  A job with a continuation is called
\* by one thread, outside of callbacks, and not once more after it is done; neither it nor
\* its continuation is added, and no other job has the same continuation.
ContinuationsSettled ==
  \A k \in Jobs : Continues(k) =>
    /\ \A j \in Jobs : Continues(j) => Then[j] # k /\ (Then[j] = Then[k] => j = k)
    /\ \A x \in Threads \cup Jobs : \A i \in 1..Len(Body[x]) :
         Body[x][i].op = "add" => Body[x][i].job \notin {k, Then[k]}
    /\ \E t \in Threads :
         /\ \A x \in Threads \cup Jobs : Calls(x, k) # {} => x = t
         /\ Cardinality(Calls(t, k)) <= Rounds[k] + 1

\* At the bottom of a stack is the thread's own code, and above a frame in operator() is
\* the callback of the job that it calls.
CallsFit(s, t) ==
  /\ s[1].code = t
  /\ \A d \in 1..Len(s) :
       d < Len(s) /\ s[d].in = "operator()" => s[d].ip \in Calls(s[d].code, s[d + 1].code)
CallsInv == \A t \in Threads : CallsFit(stack[t], t)

\* The calls that a thread has still to begin or to end,
CallsLeft(t, k) ==
  {i \in Calls(t, k) : \/ i > stack[t][1].ip
                       \/ i = stack[t][1].ip /\ stack[t][1].in = "operator()"}

\* are no more than it takes, and none once the continuation has been added.
SettledInv ==
  \A k \in Jobs : Continues(k) =>
    /\ memory[k] = "none"
    /\ \A t \in Threads :
         IF memory[Then[k]] = "none"
           THEN Cardinality(CallsLeft(t, k)) <= rounds[k] + 1
           ELSE CallsLeft(t, k) = {}

ContinueInv == CallsInv /\ SettledInv

\* The calls of a code are places in it.
LEMMA CallsAre ==
  ASSUME NEW x \in Threads \cup Jobs, NEW k
  PROVE  /\ Calls(x, k) \subseteq Nat /\ IsFiniteSet(Calls(x, k))
         /\ Len(Body[x]) \in Nat
<1>1. Len(Body[x]) \in Nat
  BY LenProperties, JobSystemAssumption
<1>2. IsFiniteSet(1..Len(Body[x]))
  BY <1>1, FS_Interval
<1> QED BY <1>1, <1>2, FS_Subset DEF Calls

\* What a step does to a stack: it replaces the top, ends a callback and replaces the top
\* that is left, or puts a callback on top.
Replaces(t, f, r) ==
  /\ stack' = [stack EXCEPT ![t] = r] /\ Len(r) = Depth(t)
  /\ f.in # "operator()" /\ Top(t).in # "operator()" /\ f.ip \in {Top(t).ip, Top(t).ip + 1}
Ends(t, f, r) ==
  /\ stack' = [stack EXCEPT ![t] = r] /\ Len(r) = Depth(t) - 1 /\ Depth(t) > 1
  /\ f.in # "operator()" /\ f.ip = Below(t).ip
Executes(t, f, r) ==
  /\ \E j \in Jobs : stack' = [stack EXCEPT ![t] = Append(r, NewFrame(j))]
  /\ Len(r) = Depth(t) /\ f = Top(t) /\ f.in = "Run"
CallsJob(t, f, r) ==
  /\ \E j \in Jobs :
       /\ stack' = [stack EXCEPT ![t] = Append(r, NewFrame(j))]
       /\ f.ip \in Calls(f.code, j)
  /\ Len(r) = Depth(t) /\ f.in = "operator()" /\ Top(t).in = "code" /\ f.ip = Top(t).ip + 1
StackStep(t, f, r) == Replaces(t, f, r) \/ Ends(t, f, r) \/ Executes(t, f, r) \/ CallsJob(t, f, r)

LEMMA ReplacesTop ==
  ASSUME Stacks, NEW t \in Threads, NEW f \in Frame, f.code = Top(t).code,
         f.in # "Run" => f.jobsToRun = <<>>, SetTop(t, f),
         f.in # "operator()", Top(t).in # "operator()", f.ip \in {Top(t).ip, Top(t).ip + 1}
  PROVE  \E r : NewTop(stack[t], r, f) /\ StackStep(t, f, r)
<1>1. stack[t] \in Seq(Frame) /\ stack[t] # <<>>
  BY TopFrame
<1>2. PICK r : r = [stack[t] EXCEPT ![Len(stack[t])] = f]
  OBVIOUS
<1>3. NewTop(stack[t], r, f) /\ Len(r) = Len(stack[t])
  BY <1>1, <1>2, TopReplaced DEF Top, Depth
<1>4. stack' = [stack EXCEPT ![t] = r]
  BY <1>2 DEF SetTop, Depth
<1> QED BY <1>3, <1>4 DEF StackStep, Replaces, Depth

LEMMA EndsCallback ==
  ASSUME Stacks, NEW t \in Threads, NEW from, Inside(t, from), NEW f \in Frame,
         f.code = Below(t).code, f.in # "Run" => f.jobsToRun = <<>>,
         stack' = [stack EXCEPT ![t] = Append(SubSeq(@, 1, Depth(t) - 2), f)],
         f.in # "operator()", f.ip = Below(t).ip
  PROVE  \E r : NewTop(stack[t], r, f) /\ Ends(t, f, r)
<1>1. stack[t] \in Seq(Frame) /\ Len(stack[t]) \in Nat /\ Len(stack[t]) > 1
  BY TopFrame, FrameBelow DEF Depth
<1>2. PICK r : r = Append(SubSeq(stack[t], 1, Len(stack[t]) - 2), f)
  OBVIOUS
<1>3. NewTop(stack[t], r, f) /\ Len(r) = Len(stack[t]) - 1
  BY <1>1, <1>2, TopPopped DEF Below, Depth
<1>4. stack' = [stack EXCEPT ![t] = r]
  BY <1>2 DEF Depth
<1> QED BY <1>1, <1>3, <1>4 DEF Ends, Depth

LEMMA ReturnEnds ==
  ASSUME Stacks, NEW t \in Threads, Inside(t, "operator()"), Return(t)
  PROVE  \E f \in Frame : \E r : NewTop(stack[t], r, f) /\ Ends(t, f, r)
<1>1. Below(t) \in Frame /\ Below(t).jobsToRun = <<>>
  BY FrameBelow
<1>2. PICK f : f = [Below(t) EXCEPT !.in = "code"]
  OBVIOUS
<1>3. f \in Frame /\ f.code = Below(t).code /\ f.jobsToRun = <<>> /\ f.in = "code" /\ f.ip = Below(t).ip
  BY <1>1, <1>2 DEF Frame
<1>4. stack' = [stack EXCEPT ![t] = Append(SubSeq(@, 1, Depth(t) - 2), f)]
  BY <1>2 DEF Return
<1> QED BY <1>3, <1>4, EndsCallback

LEMMA StackSteps ==
  ASSUME Stacks, jobs \in Seq(Jobs), NEW t \in Threads, Step(t)
  PROVE  \E f \in Frame : \E r : NewTop(stack[t], r, f) /\ StackStep(t, f, r)
<1>0. Top(t) \in Frame /\ Past(t) \in Frame /\ Past(t).ip = Top(t).ip + 1
      /\ Past(t).code = Top(t).code /\ Past(t).in = Top(t).in /\ Past(t).jobsToRun = Top(t).jobsToRun
      /\ (Top(t).in # "Run" => Top(t).jobsToRun = <<>>)
      /\ stack[t] \in Seq(Frame) /\ stack[t] # <<>>
  <2>1. Top(t) \in Frame
    BY TopFrame
  <2>2. Past(t).ip = Top(t).ip + 1
    BY <2>1 DEF Past, Frame
  <2> QED BY <2>2, TopFrame, PastTop
<1>1. CASE Add(t) \/ CallTooEarly(t) \/ Reset(t)
  <2>1. Top(t).in = "code" /\ SetTop(t, Past(t))
    BY <1>1 DEF Add, CallTooEarly, Reset, Starts, HasNext, Calling
  <2>2. \E r : NewTop(stack[t], r, Past(t)) /\ StackStep(t, Past(t), r)
    BY <1>0, <2>1, ReplacesTop
  <2> QED BY <1>0, <2>2
<1>2. CASE Run(t)
  <2>1. PICK f : f = [(IF AtEnd(t) THEN Top(t) ELSE Past(t)) EXCEPT !.in = "Run", !.jobsToRun = jobs]
    OBVIOUS
  <2>2. /\ f \in Frame /\ f.code = Top(t).code /\ f.in = "Run" /\ f.ip \in {Top(t).ip, Top(t).ip + 1}
    BY <1>0, <2>1 DEF Frame
  <2>3. SetTop(t, f) /\ Top(t).in = "code"
    BY <1>2, <2>1 DEF Run, Starts, HasNext, Calling, AtEnd
  <2>4. \E r : NewTop(stack[t], r, f) /\ StackStep(t, f, r)
    BY <2>2, <2>3, ReplacesTop
  <2> QED BY <2>2, <2>4
<1>3. CASE RunReturns(t)
  <2>1. PICK f : f = [Top(t) EXCEPT !.in = "code"]
    OBVIOUS
  <2>2. /\ f \in Frame /\ f.code = Top(t).code /\ f.in = "code" /\ f.ip = Top(t).ip /\ f.jobsToRun = <<>>
        /\ Top(t).in = "Run"
    BY <1>0, <1>3, <2>1 DEF Frame, RunReturns, Running
  <2>3. SetTop(t, f)
    BY <1>3, <2>1 DEF RunReturns
  <2>4. \E r : NewTop(stack[t], r, f) /\ StackStep(t, f, r)
    BY <2>2, <2>3, ReplacesTop
  <2> QED BY <2>2, <2>4
<1>4. CASE TooEarly(t)
  <2>1. PICK f : f = [Top(t) EXCEPT !.jobsToRun = Tail(@)]
    OBVIOUS
  <2>2. /\ Top(t).in = "Run" /\ Top(t).jobsToRun \in Seq(Jobs) /\ Top(t).jobsToRun # <<>>
    BY <1>0, <1>4 DEF Frame, TooEarly, Running
  <2>3. Tail(Top(t).jobsToRun) \in Seq(Jobs)
    BY <2>2, HeadTailProperties
  <2>4. f \in Frame /\ f.code = Top(t).code /\ f.in = "Run" /\ f.ip = Top(t).ip
    BY <1>0, <2>1, <2>2, <2>3 DEF Frame
  <2>5. SetTop(t, f)
    BY <1>4, <2>1 DEF TooEarly
  <2>6. \E r : NewTop(stack[t], r, f) /\ StackStep(t, f, r)
    BY <2>2, <2>4, <2>5, ReplacesTop
  <2> QED BY <2>4, <2>6
<1>5. CASE Execute(t)
  <2>1. /\ Top(t).in = "Run" /\ Top(t).jobsToRun \in Seq(Jobs) /\ Top(t).jobsToRun # <<>>
    BY <1>0, <1>5 DEF Frame, Execute, Running
  <2>2. PICK j \in Jobs : j = Head(Top(t).jobsToRun)
    BY <2>1, HeadTailProperties
  <2>3. NewTop(stack[t], stack[t], Top(t))
    <3>1. Len(stack[t]) \in Nat /\ Len(stack[t]) >= 1
      BY <1>0, EmptySeq
    <3> QED BY <1>0, <2>1, <3>1 DEF NewTop, Top, Depth
  <2>4. stack' = [stack EXCEPT ![t] = Append(stack[t], NewFrame(j))]
    BY <1>5, <2>2 DEF Execute
  <2>5. StackStep(t, Top(t), stack[t])
    BY <2>1, <2>4 DEF StackStep, Executes, Depth
  <2> QED BY <1>0, <2>3, <2>5
<1>6. ASSUME Inside(t, "Run"), Pop(t)
      PROVE  \E f \in Frame : \E r : NewTop(stack[t], r, f) /\ Ends(t, f, r)
  <2>1. /\ Below(t) \in Frame /\ Below(t).in = "Run"
        /\ Below(t).jobsToRun # <<>> /\ Below(t).jobsToRun \in Seq(Jobs)
    BY <1>6, FrameBelow DEF Frame
  <2>2. Tail(Below(t).jobsToRun) \in Seq(Jobs)
    BY <2>1, HeadTailProperties
  <2>3. PICK f : f = [Below(t) EXCEPT !.jobsToRun = Tail(@)]
    OBVIOUS
  <2>4. f \in Frame /\ f.code = Below(t).code /\ f.in = "Run" /\ f.ip = Below(t).ip
    BY <2>1, <2>2, <2>3 DEF Frame
  <2>5. stack' = [stack EXCEPT ![t] = Append(SubSeq(@, 1, Depth(t) - 2), f)]
    BY <1>6, <2>3 DEF Pop
  <2>6. \E r : NewTop(stack[t], r, f) /\ Ends(t, f, r)
    BY <1>6, <2>4, <2>5, EndsCallback
  <2> QED BY <2>4, <2>6
<1>7. CASE Remove(t) \/ Again(t)
  BY <1>6, <1>7 DEF Remove, Again, StackStep, Called, Thrown
<1>8. CASE Throws(t)
  <2>1. Inside(t, "Run") /\ Below(t) \in Frame
    BY <1>8, FrameBelow DEF Throws, Called, Thrown
  <2>2. PICK f : f = [Below(t) EXCEPT !.in = "code", !.jobsToRun = <<>>]
    OBVIOUS
  <2>3. f \in Frame /\ f.code = Below(t).code /\ f.jobsToRun = <<>> /\ f.in = "code" /\ f.ip = Below(t).ip
    BY <2>1, <2>2, NothingOnce DEF Frame
  <2>4. stack' = [stack EXCEPT ![t] = Append(SubSeq(@, 1, Depth(t) - 2), f)]
    BY <1>8, <2>2 DEF Throws, Called, Thrown
  <2>5. \E r : NewTop(stack[t], r, f) /\ Ends(t, f, r)
    BY <2>1, <2>3, <2>4, EndsCallback
  <2> QED BY <2>3, <2>5 DEF StackStep
<1>9. CASE Call(t)
  <2>1. Top(t).in = "code" /\ NextOp(t).op = "call" /\ Top(t).ip < Len(Body[Top(t).code])
    BY <1>9 DEF Call, Starts, HasNext, Calling
  <2>2. PICK j \in Jobs : j = NextOp(t).job
    BY <1>9, NextIsOp DEF Call
  <2>3. PICK f : f = [Past(t) EXCEPT !.in = "operator()"]
    OBVIOUS
  <2>4. /\ f \in Frame /\ f.code = Top(t).code /\ f.in = "operator()" /\ f.jobsToRun = <<>>
        /\ f.ip = Top(t).ip + 1
    BY <1>0, <2>1, <2>3 DEF Frame
  <2>5. PICK r : r = SubSeq(stack[t], 1, Len(stack[t]) - 1) \o <<f>>
    OBVIOUS
  <2>6. NewTop(stack[t], r, f) /\ Len(r) = Len(stack[t])
    BY <1>0, <2>4, <2>5, TopRejoined DEF Top, Depth
  <2>7. stack' = [stack EXCEPT ![t] = Append(r, NewFrame(j))]
    BY <1>9, <2>2, <2>3, <2>5 DEF Call, Depth
  <2>8. f.ip \in Calls(f.code, j)
    <3>1. Top(t).code \in Threads \cup Jobs /\ Top(t).ip \in Nat
      BY <1>0 DEF Frame
    <3>2. Top(t).ip + 1 \in 1..Len(Body[Top(t).code])
      BY <2>1, <3>1, CallsAre
    <3> QED BY <2>1, <2>2, <2>4, <3>2 DEF Calls, NextOp
  <2>9. StackStep(t, f, r)
    BY <2>1, <2>4, <2>6, <2>7, <2>8 DEF StackStep, CallsJob, Depth
  <2> QED BY <2>4, <2>6, <2>9
<1>10. CASE CallDone(t) \/ CallNotDone(t)
  BY <1>10, ReturnEnds DEF CallDone, CallNotDone, StackStep, Called, Thrown
<1> QED BY <1>1, <1>2, <1>3, <1>4, <1>5, <1>7, <1>8, <1>9, <1>10 DEF Step

\* A stack with another top still fits, as does one with a callback that its top calls.
LEMMA NewTopFits ==
  ASSUME NEW t, NEW s \in Seq(Frame), NEW r, NEW f, NewTop(s, r, f), CallsFit(s, t)
  PROVE  CallsFit(r, t) /\ r[1] = IF Len(r) = 1 THEN f ELSE s[1]
<1>1. Len(s) \in Nat /\ Len(r) \in Nat /\ Len(r) >= 1 /\ Len(r) <= Len(s)
  BY LenProperties DEF NewTop
<1>2. r[1] = IF Len(r) = 1 THEN f ELSE s[1]
  <2>1. CASE Len(r) = 1
    BY <2>1 DEF NewTop
  <2>2. CASE Len(r) # 1
    <3>1. PICK n \in Nat : n = Len(r) /\ n >= 1 /\ n # 1
      BY <1>1, <2>2
    <3>2. 1 \in 1..(n - 1)
      BY <3>1
    <3> QED BY <2>2, <3>1, <3>2 DEF NewTop
  <2> QED BY <2>1, <2>2
<1>3. r[1].code = t
  BY <1>2 DEF NewTop, CallsFit
<1>4. ASSUME NEW d \in 1..Len(r), d < Len(r), r[d].in = "operator()"
      PROVE  r[d].ip \in Calls(r[d].code, r[d + 1].code)
  <2>1. d \in 1..(Len(r) - 1) /\ d \in 1..Len(s) /\ d < Len(s)
    BY <1>1, <1>4
  <2>2. r[d] = s[d]
    BY <2>1 DEF NewTop
  <2>3. r[d + 1].code = s[d + 1].code
    <3>1. CASE d + 1 = Len(r)
      BY <3>1 DEF NewTop
    <3>2. CASE d + 1 # Len(r)
      <4>1. d + 1 \in 1..(Len(r) - 1)
        BY <1>1, <1>4, <3>2
      <4> QED BY <4>1 DEF NewTop
    <3> QED BY <3>1, <3>2
  <2> QED BY <1>4, <2>1, <2>2, <2>3 DEF CallsFit
<1> QED BY <1>2, <1>3, <1>4 DEF CallsFit

LEMMA CallbackFits ==
  ASSUME NEW t, NEW r \in Seq(Frame), Len(r) >= 1, CallsFit(r, t), NEW j \in Jobs,
         r[Len(r)].in = "operator()" => r[Len(r)].ip \in Calls(r[Len(r)].code, j)
  PROVE  CallsFit(Append(r, NewFrame(j)), t) /\ Append(r, NewFrame(j))[1] = r[1]
<1>1. NewFrame(j) \in Frame /\ NewFrame(j).code = j
  BY NothingOnce DEF NewFrame, Frame
<1>2. PICK p : p = Append(r, NewFrame(j))
  OBVIOUS
<1>3. /\ Len(p) = Len(r) + 1 /\ Len(r) \in Nat
      /\ \A d \in 1..Len(r) : p[d] = r[d]
      /\ p[Len(r) + 1] = NewFrame(j)
  BY <1>1, <1>2, AppendProperties, LenProperties
<1>4. p[1] = r[1]
  BY <1>3
<1>5. ASSUME NEW d \in 1..Len(p), d < Len(p), p[d].in = "operator()"
      PROVE  p[d].ip \in Calls(p[d].code, p[d + 1].code)
  <2>1. d \in 1..Len(r) /\ p[d] = r[d]
    BY <1>3, <1>5
  <2>2. CASE d = Len(r)
    BY <1>1, <1>3, <1>5, <2>1, <2>2
  <2>3. CASE d # Len(r)
    <3>1. d + 1 \in 1..Len(r) /\ d < Len(r)
      BY <1>3, <2>1, <2>3
    <3>2. p[d + 1] = r[d + 1]
      BY <1>3, <3>1
    <3> QED BY <1>5, <2>1, <3>1, <3>2 DEF CallsFit
  <2> QED BY <2>2, <2>3
<1>6. CallsFit(p, t)
  BY <1>4, <1>5 DEF CallsFit
<1> QED BY <1>2, <1>4, <1>6

\* No step gives a thread calls that it had not, and the end of a call takes it away.
LEMMA CallsStep ==
  ASSUME TypeInv, CallsInv, NEW t \in Threads, Step(t)
  PROVE  /\ CallsInv'
         /\ \A u \in Threads, k \in Jobs : CallsLeft(u, k)' \subseteq CallsLeft(u, k)
<1>0. Stacks /\ jobs \in Seq(Jobs)
  BY DEF TypeInv, TypeOK, Stacks
<1>1. PICK f \in Frame : \E r : NewTop(stack[t], r, f) /\ StackStep(t, f, r)
  BY <1>0, StackSteps
<1>2. PICK r : NewTop(stack[t], r, f) /\ StackStep(t, f, r)
  BY <1>1
<1>3. PICK s \in Seq(Frame) : s = stack[t] /\ s # <<>> /\ CallsFit(s, t) /\ s[1] \in Frame
      /\ Depth(t) = Len(s) /\ Top(t) = s[Len(s)] /\ Len(s) \in Nat /\ Len(s) >= 1
  <2>1. stack[t] \in Seq(Frame) /\ stack[t] # <<>> /\ Depth(t) \in Nat /\ Depth(t) >= 1
    BY <1>0, TopFrame
  <2>2. 1 \in 1..Len(stack[t])
    BY <2>1 DEF Depth
  <2>3. stack[t][1] \in Frame
    BY <2>1, <2>2, ElementOfSeq
  <2> QED BY <2>1, <2>3 DEF CallsInv, Depth, Top
<1>4. /\ CallsFit(r, t) /\ r[1] = (IF Len(r) = 1 THEN f ELSE s[1])
      /\ r \in Seq(Frame) /\ Len(r) >= 1 /\ Len(r) \in Nat
      /\ r[Len(r)] = f
  BY <1>2, <1>3, NewTopFits, LenProperties DEF NewTop
<1>5. PICK p : /\ stack' = [stack EXCEPT ![t] = p] /\ CallsFit(p, t) /\ p[1] = r[1]
  <2>1. CASE Replaces(t, f, r) \/ Ends(t, f, r)
    BY <1>4, <2>1 DEF Replaces, Ends
  <2>2. CASE Executes(t, f, r) \/ CallsJob(t, f, r)
    <3>1. PICK j \in Jobs : /\ stack' = [stack EXCEPT ![t] = Append(r, NewFrame(j))]
                            /\ f.in = "operator()" => f.ip \in Calls(f.code, j)
      BY <2>2 DEF Executes, CallsJob
    <3> QED BY <1>4, <3>1, CallbackFits
  <2> QED BY <1>2, <2>1, <2>2 DEF StackStep
<1>6. stack'[t] = p /\ \A u \in Threads : u # t => stack'[u] = stack[u]
  BY <1>0, <1>5 DEF Stacks
<1>7. CallsInv'
  BY <1>5, <1>6 DEF CallsInv
<1>8. ASSUME NEW k \in Jobs, NEW i \in Calls(t, k),
             i > p[1].ip \/ (i = p[1].ip /\ p[1].in = "operator()")
      PROVE  i > s[1].ip \/ (i = s[1].ip /\ s[1].in = "operator()")
  <2>0. i \in Nat /\ s[1].ip \in Nat /\ f.ip \in Nat
    BY <1>3, <1>8, CallsAre DEF Frame
  <2>1. CASE Len(r) # 1
    BY <1>4, <1>5, <1>8, <2>1
  <2>2. CASE Len(r) = 1
    <3>1. p[1] = f
      BY <1>4, <1>5, <2>2
    <3>2. CASE Replaces(t, f, r)
      <4>1. Top(t) = s[1]
        BY <1>3, <2>2, <3>2 DEF Replaces
      <4> QED BY <1>8, <2>0, <3>1, <3>2, <4>1 DEF Replaces
    <3>3. CASE Ends(t, f, r)
      <4>1. Below(t) = s[1]
        BY <1>3, <2>2, <3>3 DEF Ends, Below
      <4> QED BY <1>8, <2>0, <3>1, <3>3, <4>1 DEF Ends
    <3>4. CASE Executes(t, f, r)
      <4>1. Top(t) = s[1]
        BY <1>3, <2>2, <3>4 DEF Executes
      <4> QED BY <1>8, <3>1, <3>4, <4>1 DEF Executes
    <3>5. CASE CallsJob(t, f, r)
      <4>1. Top(t) = s[1]
        BY <1>3, <2>2, <3>5 DEF CallsJob
      <4> QED BY <1>8, <2>0, <3>1, <3>5, <4>1 DEF CallsJob
    <3> QED BY <1>2, <3>2, <3>3, <3>4, <3>5 DEF StackStep
  <2> QED BY <2>1, <2>2
<1>9. ASSUME NEW u \in Threads, NEW k \in Jobs
      PROVE  CallsLeft(u, k)' \subseteq CallsLeft(u, k)
  <2>1. CASE u = t
    BY <1>3, <1>6, <1>8, <2>1 DEF CallsLeft
  <2>2. CASE u # t
    BY <1>6, <2>2 DEF CallsLeft
  <2> QED BY <2>1, <2>2
<1> QED BY <1>7, <1>9

\* A call of a job with a continuation, when it ends, is the thread's own.
LEMMA CallIsOwn ==
  ASSUME TypeInv, CallsInv, ContinuationsSettled, NEW t \in Threads, Inside(t, "operator()"),
         NEW k, k = Top(t).code, k \notin Throwing, Then[k] # NoJob
  PROVE  /\ k \in Jobs /\ Continues(k)
         /\ Calls(t, k) # {}
         /\ \A u \in Threads : u # t => Calls(u, k) = {}
         /\ \E i : i \in CallsLeft(t, k) /\ (Return(t) => i \notin CallsLeft(t, k)')
<1>0. Stacks
  BY DEF TypeInv, TypeOK, Stacks
<1>1. k \in Jobs
  BY <1>0, FrameBelow
<1>2. PICK s \in Seq(Frame) : s = stack[t] /\ CallsFit(s, t) /\ Shaped(s)
      /\ Depth(t) = Len(s) /\ Len(s) \in Nat /\ Len(s) > 1
  BY <1>0, TopFrame, FrameBelow DEF CallsInv, Depth, Stacks, StackInv
<1>3. PICK d \in 1..Len(s) : d = Len(s) - 1
  <2>1. PICK n \in Nat : n = Len(s) /\ n > 1
    BY <1>2
  <2>2. n - 1 \in 1..n
    BY <2>1
  <2> QED BY <2>1, <2>2
<1>4. d < Len(s) /\ s[d] = Below(t) /\ s[d + 1] = Top(t) /\ s[d].in = "operator()"
  BY <1>0, <1>2, <1>3, FrameBelow DEF Below, Top
<1>5. s[d].ip \in Calls(s[d].code, k)
  BY <1>1, <1>2, <1>4 DEF CallsFit
<1>6. s[d].code \in Threads \cup Jobs
  <2>1. Below(t) \in Frame
    BY <1>0, FrameBelow
  <2> QED BY <1>4, <2>1 DEF Frame
<1>7. Continues(k)
  BY <1>1, <1>5, <1>6 DEF Continues
<1>8. PICK v \in Threads : \A x \in Threads \cup Jobs : Calls(x, k) # {} => x = v
  BY <1>1, <1>7 DEF ContinuationsSettled
<1>9. s[d].code = v
  BY <1>5, <1>6, <1>8
<1>10. d = 1
  <2>1. d > 1 => s[d].code \in Jobs
    BY <1>2 DEF Shaped
  <2>2. s[d].code \notin Jobs
    BY <1>9, JobSystemAssumption
  <2>3. d \in Nat /\ d >= 1
    <3>1. PICK n \in Nat : n = Len(s)
      BY <1>2
    <3> QED BY <1>3, <3>1
  <2> QED BY <2>1, <2>2, <2>3
<1>11. v = t
  BY <1>2, <1>9, <1>10 DEF CallsFit
<1>12. Calls(t, k) # {} /\ \A u \in Threads : u # t => Calls(u, k) = {}
  BY <1>5, <1>8, <1>9, <1>11
<1>13. s[1].ip \in CallsLeft(t, k)
  BY <1>2, <1>4, <1>5, <1>9, <1>10, <1>11 DEF CallsLeft
<1>14. ASSUME Return(t)
       PROVE  s[1].ip \notin CallsLeft(t, k)'
  <2>1. PICK f \in Frame : \E r : NewTop(stack[t], r, f) /\ Ends(t, f, r)
    BY <1>0, <1>14, ReturnEnds
  <2>2. PICK r : NewTop(stack[t], r, f) /\ Ends(t, f, r)
    BY <2>1
  <2>3. stack'[t] = r /\ Len(r) = 1 /\ f.in # "operator()" /\ f.ip = s[1].ip
    BY <1>0, <1>2, <1>3, <1>4, <1>10, <2>2 DEF Ends, Stacks
  <2>4. stack'[t][1] = f
    BY <2>2, <2>3 DEF NewTop
  <2>5. f.ip \in Nat
    BY DEF Frame
  <2> QED BY <2>3, <2>4, <2>5 DEF CallsLeft
<1> QED BY <1>1, <1>2, <1>7, <1>12, <1>13, <1>14

\* So while the calls are settled a continuation is added once.
LEMMA SettledIsOnce ==
  ASSUME TypeInv, ContinueInv, ContinuationsSettled
  PROVE  ContinuedOnce
<1>1. SUFFICES ASSUME NEW t \in Threads, Inside(t, "operator()"), Top(t).code \notin Throwing,
                      Then[Top(t).code] # NoJob
               PROVE  memory[Then[Top(t).code]] = "none"
  BY DEF ContinuedOnce, Called, Thrown
<1>2. PICK k : k = Top(t).code
  OBVIOUS
<1>3. k \in Jobs /\ Continues(k) /\ CallsLeft(t, k) # {}
  BY <1>1, <1>2, CallIsOwn DEF ContinueInv
<1> QED BY <1>2, <1>3 DEF ContinueInv, SettledInv

\* A job that is nowhere yet comes to be by an Add of it, or as a continuation.
LEMMA MemoryStep ==
  ASSUME TypeInv, OwnerInv, NEW t \in Threads, Step(t), NEW x \in Jobs
  PROVE  /\ memory[x] # "none" => memory'[x] # "none"
         /\ memory[x] = "none" /\ memory'[x] # "none" =>
              \/ Starts(t, "add") /\ NextOp(t).job = x
              \/ CallDone(t) /\ Then[Top(t).code] = x
<1>0. Stacks /\ memory \in [Jobs -> {"none", "allocated", "deleted", "leaked"}]
  BY DEF TypeInv, TypeOK, Stacks
<1>1. CASE Add(t)
  BY <1>0, <1>1, NextIsOp DEF Add
<1>2. CASE Run(t) \/ RunReturns(t) \/ TooEarly(t) \/ Execute(t) \/ Again(t) \/ Call(t)
           \/ CallTooEarly(t) \/ CallNotDone(t)
  BY <1>2 DEF Run, RunReturns, TooEarly, Execute, Again, Call, CallTooEarly, CallNotDone, Called, Thrown
<1>3. CASE Remove(t)
  <2>1. Inside(t, "Run") /\ memory' = [memory EXCEPT ![Top(t).code] = "deleted"]
    BY <1>3 DEF Remove, Called, Thrown
  <2>2. /\ Below(t).jobsToRun \in Seq(Jobs) /\ Below(t).jobsToRun # <<>>
        /\ Head(Below(t).jobsToRun) = Top(t).code
    BY <1>0, <2>1, BelowGiven, FrameBelow
  <2>3. Head(Below(t).jobsToRun) \in Range(Below(t).jobsToRun)
    <3>1. PICK q \in Seq(Jobs) : q = Below(t).jobsToRun /\ q # <<>>
      BY <2>2
    <3>2. Head(q) = q[1] /\ DOMAIN q = 1..Len(q) /\ Len(q) \in Nat \ {0}
      BY <3>1, EmptySeq, LenProperties, HeadTailProperties
    <3> QED BY <3>1, <3>2 DEF Range
  <2>4. memory[Top(t).code] = "allocated"
    BY <1>0, <2>1, <2>2, <2>3, BelowGiven
  <2> QED BY <1>0, <2>1, <2>4
<1>4. CASE Throws(t)
  <2>1. Inside(t, "Run")
    BY <1>4 DEF Throws, Called, Thrown
  <2>2. Lost(t) = Range(Below(t).jobsToRun)
    BY DEF Lost, Range
  <2>3. \A j \in Lost(t) : memory[j] = "allocated"
    BY <1>0, <2>1, <2>2, BelowGiven
  <2>4. memory'[x] = IF x \in Lost(t) THEN "leaked" ELSE memory[x]
    BY <1>4 DEF Throws, Called, Thrown
  <2> QED BY <2>3, <2>4
<1>5. CASE Reset(t)
  <2>1. memory'[x] = IF \E i \in DOMAIN jobs : jobs[i] = x THEN "leaked" ELSE memory[x]
    BY <1>5 DEF Reset
  <2>2. (\E i \in DOMAIN jobs : jobs[i] = x) => x \in Range(jobs)
    BY DEF Range
  <2>3. x \in Range(jobs) => memory[x] = "allocated"
    BY <1>0 DEF OwnerInv, Owned
  <2> QED BY <2>1, <2>2, <2>3
<1>6. CASE CallDone(t)
  <2>1. Inside(t, "operator()")
    BY <1>6 DEF CallDone, Called, Thrown
  <2>2. Then[Top(t).code] \in Jobs \cup {NoJob}
    BY <1>0, <2>1, FrameBelow, JobSystemAssumption
  <2> QED BY <1>0, <1>6, <2>2 DEF CallDone, Called, Thrown
<1> QED BY <1>1, <1>2, <1>3, <1>4, <1>5, <1>6 DEF Step

\* A callback uses up a round in Run, or in a call that is not done.
LEMMA RoundsStep ==
  ASSUME TypeInv, OwnerInv, NEW t \in Threads, Step(t), NEW k \in Jobs, k \notin Throwing,
         memory[k] = "none", rounds'[k] # rounds[k]
  PROVE  /\ CallNotDone(t) /\ Top(t).code = k /\ Inside(t, "operator()") /\ Return(t)
         /\ rounds[k] \in Nat \ {0} /\ rounds'[k] = rounds[k] - 1 /\ UNCHANGED memory
<1>0. Stacks /\ rounds \in [Jobs -> Nat]
  BY DEF TypeInv, TypeOK, Stacks
<1>1. Again(t) \/ CallNotDone(t)
  BY DEF Step, Add, Run, RunReturns, TooEarly, Execute, Remove, Throws, Reset, Call, CallTooEarly, CallDone, Called, Thrown
<1>2. ASSUME Again(t) PROVE FALSE
  <2>1. Inside(t, "Run") /\ Top(t).code = k
    BY <1>0, <1>2 DEF Again, Called, Thrown
  <2>2. PICK q \in Seq(Jobs) : q = Below(t).jobsToRun /\ q # <<>> /\ Head(q) = k
    BY <1>0, <2>1, BelowGiven, FrameBelow
  <2>3. Head(q) = q[1] /\ DOMAIN q = 1..Len(q) /\ Len(q) \in Nat \ {0}
    BY <2>2, EmptySeq, LenProperties, HeadTailProperties
  <2>4. k \in Range(Below(t).jobsToRun)
    BY <2>2, <2>3 DEF Range
  <2> QED BY <1>0, <2>1, <2>4, BelowGiven
<1>3. CallNotDone(t)
  BY <1>1, <1>2
<1>4. Top(t).code = k
  BY <1>0, <1>3 DEF CallNotDone, Called, Thrown
<1>5. rounds[k] > 0
  BY <1>3, <1>4 DEF CallNotDone, Called, Thrown
<1>6. rounds' = [rounds EXCEPT ![k] = IF @ > 0 THEN @ - 1 ELSE @]
  BY <1>3, <1>4 DEF CallNotDone, Called, Thrown
<1>7. rounds'[k] = rounds[k] - 1
  BY <1>0, <1>5, <1>6
<1> QED BY <1>0, <1>3, <1>4, <1>5, <1>7 DEF CallNotDone, Called, Thrown

\* A set that has lost one of its elements is smaller.
LEMMA OneLess ==
  ASSUME NEW S, IsFiniteSet(S), NEW T, T \subseteq S, NEW p \in S, p \notin T
  PROVE  Cardinality(S) \in Nat /\ Cardinality(T) \in Nat /\ Cardinality(T) <= Cardinality(S) - 1
         /\ IsFiniteSet(T)
<1>1. T \subseteq S \ {p} /\ IsFiniteSet(S \ {p}) /\ Cardinality(S \ {p}) = Cardinality(S) - 1
  BY FS_RemoveElement
<1> QED BY <1>1, FS_Subset, FS_CardinalityType

\* Every step keeps the calls settled.
LEMMA SettledStep ==
  ASSUME TypeInv, OwnerInv, ContinueInv, ContinuationsSettled, NEW t \in Threads, Step(t)
  PROVE  ContinueInv'
<1>0. /\ Stacks /\ CallsInv /\ SettledInv /\ rounds \in [Jobs -> Nat] /\ rounds' \in [Jobs -> Nat]
  BY StepTypes DEF TypeInv, TypeOK, Stacks, ContinueInv
<1>1. CallsInv' /\ \A u \in Threads, k \in Jobs : CallsLeft(u, k)' \subseteq CallsLeft(u, k)
  BY <1>0, CallsStep
<1>2. ASSUME NEW x \in Jobs, Starts(t, "add"), NextOp(t).job = x, NEW k \in Jobs, Continues(k)
      PROVE  x \notin {k, Then[k]}
  <2>1. /\ Top(t) \in Frame /\ Top(t).ip < Len(Body[Top(t).code]) /\ NextOp(t).op = "add"
    BY <1>0, <1>2, TopFrame DEF Starts, HasNext
  <2>2. Top(t).code \in Threads \cup Jobs /\ Top(t).ip + 1 \in 1..Len(Body[Top(t).code])
    <3>1. Top(t).code \in Threads \cup Jobs /\ Top(t).ip \in Nat
      BY <2>1 DEF Frame
    <3> QED BY <2>1, <3>1, CallsAre
  <2> QED BY <1>2, <2>1, <2>2 DEF ContinuationsSettled, NextOp
<1>3. ASSUME NEW x \in Jobs, CallDone(t), Then[Top(t).code] = x
      PROVE  /\ Top(t).code \in Jobs /\ Continues(Top(t).code)
             /\ Inside(t, "operator()") /\ Return(t) /\ rounds[Top(t).code] = 0
             /\ Top(t).code \notin Throwing /\ Then[Top(t).code] # NoJob
  <2>1. x # NoJob
    BY JobSystemAssumption
  <2> QED BY <1>0, <1>3, <2>1, CallIsOwn DEF CallDone, Called, Thrown
<1>4. ASSUME NEW k \in Jobs, Continues(k)
      PROVE  /\ memory'[k] = "none"
             /\ \A u \in Threads :
                  IF memory'[Then[k]] = "none"
                    THEN Cardinality(CallsLeft(u, k)') <= rounds'[k] + 1
                    ELSE CallsLeft(u, k)' = {}
  <2>1. /\ memory[k] = "none" /\ k \notin Throwing /\ Then[k] \in Jobs /\ Then[k] # NoJob
        /\ \A j \in Jobs : Continues(j) => Then[j] # k /\ (Then[j] = Then[k] => j = k)
    BY <1>0, <1>4, JobSystemAssumption DEF SettledInv, ContinuationsSettled, Continues
  <2>2. memory'[k] = "none"
    BY <1>2, <1>3, <1>4, <2>1, MemoryStep
  <2>3. SUFFICES ASSUME NEW u \in Threads
                 PROVE  IF memory'[Then[k]] = "none"
                          THEN Cardinality(CallsLeft(u, k)') <= rounds'[k] + 1
                          ELSE CallsLeft(u, k)' = {}
    BY <2>2
  <2>4. PICK S : S = CallsLeft(u, k) /\ IsFiniteSet(S) /\ S \subseteq Calls(u, k)
    BY CallsAre, FS_Subset DEF CallsLeft
  <2>5. PICK T : T = CallsLeft(u, k)' /\ T \subseteq S /\ IsFiniteSet(T)
    BY <1>1, <2>4, FS_Subset
  <2>6. Cardinality(T) \in Nat /\ Cardinality(S) \in Nat /\ Cardinality(T) <= Cardinality(S)
    BY <2>4, <2>5, FS_Subset, FS_CardinalityType
  <2>7. IF memory[Then[k]] = "none" THEN Cardinality(S) <= rounds[k] + 1 ELSE S = {}
    BY <1>0, <1>4, <2>4 DEF SettledInv
  <2>8. ASSUME Inside(t, "operator()"), Return(t), Top(t).code = k
        PROVE  IF u = t THEN \E p \in S : p \notin T ELSE S = {} /\ T = {}
    <3>1. CASE u = t
      BY <1>0, <2>1, <2>4, <2>5, <2>8, <3>1, CallIsOwn
    <3>2. CASE u # t
      <4>1. Calls(u, k) = {}
        BY <1>0, <2>1, <2>8, <3>2, CallIsOwn
      <4> QED BY <2>4, <2>5, <3>2, <4>1
    <3> QED BY <3>1, <3>2
  <2>9. CASE memory[Then[k]] # "none"
    <3>1. memory'[Then[k]] # "none" /\ T = {}
      BY <2>1, <2>5, <2>7, <2>9, MemoryStep
    <3> QED BY <2>5, <3>1
  <2>10. CASE memory[Then[k]] = "none" /\ memory'[Then[k]] # "none"
    <3>1. CallDone(t) /\ Then[Top(t).code] = Then[k]
      BY <1>2, <1>4, <2>1, <2>10, MemoryStep
    <3>2. Top(t).code = k /\ Inside(t, "operator()") /\ Return(t) /\ rounds[k] = 0
      BY <1>3, <2>1, <3>1
    <3>3. T = {}
      <4>1. CASE u # t
        BY <2>8, <3>2, <4>1
      <4>2. CASE u = t
        <5>1. PICK p \in S : p \notin T
          BY <2>8, <3>2, <4>2
        <5>2. Cardinality(T) <= Cardinality(S) - 1
          BY <2>4, <2>5, <5>1, OneLess
        <5>3. Cardinality(T) = 0
          BY <2>6, <2>7, <2>10, <3>2, <5>2
        <5> QED BY <2>5, <5>3, FS_EmptySet
      <4> QED BY <4>1, <4>2
    <3> QED BY <2>5, <2>10, <3>3
  <2>11. CASE memory[Then[k]] = "none" /\ memory'[Then[k]] = "none"
    <3>0. rounds[k] \in Nat /\ rounds'[k] \in Nat /\ Cardinality(S) <= rounds[k] + 1
      BY <1>0, <2>7, <2>11
    <3>1. CASE rounds'[k] = rounds[k]
      BY <2>5, <2>6, <2>11, <3>0, <3>1
    <3>2. CASE rounds'[k] # rounds[k]
      <4>1. /\ Inside(t, "operator()") /\ Return(t) /\ Top(t).code = k
            /\ rounds[k] \in Nat \ {0} /\ rounds'[k] = rounds[k] - 1
        BY <2>1, <3>2, RoundsStep
      <4>2. CASE u # t
        <5>1. Cardinality(T) = 0
          BY <2>8, <4>1, <4>2, FS_EmptySet
        <5> QED BY <2>5, <2>11, <3>0, <5>1
      <4>3. CASE u = t
        <5>1. PICK p \in S : p \notin T
          BY <2>8, <4>1, <4>3
        <5>2. Cardinality(T) <= Cardinality(S) - 1
          BY <2>4, <2>5, <5>1, OneLess
        <5> QED BY <2>5, <2>6, <2>11, <3>0, <4>1, <5>2
      <4> QED BY <4>2, <4>3
    <3> QED BY <3>1, <3>2
  <2> QED BY <2>9, <2>10, <2>11
<1>5. SettledInv'
  BY <1>4 DEF SettledInv
<1> QED BY <1>1, <1>5 DEF ContinueInv

LEMMA ContinueNext ==
  TypeInv /\ OwnerInv /\ ContinueInv /\ ContinuationsSettled /\ [Next]_vars => ContinueInv'
<1> SUFFICES ASSUME TypeInv, OwnerInv, ContinueInv, ContinuationsSettled, [Next]_vars
             PROVE  ContinueInv'
  OBVIOUS
<1>1. CASE UNCHANGED <<stack, memory, rounds>>
  <2>1. CallsInv'
    BY <1>1 DEF ContinueInv, CallsInv
  <2>2. \A u \in Threads, k \in Jobs : CallsLeft(u, k)' = CallsLeft(u, k)
    BY <1>1 DEF CallsLeft
  <2>3. SettledInv'
    BY <1>1, <2>2 DEF ContinueInv, SettledInv
  <2> QED BY <2>1, <2>3 DEF ContinueInv
<1>2. ASSUME NEW t \in Threads, Step(t) PROVE ContinueInv'
  BY <1>2, SettledStep
<1>3. ASSUME NEW j \in Jobs, TimePasses(j) PROVE ContinueInv'
  BY <1>1, <1>3 DEF TimePasses
<1> QED BY <1>1, <1>2, <1>3 DEF Next, vars

\* At the start nothing has been added and all calls are left.
LEMMA ContinueInit == Init /\ ContinuationsSettled => ContinueInv
<1> SUFFICES ASSUME Init, ContinuationsSettled PROVE ContinueInv
  OBVIOUS
<1>1. ASSUME NEW t \in Threads
      PROVE  stack[t] = <<NewFrame(t)>> /\ Len(stack[t]) = 1 /\ stack[t][1].code = t
  BY DEF Init, NewFrame
<1>2. CallsInv
  <2> SUFFICES ASSUME NEW t \in Threads PROVE CallsFit(stack[t], t)
    BY DEF CallsInv
  <2>1. ASSUME NEW d \in 1..Len(stack[t]), d < Len(stack[t]) PROVE FALSE
    <3>1. d \in 1..1 /\ d < 1
      BY <1>1, <2>1
    <3> QED BY <3>1
  <2> QED BY <1>1, <2>1 DEF CallsFit
<1>3. ASSUME NEW k \in Jobs, Continues(k), NEW t \in Threads
      PROVE  /\ memory[k] = "none" /\ memory[Then[k]] = "none"
             /\ Cardinality(CallsLeft(t, k)) <= rounds[k] + 1
  <2>1. Then[k] \in Jobs /\ rounds[k] = Rounds[k] /\ Rounds[k] \in Nat
    BY <1>3, JobSystemAssumption DEF Continues, Init
  <2>2. memory[k] = "none" /\ memory[Then[k]] = "none"
    BY <2>1 DEF Init
  <2>3. PICK u \in Threads : /\ \A x \in Threads \cup Jobs : Calls(x, k) # {} => x = u
                             /\ Cardinality(Calls(u, k)) <= Rounds[k] + 1
    BY <1>3 DEF ContinuationsSettled
  <2>4. IsFiniteSet(Calls(t, k)) /\ CallsLeft(t, k) \subseteq Calls(t, k)
    BY CallsAre DEF CallsLeft
  <2>5. /\ Cardinality(CallsLeft(t, k)) \in Nat /\ Cardinality(Calls(t, k)) \in Nat
        /\ Cardinality(CallsLeft(t, k)) <= Cardinality(Calls(t, k))
    BY <2>4, FS_Subset, FS_CardinalityType
  <2>6. CASE t = u
    BY <2>1, <2>2, <2>3, <2>5, <2>6
  <2>7. CASE t # u
    <3>1. Cardinality(Calls(t, k)) = 0
      BY <2>3, <2>7, FS_EmptySet
    <3> QED BY <2>1, <2>2, <2>5, <3>1
  <2> QED BY <2>6, <2>7
<1>4. SettledInv
  BY <1>3 DEF SettledInv, Init, Continues
<1> QED BY <1>2, <1>4 DEF ContinueInv

\* threadjob/Job.h:50-61, Manager.h:34-51.  A program that calls each job with a
\* continuation no more often than it takes, from one thread, and leaves the continuation
\* to the job, adds every continuation once, and then has one pointer to each live job.
THEOREM ContinuedAndOwned == Spec /\ ContinuationsSettled => [](ContinuedOnce /\ OneOwner)
<1>1. Init /\ ContinuationsSettled => TypeInv /\ OwnerInv /\ ContinueInv
  BY InitTypes, InitOwners, ContinueInit
<1>2. TypeInv /\ ContinueInv /\ ContinuationsSettled => ContinuedOnce
  BY SettledIsOnce
<1>3. TypeInv /\ OwnerInv /\ ContinuedOnce /\ [Next]_vars => (TypeInv /\ OwnerInv)'
  BY NextTypes, NextOwners
<1>4. TypeInv /\ OwnerInv /\ ContinueInv /\ ContinuationsSettled /\ [Next]_vars => ContinueInv'
  BY ContinueNext
<1>5. TypeInv /\ OwnerInv => OneOwner
  BY InvIsOneOwner
<1>6. ContinuationsSettled => []ContinuationsSettled
  <2>1. ContinuationsSettled => ContinuationsSettled'
    BY DEF ContinuationsSettled, Continues, Calls
  <2> QED BY <2>1, PTL
<1> QED BY <1>1, <1>2, <1>3, <1>4, <1>5, <1>6, PTL DEF Spec
=============================================================================
