----------------------- MODULE SchedulerSafetyProofs ------------------------
(***************************************************************************)
(* What the Manager promises.  When a wait for 0 ends only with the jobs   *)
(* of its counter done, it is the job service of JobService, and a Queue   *)
(* executes its jobs one after the other.  When a fiber left in GetNextJob *)
(* is resumed by the thread that left it, no fiber is on two threads or    *)
(* resumed where it is not, and the jobs of IO are the IO thread's.        *)
(***************************************************************************)
EXTENDS SchedulerProofs

----------------------------------------------------------------------------
(* The Manager as a job service.                                           *)

\* The code that a fiber runs has left to do what the fiber has.
RestsAre ==
  /\ OneRun => \A x \in Code : \A f \in Fibers : frame[f].job = x => RestOf(x) = Remaining(f)
  /\ \A x : (\A f \in Fibers : frame[f].job # x) => RestOf(x) = <<>>

\* The choice in RestOf is no choice.
LEMMA RestIs == RestsAre
<1>0. \A x : (\A f \in Fibers : frame[f].job # x) => RestOf(x) = <<>>
  BY DEF RestOf
<1>1. SUFFICES ASSUME OneRun, NEW x \in Code, NEW f \in Fibers, frame[f].job = x
               PROVE  RestOf(x) = Remaining(f)
  BY <1>0 DEF RestsAre
<1>2. PICK g : g = CHOOSE h \in Fibers : frame[h].job = x
  OBVIOUS
<1>3. g \in Fibers /\ frame[g].job = x
  BY <1>1, <1>2
<1>4. g = f
  BY <1>1, <1>3, SchedulerAssumption DEF OneRun
<1>5. QED
  BY <1>1, <1>2, <1>4 DEF RestOf

\* What the moves of a fiber are to the codes.
LEMMA RestAfter ==
  ASSUME OneRun, OneRun', NEW f \in Fibers, NEW job, NEW left, NEW phase, After(f, job, left, phase),
         job = frame[f].job \/ frame[f].job = NoJob \/ job = NoJob,
         job = NoJob => Remaining(f) = <<>>,
         frame[f].job # job => \A g \in Fibers : frame[g].job # job \/ job = NoJob,
         NEW x \in Code
  PROVE  RestOf(x)' = IF x = job THEN left ELSE RestOf(x)
<1>1. \A g \in Fibers :
        /\ frame'[g].job = IF g = f THEN job ELSE frame[g].job
        /\ Remaining(g)' = IF g = f THEN left ELSE Remaining(g)
  BY JobsAfter
<1>2. RestsAre'
  BY RestIs, PTL
<1>3. /\ \A g \in Fibers : frame[g].job = x => RestOf(x) = Remaining(g)
      /\ (\A g \in Fibers : frame[g].job # x) => RestOf(x) = <<>>
  BY RestIs DEF RestsAre
<1>4. /\ \A g \in Fibers : frame'[g].job = x => RestOf(x)' = Remaining(g)'
      /\ (\A g \in Fibers : frame'[g].job # x) => RestOf(x)' = <<>>
  BY <1>2 DEF RestsAre
<1>6. NoJob \notin Code
  BY SchedulerAssumption
<1>7. CASE x = job
  BY <1>1, <1>4, <1>7
<1>8. CASE x # job
  <2>1. ASSUME NEW g \in Fibers, frame[g].job = x, g # f
        PROVE  RestOf(x)' = RestOf(x)
    BY <1>1, <1>3, <1>4, <2>1
  <2>2. ASSUME frame[f].job = x
        PROVE  RestOf(x)' = RestOf(x)
    <3>1. job = NoJob /\ Remaining(f) = <<>> /\ RestOf(x) = <<>>
      BY <1>3, <1>6, <1>8, <2>2
    <3>2. \A g \in Fibers : frame'[g].job # x
      BY <1>1, <1>6, <2>2, <3>1 DEF OneRun
    <3>3. QED
      BY <1>4, <3>1, <3>2
  <2>3. ASSUME \A g \in Fibers : frame[g].job # x
        PROVE  RestOf(x)' = RestOf(x)
    BY <1>1, <1>3, <1>4, <1>8, <2>3
  <2>4. QED
    BY <1>8, <2>1, <2>2, <2>3
<1>9. QED
  BY <1>7, <1>8

Rests == [x \in Code |-> RestOf(x)]

\* A wait for 0 that ends in this step, but for a cv.wait that nobody has notified,
\* finds no job of its counter undone.
EndsDone(f) ==
  WaitEnds(f) /\ fpc[f] # "cvWait" =>
    LET op == Head(Remaining(f)) IN
      op.target = 0 =>
        \A j \in Jobs : jobCounter[j] = op.ctr => status[j] \notin {"queued", "started"}

\* A move that keeps the job changes what its code has left,
LEMMA RestKeeps ==
  ASSUME FramesOK, OneRun, OneRun', NEW f \in Fibers, NEW left, NEW phase,
         After(f, frame[f].job, left, phase), frame[f].job \in Code
  PROVE  /\ Rests[frame[f].job] = Remaining(f)
         /\ Rests' = [Rests EXCEPT ![frame[f].job] = left]
<1>1. \A x \in Code : RestOf(x)' = IF x = frame[f].job THEN left ELSE RestOf(x)
  BY RestAfter, SchedulerAssumption
<1>2. RestOf(frame[f].job) = Remaining(f)
  BY RestIs DEF RestsAre
<1>3. Rests' = [x \in Code |-> RestOf(x)']
  BY DEF Rests
<1>4. QED
  BY <1>1, <1>2, <1>3 DEF Rests

\* and one without a job does not.
LEMMA RestSame ==
  ASSUME OneRun, OneRun', NEW f \in Fibers, NEW left, NEW phase,
         After(f, NoJob, left, phase), Remaining(f) = <<>>
  PROVE  Rests' = Rests
<1>1. \A x \in Code : RestOf(x)' = RestOf(x)
  BY RestAfter, SchedulerAssumption
<1>2. QED
  BY <1>1 DEF Rests

\* JobService has the operations of Program under names of its own.
LEMMA ServiceCode ==
  Service!Code = Code /\ Service!Waits = Waits
BY DEF Service!Code, Code, Service!Waits, Waits

\* A Step unfolds to the same operations,
LEMMA ServiceUnfold == \A left, queued : Service!Unfold(left, queued) = Unfold(left, queued)
<1>1. \A ctr, queued : Service!StepOn(ctr, queued) = StepOn(ctr, queued)
  BY DEF Service!StepOn, StepOn, Service!Schedule, Schedule, Service!Wait, Wait
<1>2. QED
  BY <1>1 DEF Service!Unfold, Unfold

\* and the vector changes alike.
LEMMA ServiceChanged == \A op, queued : Service!Changed(op, queued) = Changed(op, queued)
BY DEF Service!Changed, Changed

\* A blocking wait that has come to its cv.wait has scheduled its proxy.
ProxySent ==
  \A f \in Fibers : Phase(f) = "proxied" =>
    /\ Faces(f, {"blockingWait"}) /\ Head(Remaining(f)).proxy \in Jobs
    /\ status[Head(Remaining(f)).proxy] # "new"

\* No job becomes new again.
LEMMA NeverNew ==
  ASSUME status \in [Jobs -> {"new", "queued", "started", "done"}],
         NEW f \in Fibers, Moves(f), NEW j \in Jobs, status[j] # "new"
  PROVE  status'[j] # "new"
BY DEF Moves, Idles, Passes, Submits, SubmitsProxy, Enqueues, Changes, Unfolds, Takes, Finishes, Drops

LEMMA ProxySentMoves ==
  ASSUME SchedInv, ProxySent, NEW f \in Fibers, Moves(f)
  PROVE  ProxySent'
<1>0. FramesOK /\ status \in [Jobs -> {"new", "queued", "started", "done"}]
  BY DEF SchedInv, TypeInv, TypeOK, FramesOK
<1>1. ASSUME NEW g \in Fibers, Phase(g)' = "proxied", Phase(g) = "proxied", Remaining(g)' = Remaining(g)
      PROVE  (Faces(g, {"blockingWait"}) /\ Head(Remaining(g)).proxy \in Jobs
                /\ status[Head(Remaining(g)).proxy] # "new")'
  <2>1. PICK j \in Jobs : j = Head(Remaining(g)).proxy /\ status[j] # "new"
    BY <1>1 DEF ProxySent
  <2>2. status'[j] # "new"
    BY <1>0, <2>1, NeverNew
  <2>3. QED
    BY <1>1, <2>1, <2>2 DEF ProxySent, Faces
<1>2. \A g \in Fibers : g # f => Phase(g)' = Phase(g) /\ Remaining(g)' = Remaining(g)
  BY DEF Moves, Idles, Passes, Submits, SubmitsProxy, Changes, Unfolds, Takes, Finishes, Drops, After
<1>3. ASSUME Phase(f)' = "proxied"
      PROVE  (Faces(f, {"blockingWait"}) /\ Head(Remaining(f)).proxy \in Jobs
                /\ status[Head(Remaining(f)).proxy] # "new")'
  <2>1. CASE Idles(f)
    BY <1>1, <1>3, <2>1 DEF Idles, After
  <2>2. CASE SubmitsProxy(f)
    <3>1. Faces(f, {"blockingWait"}) /\ Remaining(f)' = Remaining(f)
      BY <2>2 DEF SubmitsProxy, After
    <3>2. PICK j \in Jobs : j = Head(Remaining(f)).proxy
      BY <1>0, <3>1, FacesTypes, OpTypes
    <3>3. status'[j] = "queued"
      BY <1>0, <2>2, <3>2 DEF SubmitsProxy, Enqueues
    <3>4. QED
      BY <3>1, <3>2, <3>3 DEF Faces
  <2>3. QED
    BY <1>3, <2>1, <2>2 DEF Moves, Passes, Submits, Changes, Unfolds, Takes, Finishes, Drops, After
<1>4. QED
  BY <1>1, <1>2, <1>3 DEF ProxySent

\* Each move of a fiber is a step of the service, or none.
LEMMA ServiceStep ==
  ASSUME SchedInv, SchedInv', ProxySent, NEW f \in Fibers, Moves(f), EndsDone(f)
  PROVE  [Service!Next]_(Service!vars)
<1>0. /\ TypeOK /\ FramesOK /\ JobInv /\ OneRun /\ OneRun' /\ RunStatus /\ InQueue /\ Once
      /\ status \in [Jobs -> {"new", "queued", "started", "done"}]
      /\ jobCounter \in [Jobs -> Counters \cup {NoCounter}]
      /\ entries \in [Counters -> Seq(Entry)]
  BY DEF SchedInv, TypeInv, TypeOK, FramesOK, JobInv
<1> DEFINE x == frame[f].job
<1>1. CASE Idles(f)
  <2>1. After(f, x, Remaining(f), Phase(f)) /\ UNCHANGED <<program, jobCounter, entries, status>>
    BY <1>1 DEF Idles
  <2>2. CASE x \in Code
    <3>1. Rests' = Rests
      <4>1. Rests[x] = Remaining(f) /\ Rests' = [Rests EXCEPT ![x] = Remaining(f)]
        BY <1>0, <2>1, <2>2, RestKeeps
      <4>2. QED
        BY <2>2, <4>1 DEF Rests
    <3>2. QED
      BY <2>1, <3>1 DEF Service!vars, Rests
  <2>3. CASE x = NoJob
    <3>1. Remaining(f) = <<>>
      <4>1. frame[f].op = NoOp /\ frame[f].rest = <<>>
        BY <1>0, <2>3, FrameFields, SchedulerAssumption DEF JobAt, Executing
      <4>2. QED
        BY <1>0, <4>1, RemainingIs
    <3>2. Rests' = Rests
      BY <1>0, <2>1, <2>3, <3>1, RestSame
    <3>3. QED
      BY <2>1, <3>2 DEF Service!vars, Rests
  <2>4. QED
    BY <1>0, <2>2, <2>3, FrameFields
<1>2. CASE Passes(f)
  <2>1. /\ Faces(f, Waits \cup {"new", "notify", "shutdown"})
        /\ After(f, x, Tail(Remaining(f)), "on")
        /\ UNCHANGED <<program, jobCounter, entries, status>>
    BY <1>2 DEF Passes
  <2>2. /\ x \in Code /\ Remaining(f) # <<>>
        /\ Head(Remaining(f)).op \in Waits \cup {"new", "notify", "shutdown"}
    BY <1>0, <2>1, FacesTypes
  <2>3. Rests[x] = Remaining(f) /\ Rests' = [Rests EXCEPT ![x] = Tail(Remaining(f))]
    BY <1>0, <2>1, <2>2, RestKeeps
  <2>4. Service!Past(x)
    BY <2>2, <2>3 DEF Service!Past, Rests
  <2>5. CASE fpc[f] = "cvWait"
    <3>1. /\ Head(Remaining(f)).op = "blockingWait" /\ Head(Rests[x]).op = "blockingWait"
          /\ Rests[x] # <<>>
          /\ status[Head(Rests[x]).proxy] # "new"
      BY <2>2, <2>3, <2>5 DEF ProxySent, Phase, Faces
    <3>2. Service!WakesUp(x)
      BY <2>1, <2>4, <3>1, ServiceCode DEF Service!WakesUp, Service!Does, Rests
    <3>3. QED
      BY <2>2, <3>2, ServiceCode DEF Service!Next
  <2>6. CASE Head(Remaining(f)).op \in Waits /\ fpc[f] # "cvWait"
    <3>1. Remaining(f)' = Tail(Remaining(f))
      BY <2>1, JobsAfter
    <3>2. WaitEnds(f)
      BY <2>2, <2>6, <3>1 DEF WaitEnds
    <3>3. PICK op : op = Head(Remaining(f)) /\ op = Head(Rests[x])
      BY <2>3
    <3>4. op.target = 0 => Service!Undone(op.ctr) = {}
      BY <2>6, <3>2, <3>3 DEF EndsDone, Service!Undone
    <3>5. Service!Does(x, Waits)
      BY <2>2, <2>3, <2>6, ServiceCode DEF Service!Does, Rests
    <3>6. Service!WaitForCounter(x)
      BY <2>1, <2>4, <3>3, <3>4, <3>5, ServiceCode DEF Service!WaitForCounter, Rests
    <3>7. QED
      BY <2>2, <3>6, ServiceCode DEF Service!Next
  <2>7. CASE Head(Remaining(f)).op \in {"new", "notify", "shutdown"}
    <3>1. Service!Does(x, {"new", "notify", "shutdown"})
      BY <2>2, <2>3, <2>7 DEF Service!Does, Rests
    <3>2. QED
      BY <2>1, <2>2, <2>4, <3>1, ServiceCode DEF Service!Next, Service!Other
  <2>8. QED
    BY <2>2, <2>5, <2>6, <2>7
<1>3. CASE Submits(f)
  <2>1. /\ Faces(f, {"schedule"}) /\ After(f, x, Tail(Remaining(f)), "on")
        /\ Enqueues(Head(Remaining(f)).prio, Head(Remaining(f)).job, Head(Remaining(f)).ctr)
    BY <1>3 DEF Submits
  <2>2. x \in Code /\ Remaining(f) # <<>> /\ Head(Remaining(f)).op = "schedule" /\ Head(Remaining(f)) \in Op
    BY <1>0, <2>1, FacesTypes
  <2>3. Rests[x] = Remaining(f) /\ Rests' = [Rests EXCEPT ![x] = Tail(Remaining(f))]
    BY <1>0, <2>1, <2>2, RestKeeps
  <2>4. Service!Past(x) /\ Service!Does(x, {"schedule"})
    BY <2>2, <2>3 DEF Service!Past, Service!Does, Rests
  <2>5. status[Head(Remaining(f)).job] = "new"
    <3>1. AsksFor(Head(Remaining(f)), Head(Remaining(f)).job)
      BY <2>2, AsksWhat
    <3>2. QED
      BY <1>0, <1>3, <3>1, SubmitNew
  <2>6. Service!Submit(Head(Remaining(f)).job, Head(Remaining(f)).ctr)
    BY <2>1, <2>5 DEF Enqueues, Service!Submit
  <2>7. Service!ScheduleJob(x)
    BY <2>2, <2>3, <2>4, <2>6 DEF Service!ScheduleJob, Rests
  <2>8. QED
    BY <2>2, <2>7, ServiceCode DEF Service!Next
<1>4. CASE SubmitsProxy(f)
  <2>1. /\ Faces(f, {"blockingWait"}) /\ After(f, x, Remaining(f), "proxied")
        /\ Enqueues("high", Head(Remaining(f)).proxy, NoCounter)
    BY <1>4 DEF SubmitsProxy
  <2>2. x \in Code /\ Remaining(f) # <<>> /\ Head(Remaining(f)).op = "blockingWait" /\ Head(Remaining(f)) \in Op
    BY <1>0, <2>1, FacesTypes
  <2>3. Rests[x] = Remaining(f) /\ Rests' = [Rests EXCEPT ![x] = Remaining(f)]
    BY <1>0, <2>1, <2>2, RestKeeps
  <2>4. Rests' = Rests /\ Service!Does(x, {"blockingWait"})
    BY <2>2, <2>3 DEF Service!Does, Rests
  <2>5. status[Head(Remaining(f)).proxy] = "new"
    <3>1. AsksFor(Head(Remaining(f)), Head(Remaining(f)).proxy)
      BY <2>2, AsksWhat
    <3>2. QED
      BY <1>0, <1>4, <3>1, SubmitNew
  <2>6. Service!Submit(Head(Remaining(f)).proxy, NoCounter)
    BY <2>1, <2>5 DEF Enqueues, Service!Submit
  <2>7. Service!ScheduleProxy(x)
    BY <2>2, <2>3, <2>4, <2>6 DEF Service!ScheduleProxy, Rests
  <2>8. QED
    BY <2>2, <2>7, ServiceCode DEF Service!Next
<1>5. CASE Changes(f)
  <2>1. /\ Faces(f, {"add", "erase"}) /\ After(f, x, Tail(Remaining(f)), "on")
        /\ entries' = [entries EXCEPT ![Head(Remaining(f)).ctr] = Changed(Head(Remaining(f)), @)]
        /\ UNCHANGED <<program, jobCounter, status>>
    BY <1>5 DEF Changes
  <2>2. x \in Code /\ Remaining(f) # <<>> /\ Head(Remaining(f)).op \in {"add", "erase"}
    BY <1>0, <2>1, FacesTypes
  <2>3. Rests[x] = Remaining(f) /\ Rests' = [Rests EXCEPT ![x] = Tail(Remaining(f))]
    BY <1>0, <2>1, <2>2, RestKeeps
  <2>4. Service!Past(x) /\ Service!Does(x, {"add", "erase"})
    BY <2>2, <2>3 DEF Service!Past, Service!Does, Rests
  <2>5. Service!Change(x)
    BY <2>1, <2>3, <2>4, ServiceChanged DEF Service!Change, Rests
  <2>6. QED
    BY <2>2, <2>5, ServiceCode DEF Service!Next
<1>6. CASE Unfolds(f)
  <2>1. /\ Faces(f, {"step", "execute"})
        /\ After(f, x, Unfold(Remaining(f), entries[Head(Remaining(f)).ctr]), "on")
        /\ UNCHANGED <<program, jobCounter, entries, status>>
    BY <1>6 DEF Unfolds
  <2>2. x \in Code /\ Remaining(f) # <<>> /\ Head(Remaining(f)).op \in {"step", "execute"}
    BY <1>0, <2>1, FacesTypes
  <2>3. Rests[x] = Remaining(f) /\ Rests' = [Rests EXCEPT ![x] = Unfold(Remaining(f), entries[Head(Remaining(f)).ctr])]
    BY <1>0, <2>1, <2>2, RestKeeps
  <2>4. Service!Does(x, {"step", "execute"})
    BY <2>2, <2>3 DEF Service!Does, Rests
  <2>5. Rests' = [Rests EXCEPT ![x] = Unfold(@, entries[Head(@).ctr])]
    BY <2>2, <2>3 DEF Rests
  <2>6. Service!Step(x)
    BY <2>1, <2>4, <2>5, ServiceUnfold DEF Service!Step, Rests
  <2>7. QED
    BY <2>2, <2>6, ServiceCode DEF Service!Next
<1>7. ASSUME NEW p \in Prio, Takes(f, p)
      PROVE  [Service!Next]_(Service!vars)
  <2>1. PICK j \in Jobs : j = Head(queue[p]) /\ status[j] = "queued" /\ j \in Code
    BY <1>0, <1>7, TakenQueued DEF Takes
  <2>2. /\ After(f, j, program.body[j], "on") /\ frame[f].job = NoJob
        /\ status' = [status EXCEPT ![j] = "started"]
        /\ UNCHANGED <<program, jobCounter, entries>>
    BY <1>7, <2>1 DEF Takes
  <2>3. \A g \in Fibers : frame[g].job # j
    BY <1>0, <2>1 DEF RunStatus
  <2>4. \A y \in Code : RestOf(y)' = IF y = j THEN program.body[j] ELSE RestOf(y)
    BY <1>0, <2>1, <2>2, <2>3, RestAfter, SchedulerAssumption
  <2>5. Rests' = [x1 \in Code |-> RestOf(x1)']
    BY DEF Rests
  <2>6. Rests' = [Rests EXCEPT ![j] = program.body[j]]
    BY <2>4, <2>5 DEF Rests
  <2>7. Service!Start(j)
    BY <2>1, <2>2, <2>6 DEF Service!Start, Rests
  <2>8. QED
    BY <2>7, ServiceCode DEF Service!Next
<1>8. CASE Finishes(f)
  <2>1. /\ x \in Jobs /\ x \in Code /\ Remaining(f) = <<>> /\ Phase(f) = "on"
        /\ After(f, x, <<>>, "ended")
        /\ status' = [status EXCEPT ![x] = "done"]
        /\ UNCHANGED <<program, jobCounter, entries>>
    BY <1>8 DEF Finishes, Code
  <2>2. status[x] = "started"
    BY <1>0, <2>1 DEF RunStatus
  <2>3. Rests[x] = <<>> /\ Rests' = [Rests EXCEPT ![x] = <<>>]
    BY <1>0, <2>1, RestKeeps
  <2>4. Rests' = Rests
    BY <2>1, <2>3 DEF Rests
  <2>5. Service!Finish(x)
    BY <2>1, <2>2, <2>3, <2>4 DEF Service!Finish, Rests
  <2>6. QED
    BY <2>1, <2>5, ServiceCode DEF Service!Next
<1>9. CASE Drops(f)
  <2>1. /\ Remaining(f) = <<>> /\ After(f, NoJob, <<>>, "on")
        /\ UNCHANGED <<program, jobCounter, entries, status>>
    BY <1>9 DEF Drops
  <2>2. Rests' = Rests
    BY <1>0, <2>1, RestSame
  <2>3. QED
    BY <2>1, <2>2 DEF Service!vars, Rests
<1>10. QED
  BY <1>1, <1>2, <1>3, <1>4, <1>5, <1>6, <1>7, <1>8, <1>9 DEF Moves

\* A step that is not a fiber's is no step of the service.
LEMMA ServiceStutter ==
  ASSUME UNCHANGED <<fiberVars, programVars>>
  PROVE  UNCHANGED Service!vars
<1>1. UNCHANGED <<frame, program, jobCounter, entries, status>>
  BY DEF fiberVars, programVars
<1>2. \A g \in Fibers : Remaining(g)' = Remaining(g) /\ frame'[g].job = frame[g].job
  BY <1>1 DEF Remaining
<1>3. \A x \in Code : RestOf(x)' = RestOf(x)
  BY <1>1 DEF RestOf, Remaining
<1>4. Rests' = Rests
  BY <1>3 DEF Rests
<1>5. QED
  BY <1>1, <1>4 DEF Service!vars, Rests

\* So is every step, of a fiber or not.
LEMMA ServiceNext ==
  ASSUME SchedInv, SchedInv', ProxySent, [Next]_vars, \A f \in Fibers : EndsDone(f)
  PROVE  [Service!Next]_(Service!vars)
<1>1. ASSUME NEW t \in Threads, ThreadStep(t)
      PROVE  [Service!Next]_(Service!vars)
  <2>1. CASE running[t] # NoFiber /\ FiberStep(t, running[t])
    <3>1. PICK f \in Fibers : running[t] = f
      BY <2>1 DEF SchedInv, TypeInv, TypeOK
    <3>2. Moves(f)
      BY <2>1, <3>1, StepMoves DEF SchedInv, TypeInv, FramesOK, TypeOK
    <3>3. QED
      BY <3>2, ServiceStep
  <2>2. CASE StartThread(t) \/ Run(t)
    <3>1. UNCHANGED <<fiberVars, programVars>>
      BY <2>2 DEF StartThread, Run
    <3>2. QED
      BY <3>1, ServiceStutter
  <2>3. QED
    BY <1>1, <2>1, <2>2 DEF ThreadStep
<1>2. CASE UNCHANGED vars
  <2>1. UNCHANGED <<fiberVars, programVars>>
    BY <1>2 DEF vars, schedVars
  <2>2. QED
    BY <2>1, ServiceStutter
<1>3. QED
  BY <1>1, <1>2 DEF Next, Terminated

\* ProxySent stays through every step.
LEMMA ProxySentStutter ==
  ASSUME ProxySent, UNCHANGED <<fiberVars, programVars>>
  PROVE  ProxySent'
BY DEF ProxySent, Phase, Faces, Remaining, fiberVars, programVars

LEMMA ProxySentNext ==
  ASSUME SchedInv, ProxySent, [Next]_vars
  PROVE  ProxySent'
<1>1. ASSUME NEW t \in Threads, ThreadStep(t)
      PROVE  ProxySent'
  <2>1. CASE running[t] # NoFiber /\ FiberStep(t, running[t])
    <3>1. PICK f \in Fibers : running[t] = f
      BY <2>1 DEF SchedInv, TypeInv, TypeOK
    <3>2. Moves(f)
      BY <2>1, <3>1, StepMoves DEF SchedInv, TypeInv, FramesOK, TypeOK
    <3>3. QED
      BY <3>2, ProxySentMoves
  <2>2. CASE StartThread(t) \/ Run(t)
    BY <2>2, ProxySentStutter DEF StartThread, Run
  <2>3. QED
    BY <1>1, <2>1, <2>2 DEF ThreadStep
<1>2. QED
  BY <1>1, ProxySentStutter DEF Next, Terminated, vars, schedVars

\* The service starts where the scheduler does.
LEMMA ServiceInit ==
  ASSUME Init
  PROVE  Service!Init /\ ProxySent
<1>0. OneRun /\ FramesOK /\ program \in Programs
  BY InitTypes, InitJobs DEF TypeInv, TypeOK, FramesOK, JobInv
<1>1. PICK main : main = running[MainThread]
  OBVIOUS
<1>2. main \in Fibers
  BY <1>1, FirstOnes
<1>3. \A f \in Fibers :
        /\ frame[f].job = IF f = main THEN MainJob ELSE NoJob
        /\ frame[f].op = NoOp
        /\ frame[f].rest = IF f = main THEN program.body[MainJob] ELSE <<>>
  BY <1>1 DEF Init
<1>4. \A f \in Fibers : Remaining(f) = IF f = main THEN program.body[MainJob] ELSE <<>>
  BY <1>0, <1>3, RemainingIs
<1>5. \A x \in Code : RestOf(x) = IF x = MainJob THEN program.body[x] ELSE <<>>
  BY <1>0, <1>2, <1>3, <1>4, RestIs, SchedulerAssumption DEF RestsAre
<1>6. Rests = [x \in Service!Code |-> IF x = MainJob THEN program.body[x] ELSE <<>>]
  BY <1>5, ServiceCode DEF Rests
<1>7. ProxySent
  BY DEF Init, ProxySent, Phase
<1>8. QED
  BY <1>0, <1>6, <1>7 DEF Init, Service!Init, Rests

\* What WaitMeansDone says of a step.
LEMMA WaitsAreDone == WaitMeansDone => [][\A f \in Fibers : EndsDone(f)]_vars
BY DEF WaitMeansDone, EndsDone

\* Manager.h:116-126, JobService: the waits apart, nothing that the threads, fibers,
\* queues and counters of the Manager do can be seen by a program but as the service
\* does it: a job starts after it was scheduled, once, on what its code is, and every
\* code does its operations in order.  For the waits the theorem needs what
\* WaitMeansDone says of each of them, and no more; a cv.wait that nobody has notified
\* is no more than WakesUp.
THEOREM ServicePromised == Spec /\ WaitMeansDone => IsJobService
<1> DEFINE Done == \A f \in Fibers : EndsDone(f)
<1>1. Init => Service!Init /\ ProxySent
  BY ServiceInit
<1>2. SchedInv /\ ProxySent /\ [Next]_vars => ProxySent'
  BY ProxySentNext
<1>3. SchedInv /\ SchedInv' /\ ProxySent /\ [Next]_vars /\ [Done]_vars
        => [Service!Next]_(Service!vars)
  <2>1. SUFFICES ASSUME SchedInv, SchedInv', ProxySent, [Next]_vars, [Done]_vars
                 PROVE  [Service!Next]_(Service!vars)
    OBVIOUS
  <2>2. CASE Done
    BY <2>1, <2>2, ServiceNext
  <2>3. CASE UNCHANGED vars
    <3>1. UNCHANGED <<fiberVars, programVars>>
      BY <2>3 DEF vars, schedVars
    <3>2. QED
      BY <3>1, ServiceStutter
  <2>4. QED
    BY <2>1, <2>2, <2>3
<1>4. WaitMeansDone => [][Done]_vars
  BY WaitsAreDone
<1> HIDE DEF Done
<1>5. QED
  BY <1>1, <1>2, <1>3, <1>4, SchedulerInvariant, PTL DEF Spec, IsJobService, Service!Spec

----------------------------------------------------------------------------
(* A Queue executes its jobs one after the other.                          *)

\* What is left to a fiber is of the program, or of the Step in progress, and the
\* entries of a Queue were added to it by the program.
From(f) ==
  \A i \in DOMAIN Remaining(f) :
    Remaining(f)[i] \in AllOps \/ \E k \in DOMAIN Remaining(f) : k >= i /\ EraseAt(f, k)
FromProgram == \A f \in Fibers : From(f)
Added ==
  \A c \in Counters : \A i \in DOMAIN entries[c] :
    [op |-> "add", ctr |-> c, entry |-> entries[c][i]] \in AllOps

\* Of the jobs that were added to a Queue only its first can be with the Manager,
\* and it is when a Step has scheduled it and done when the Step has waited for it.
OnlyFirst ==
  \A op \in AllOps : op.op = "add" =>
    \/ status[op.entry.job] \in {"new", "done"}
    \/ entries[op.ctr] # <<>> /\ Head(entries[op.ctr]) = op.entry
FirstAt(f, i) == Head(entries[Remaining(f)[i].ctr]).job
StepWaits ==
  \A f \in Fibers : \A i : EraseAt(f, i) /\ i <= 2 =>
    /\ jobCounter[FirstAt(f, i)] = Remaining(f)[i].ctr
    /\ status[FirstAt(f, i)] # "new"
    /\ i = 1 => status[FirstAt(f, i)] = "done"

QueueInv == FromProgram /\ Added /\ OnlyFirst /\ StepWaits

\* The operations of the program,
LEMMA ProgramOps ==
  ASSUME TypeOK
  PROVE  /\ AllOps \subseteq Op
         /\ \A x \in Code : \A i \in DOMAIN program.body[x] : program.body[x][i] \in AllOps
         /\ \A op \in AllOps : \E x \in Code : \E i \in DOMAIN program.body[x] : op = program.body[x][i]
<1>1. \A x \in Code : \A i \in DOMAIN program.body[x] : program.body[x][i] \in Op
  <2>1. SUFFICES ASSUME NEW x \in Code, NEW i \in DOMAIN program.body[x]
                 PROVE  program.body[x][i] \in Op
    OBVIOUS
  <2>2. program.body[x] \in Seq(Op)
    BY BodyTypes
  <2>3. QED
    BY <2>2, ElementOfSeq, LenProperties
<1>2. QED
  BY <1>1 DEF AllOps

\* of which one asks for a job.
LEMMA OneAsks ==
  ASSUME TypeOK, NEW a \in AllOps, NEW b \in AllOps, NEW j, AsksFor(a, j), AsksFor(b, j)
  PROVE  a = b
<1>1. PICK x \in Code : \E i \in DOMAIN program.body[x] : a = program.body[x][i]
  BY ProgramOps
<1>2. PICK i \in DOMAIN program.body[x] : a = program.body[x][i]
  BY <1>1
<1>3. PICK y \in Code : \E k \in DOMAIN program.body[y] : b = program.body[y][k]
  BY ProgramOps
<1>4. PICK k \in DOMAIN program.body[y] : b = program.body[y][k]
  BY <1>3
<1>5. PICK r \in Submission(program.body[x][i]), s \in Submission(program.body[y][k]) :
        r.job = j /\ s.job = j
  BY <1>2, <1>4 DEF AsksFor
<1>6. x = y /\ i = k
  BY <1>5, BodyTypes DEF ScheduledOnce
<1>7. QED
  BY <1>2, <1>4, <1>6

\* What comes first in the Step in progress of f, by where its erase is.
LEMMA StepFirst ==
  ASSUME FramesOK, Shape, NEW f \in Fibers, NEW k, EraseAt(f, k)
  PROVE  /\ k \in {1, 2, 3} /\ Remaining(f)[k].ctr \in Counters
         /\ entries[Remaining(f)[k].ctr] # <<>>
         /\ k = 1 => Remaining(f)[1].op = "erase"
         /\ k = 2 => Remaining(f)[1] = Wait(Remaining(f)[k].ctr, 0)
         /\ k = 3 => Remaining(f)[1] = Schedule(Head(entries[Remaining(f)[k].ctr]).prio,
                                                 Head(entries[Remaining(f)[k].ctr]).job,
                                                 Remaining(f)[k].ctr)
<1>1. PICK r \in Seq(Op) : r = Remaining(f)
  BY RemainingIs
<1>2. k \in DOMAIN r /\ r[k].op = "erase" /\ ShapeOf(f, k)
  BY <1>1 DEF EraseAt, Shape
<1>3. r[k] \in Op /\ k \in Nat /\ k >= 1
  BY <1>1, <1>2, ElementOfSeq, LenProperties
<1>4. k <= 3
  BY <1>1, <1>2 DEF ShapeOf
<1>5. k \in {1, 2, 3}
  BY <1>3, <1>4
<1>6. /\ k > 1 => r[k - 1] = Wait(r[k].ctr, 0)
      /\ k = 3 => r[1] = Schedule(Head(entries[r[k].ctr]).prio, Head(entries[r[k].ctr]).job, r[k].ctr)
      /\ entries[r[k].ctr] # <<>>
  BY <1>1, <1>2 DEF ShapeOf
<1>7. k = 2 => r[1] = Wait(r[k].ctr, 0)
  BY <1>6
<1>8. r[k].ctr \in Counters
  BY <1>2, <1>3, OpTypes
<1>9. QED
  BY <1>1, <1>2, <1>5, <1>6, <1>7, <1>8

\* The job at the head of a Queue.
LEMMA HeadTypes ==
  ASSUME TypeOK, NEW c \in Counters, entries[c] # <<>>
  PROVE  /\ entries[c] \in Seq(Entry) /\ Head(entries[c]) \in Entry
         /\ Head(entries[c]) = entries[c][1] /\ 1 \in DOMAIN entries[c]
         /\ Head(entries[c]).job \in Jobs /\ Head(entries[c]).prio \in Prio
<1>1. entries[c] \in Seq(Entry)
  BY DEF TypeOK
<1>2. /\ Head(entries[c]) \in Entry /\ Head(entries[c]) = entries[c][1] /\ 1 \in DOMAIN entries[c]
  BY <1>1, TailPlaces, HeadTailProperties
<1>3. QED
  BY <1>1, <1>2 DEF Entry

\* Where the operations left to a fiber come from.
LEMMA FromTail ==
  ASSUME TypeOK, FramesOK, FromProgram, UNCHANGED program, NEW f \in Fibers,
         Remaining(f) # <<>>, Remaining(f)' = Tail(Remaining(f)), NEW i \in DOMAIN Remaining(f)'
  PROVE  Remaining(f)'[i] \in AllOps' \/ \E k \in DOMAIN Remaining(f)' : k >= i /\ EraseAt(f, k)'
<1>1. PICK r \in Seq(Op) : r = Remaining(f)
  BY RemainingIs
<1>2. /\ i \in Nat /\ i >= 1 /\ i + 1 \in DOMAIN r /\ Tail(r)[i] = r[i + 1]
      /\ \A k \in DOMAIN r : k \in Nat
  BY <1>1, TailPlaces
<1>3. CASE r[i + 1] \in AllOps
  BY <1>1, <1>2, <1>3 DEF AllOps
<1>4. CASE \E k \in DOMAIN r : k >= i + 1 /\ EraseAt(f, k)
  <2>1. PICK k \in DOMAIN r : k >= i + 1 /\ EraseAt(f, k)
    BY <1>4
  <2>2. k \in Nat /\ k # 1 /\ k - 1 >= i
    BY <1>2, <2>1
  <2>3. EraseAt(f, k - 1)'
    BY <2>1, <2>2, TailErases
  <2>4. QED
    BY <2>2, <2>3 DEF EraseAt
<1>5. QED
  BY <1>1, <1>2, <1>3, <1>4 DEF FromProgram, From

\* A move leaves to a fiber what was left to it, or unfolds a Step, or begins a job.
LEMMA FromStep ==
  ASSUME TypeOK, FramesOK, JobInv, FromProgram, NEW f \in Fibers, Moves(f)
  PROVE  FromProgram'
<1>0. UNCHANGED program /\ AllOps' = AllOps
  BY DEF Moves, Idles, Passes, Submits, SubmitsProxy, Enqueues, Changes, Unfolds, Takes, Finishes,
     Drops, AllOps
<1>1. \A g \in Fibers : From(g)
  BY DEF FromProgram
<1>2. ASSUME NEW g \in Fibers, Remaining(g)' = Remaining(g)
      PROVE  From(g)'
  <2>1. \A k : EraseAt(g, k)' <=> EraseAt(g, k)
    BY <1>2 DEF EraseAt
  <2>2. QED
    BY <1>0, <1>1, <1>2, <2>1 DEF From
<1>3. ASSUME Remaining(f) # <<>>, Remaining(f)' = Tail(Remaining(f))
      PROVE  From(f)'
  BY <1>0, <1>3, FromTail DEF From
<1>4. ASSUME Remaining(f)' = <<>>
      PROVE  From(f)'
  BY <1>4 DEF From
<1>5. ASSUME Idles(f) \/ SubmitsProxy(f)
      PROVE  From(f)'
  BY <1>2, <1>5, JobsAfter DEF Idles, SubmitsProxy
<1>6. ASSUME Passes(f) \/ Submits(f) \/ Changes(f)
      PROVE  From(f)'
  <2>1. Remaining(f) # <<>> /\ Remaining(f)' = Tail(Remaining(f))
    BY <1>6, JobsAfter DEF Passes, Submits, Changes, Faces
  <2>2. QED
    BY <1>3, <2>1
<1>7. ASSUME Unfolds(f)
      PROVE  From(f)'
  <2>1. PICK r \in Seq(Op) : r = Remaining(f) /\ r # <<>> /\ Head(r).op \in {"step", "execute"}
                             /\ Head(r) \in Op
    BY <1>7, FacesTypes DEF Unfolds
  <2>2. PICK c \in Counters : c = Head(r).ctr
    BY <2>1, OpTypes
  <2>3. Remaining(f)' = Unfold(r, entries[c])
    BY <1>7, <2>1, <2>2, JobsAfter DEF Unfolds
  <2>4. CASE entries[c] = <<>>
    BY <1>3, <2>1, <2>2, <2>3, <2>4 DEF Unfold
  <2>5. CASE entries[c] # <<>>
    <3>1. PICK es \in Seq(Entry) : es = entries[c] /\ es # <<>>
      BY <2>5, HeadTypes
    <3>2. PICK u \in Seq(Op) : u = Remaining(f)'
      BY <2>1, <2>3, <3>1, UnfoldPlaces
    <3>3. u = Unfold(r, es)
      BY <2>3, <3>1, <3>2
    <3>4. 3 \in DOMAIN u /\ u[3].op = "erase"
      <4>1. {1, 2, 3} \subseteq DOMAIN u /\ u[3] = [op |-> "erase", ctr |-> Head(r).ctr]
        BY <2>1, <3>1, <3>3, UnfoldPlaces
      <4>2. QED
        BY <4>1
    <3>5. EraseAt(f, 3)'
      BY <3>2, <3>4 DEF EraseAt
    <3>6. Faces(f, OnQueue)
      BY <1>7 DEF Unfolds, Faces, OnQueue
    <3>7. \A b \in DOMAIN r : r[b] \in AllOps
      <4>1. \A b \in DOMAIN r : ~EraseAt(f, b)
        BY <2>1, <3>6, NoStepYet DEF JobInv
      <4>2. QED
        BY <2>1, <4>1 DEF FromProgram, From
    <3>8. ASSUME NEW i \in DOMAIN u, i > 3
          PROVE  u[i] \in AllOps
      <4>1. \E b : b \in DOMAIN r /\ u[i] = r[b]
        <5>1. PICK b : b = IF Head(r).op = "execute" THEN i - 3 ELSE i - 2
          OBVIOUS
        <5>2. b \in DOMAIN r /\ u[i] = r[b]
          BY <2>1, <3>1, <3>3, <3>8, <5>1, UnfoldPlaces
        <5>3. QED
          BY <5>2
      <4>2. QED
        BY <3>7, <4>1
    <3>9. \A i \in DOMAIN u : i \in Nat
      OBVIOUS
    <3>10. \A i \in DOMAIN u : i > 3 \/ 3 >= i
      BY <3>9
    <3>11. QED
      BY <1>0, <3>2, <3>4, <3>5, <3>8, <3>10 DEF From
  <2>6. QED
    BY <2>4, <2>5
<1>8. ASSUME NEW p \in Prio, Takes(f, p)
      PROVE  From(f)'
  <2>1. PICK j \in Code : j = Head(queue[p])
    BY <1>8, TakenQueued DEF Takes, JobInv
  <2>2. Remaining(f)' = program.body[j]
    BY <1>8, <2>1, JobsAfter DEF Takes
  <2>3. QED
    BY <1>0, <2>2, ProgramOps DEF From
<1>9. ASSUME Finishes(f) \/ Drops(f)
      PROVE  From(f)'
  BY <1>4, <1>9, JobsAfter DEF Finishes, Drops
<1>10. From(f)'
  BY <1>5, <1>6, <1>7, <1>8, <1>9 DEF Moves
<1>11. ASSUME NEW g \in Fibers, g # f
       PROVE  From(g)'
  <2>1. Remaining(g)' = Remaining(g)
    BY <1>11, JobsAfter DEF Moves, Idles, Passes, Submits, SubmitsProxy, Changes, Unfolds, Takes,
       Finishes, Drops
  <2>2. QED
    BY <1>2, <2>1
<1>12. QED
  BY <1>10, <1>11 DEF FromProgram

\* A Queue has what was in it, and what an add of the program adds.
LEMMA AddedStep ==
  ASSUME TypeOK, FramesOK, JobInv, FromProgram, Added, NEW f \in Fibers, Moves(f)
  PROVE  Added'
<1>0. UNCHANGED program /\ AllOps' = AllOps
  BY DEF Moves, Idles, Passes, Submits, SubmitsProxy, Enqueues, Changes, Unfolds, Takes, Finishes,
     Drops, AllOps
<1>1. ASSUME UNCHANGED entries
      PROVE  Added'
  BY <1>0, <1>1 DEF Added
<1>2. CASE Changes(f)
  <2>1. PICK op \in Op : /\ op = Head(Remaining(f)) /\ op = Remaining(f)[1] /\ 1 \in DOMAIN Remaining(f)
                         /\ op.op \in {"add", "erase"}
    BY <1>2, FacesTypes DEF Changes
  <2>2. PICK c \in Counters : c = op.ctr
    BY <2>1, OpTypes
  <2>3. entries' = [entries EXCEPT ![c] = Changed(op, entries[c])]
    BY <1>2, <2>1, <2>2 DEF Changes
  <2>4. PICK es \in Seq(Entry) : es = entries[c]
    BY DEF TypeOK
  <2>5. ASSUME NEW i \in DOMAIN entries'[c]
        PROVE  [op |-> "add", ctr |-> c, entry |-> entries'[c][i]] \in AllOps
    <3>1. entries'[c] = Changed(op, es)
      BY <2>3, <2>4 DEF TypeOK
    <3>2. CASE op.op = "erase"
      <4>1. es # <<>>
        BY <2>1, <2>2, <2>4, <3>2, StepFirst DEF EraseAt, JobInv
      <4>2. entries'[c] = Tail(es)
        BY <3>1, <3>2 DEF Changed
      <4>3. i + 1 \in DOMAIN es /\ entries'[c][i] = es[i + 1]
        BY <2>5, <4>1, <4>2, TailPlaces
      <4>4. QED
        BY <2>4, <4>3 DEF Added
    <3>3. CASE op.op = "add"
      <4>1. entries'[c] = Append(es, op.entry) /\ op.entry \in Entry
        BY <2>1, <3>1, <3>3, OpTypes DEF Changed
      <4>2. (i \in DOMAIN es /\ entries'[c][i] = es[i]) \/ entries'[c][i] = op.entry
        BY <2>5, <4>1, AppendProperties, LenProperties
      <4>3. Faces(f, OnQueue)
        BY <1>2, <2>1, <3>3 DEF Changes, Faces, OnQueue
      <4>4. \A k \in DOMAIN Remaining(f) : ~EraseAt(f, k)
        BY <4>3, NoStepYet DEF JobInv
      <4>5. op \in AllOps
        BY <2>1, <4>4 DEF FromProgram, From
      <4>6. op = [op |-> "add", ctr |-> c, entry |-> op.entry]
        BY <2>1, <2>2, <3>3 DEF Op
      <4>7. QED
        BY <2>4, <4>2, <4>5, <4>6 DEF Added
    <3>4. QED
      BY <2>1, <3>2, <3>3
  <2>6. ASSUME NEW d \in Counters, d # c
        PROVE  entries'[d] = entries[d]
    BY <2>3, <2>6
  <2>7. QED
    BY <1>0, <2>5, <2>6 DEF Added
<1>3. QED
  BY <1>1, <1>2 DEF Moves, Idles, Passes, Submits, SubmitsProxy, Enqueues, Unfolds, Takes, Finishes,
     Drops

\* A job that is added to a Queue is asked for by the add, and then by the Step
\* that schedules it, when it is the first.
LEMMA AddedFirst ==
  ASSUME TypeOK, FramesOK, Shape, FromProgram, Added, NEW f \in Fibers,
         Faces(f, {"schedule", "blockingWait"}), NEW job, AsksFor(Head(Remaining(f)), job),
         NEW op \in AllOps, op.op = "add", op.entry.job = job
  PROVE  entries[op.ctr] # <<>> /\ Head(entries[op.ctr]) = op.entry
<1>0. op \in Op /\ op.entry \in Entry /\ op.ctr \in Counters /\ AsksFor(op, job)
  BY ProgramOps, OpTypes, AsksWhat
<1>1. PICK a \in Op : /\ a = Head(Remaining(f)) /\ a = Remaining(f)[1] /\ 1 \in DOMAIN Remaining(f)
                      /\ a.op \in {"schedule", "blockingWait"}
  BY FacesTypes
<1>2. a \notin AllOps
  BY <1>0, <1>1, OneAsks
<1>3. PICK k \in DOMAIN Remaining(f) : EraseAt(f, k)
  BY <1>1, <1>2 DEF FromProgram, From
<1>4. PICK c \in Counters : c = Remaining(f)[k].ctr
  BY <1>3, StepFirst
<1>5. entries[c] # <<>> /\ a = Schedule(Head(entries[c]).prio, Head(entries[c]).job, c)
  <2>1. /\ k \in {1, 2, 3} /\ entries[c] # <<>>
        /\ k = 1 => a.op = "erase"
        /\ k = 2 => a = Wait(c, 0)
        /\ k = 3 => a = Schedule(Head(entries[c]).prio, Head(entries[c]).job, c)
    BY <1>1, <1>3, <1>4, StepFirst
  <2>2. k = 3
    BY <1>1, <2>1 DEF Wait
  <2>3. QED
    BY <2>1, <2>2
<1>6. a.job = job
  <2>1. a.op = "schedule"
    BY <1>5 DEF Schedule
  <2>2. QED
    BY <1>1, <2>1, AsksWhat
<1>7. PICK b \in AllOps : b = [op |-> "add", ctr |-> c, entry |-> Head(entries[c])]
  BY <1>5, HeadTypes DEF Added
<1>8. AsksFor(b, job)
  <2>1. b \in Op /\ b.op = "add" /\ b.entry.job = job
    BY <1>5, <1>6, <1>7, ProgramOps DEF Schedule
  <2>2. QED
    BY <2>1, AsksWhat
<1>9. b = op
  BY <1>0, <1>8, OneAsks
<1>10. QED
  BY <1>5, <1>7, <1>9

\* A job of a Queue gets to the Manager only when it is the first, and is done
\* when it is erased.
LEMMA OnlyFirstStep ==
  ASSUME TypeOK, FramesOK, JobInv, QueueInv, NEW f \in Fibers, Moves(f)
  PROVE  OnlyFirst'
<1>0. /\ UNCHANGED program /\ AllOps' = AllOps
      /\ Shape /\ Once /\ InQueue /\ FromProgram /\ Added /\ OnlyFirst /\ StepWaits
      /\ status \in [Jobs -> {"new", "queued", "started", "done"}]
      /\ entries \in [Counters -> Seq(Entry)]
  BY DEF Moves, Idles, Passes, Submits, SubmitsProxy, Enqueues, Changes, Unfolds, Takes, Finishes,
     Drops, AllOps, JobInv, QueueInv, TypeOK
<1>1. SUFFICES ASSUME NEW op \in AllOps, op.op = "add"
               PROVE  \/ status'[op.entry.job] \in {"new", "done"}
                      \/ entries'[op.ctr] # <<>> /\ Head(entries'[op.ctr]) = op.entry
  BY <1>0 DEF OnlyFirst
<1>2. op \in Op /\ op.entry \in Entry /\ op.entry.job \in Jobs /\ op.ctr \in Counters
  BY <1>1, ProgramOps, OpTypes DEF Entry
<1>3. \/ status[op.entry.job] \in {"new", "done"}
      \/ entries[op.ctr] # <<>> /\ Head(entries[op.ctr]) = op.entry
  BY <1>0, <1>1 DEF OnlyFirst
<1>4. CASE UNCHANGED <<entries, status>>
  BY <1>3, <1>4
<1>5. CASE Submits(f) \/ SubmitsProxy(f)
  <2>1. PICK prio \in Prio, job \in Jobs, ctr \in Counters \cup {NoCounter} :
          Enqueues(prio, job, ctr) /\ AsksFor(Head(Remaining(f)), job)
    BY <1>0, <1>5, SubmitNew
  <2>2. status' = [status EXCEPT ![job] = "queued"] /\ UNCHANGED entries
    BY <2>1 DEF Enqueues
  <2>3. CASE op.entry.job = job
    <3>1. Faces(f, {"schedule", "blockingWait"})
      BY <1>5 DEF Submits, SubmitsProxy, Faces
    <3>2. entries[op.ctr] # <<>> /\ Head(entries[op.ctr]) = op.entry
      BY <1>0, <1>1, <2>1, <2>3, <3>1, AddedFirst
    <3>3. QED
      BY <2>2, <3>2
  <2>4. CASE op.entry.job # job
    BY <1>0, <1>2, <1>3, <2>2, <2>4
  <2>5. QED
    BY <2>3, <2>4
<1>6. CASE Changes(f)
  <2>1. PICK a \in Op : /\ a = Head(Remaining(f)) /\ a = Remaining(f)[1] /\ 1 \in DOMAIN Remaining(f)
                        /\ a.op \in {"add", "erase"}
    BY <1>6, FacesTypes DEF Changes
  <2>2. PICK c \in Counters : c = a.ctr
    BY <2>1, OpTypes
  <2>3. entries' = [entries EXCEPT ![c] = Changed(a, entries[c])] /\ UNCHANGED status
    BY <1>6, <2>1, <2>2 DEF Changes
  <2>4. CASE op.ctr = c /\ entries[c] # <<>> /\ Head(entries[c]) = op.entry
    <3>1. PICK es \in Seq(Entry) : es = entries[c] /\ es # <<>>
      BY <1>0, <2>4
    <3>2. CASE a.op = "add"
      <4>1. entries'[c] = Append(es, a.entry) /\ a.entry \in Entry
        BY <1>0, <2>1, <2>3, <3>1, <3>2, OpTypes DEF Changed
      <4>2. Append(es, a.entry) # <<>> /\ Head(Append(es, a.entry)) = Head(es)
        BY <3>1, <4>1
      <4>3. QED
        BY <2>4, <3>1, <4>1, <4>2
    <3>3. CASE a.op = "erase"
      <4>1. EraseAt(f, 1) /\ Remaining(f)[1].ctr = c
        BY <2>1, <2>2, <3>3 DEF EraseAt
      <4>2. status[FirstAt(f, 1)] = "done"
        BY <1>0, <4>1 DEF StepWaits
      <4>3. FirstAt(f, 1) = op.entry.job
        BY <2>4, <4>1 DEF FirstAt
      <4>4. QED
        BY <2>3, <4>2, <4>3
    <3>4. QED
      BY <2>1, <3>2, <3>3
  <2>5. CASE op.ctr # c
    BY <1>0, <1>2, <1>3, <2>3, <2>5
  <2>6. QED
    BY <1>3, <2>3, <2>4, <2>5
<1>7. ASSUME NEW p \in Prio, Takes(f, p)
      PROVE  \/ status'[op.entry.job] \in {"new", "done"}
             \/ entries'[op.ctr] # <<>> /\ Head(entries'[op.ctr]) = op.entry
  <2>1. PICK j \in Jobs : j = Head(queue[p]) /\ status[j] = "queued"
    BY <1>0, <1>7, TakenQueued DEF Takes
  <2>2. status' = [status EXCEPT ![j] = "started"] /\ UNCHANGED entries
    BY <1>7, <2>1 DEF Takes
  <2>3. QED
    BY <1>0, <1>2, <1>3, <2>1, <2>2
<1>8. CASE Finishes(f)
  BY <1>0, <1>2, <1>3, <1>8 DEF Finishes
<1>9. QED
  BY <1>4, <1>5, <1>6, <1>7, <1>8 DEF Moves, Idles, Passes, Unfolds, Drops

\* An erase that is left to f after its first operation was left before.
LEMMA TailErased ==
  ASSUME FramesOK, NEW f \in Fibers, Remaining(f) # <<>>,
         Remaining(f)' = Tail(Remaining(f)), NEW n, EraseAt(f, n)'
  PROVE  n \in Nat /\ n >= 1 /\ EraseAt(f, n + 1) /\ Remaining(f)'[n] = Remaining(f)[n + 1]
<1>1. PICK r \in Seq(Op) : r = Remaining(f)
  BY RemainingIs
<1>2. n \in DOMAIN Tail(r) /\ Tail(r)[n].op = "erase"
  BY <1>1 DEF EraseAt
<1>3. n \in Nat /\ n >= 1 /\ n + 1 \in DOMAIN r /\ Tail(r)[n] = r[n + 1]
  BY <1>1, <1>2, TailPlaces
<1>4. QED
  BY <1>1, <1>2, <1>3 DEF EraseAt

\* A Step schedules the first job with the counter of the Queue, and the wait after
\* it is over when the job is done.
LEMMA StepWaitsStep ==
  ASSUME TypeOK, TypeOK', FramesOK, FramesOK', JobInv, JobInv', QueueInv,
         NEW f \in Fibers, Moves(f), EndsDone(f)
  PROVE  StepWaits'
<1>0. /\ Shape /\ Once /\ InQueue /\ OneRun /\ FromProgram /\ Added /\ OnlyFirst /\ StepWaits
      /\ status \in [Jobs -> {"new", "queued", "started", "done"}]
      /\ jobCounter \in [Jobs -> Counters \cup {NoCounter}]
      /\ entries \in [Counters -> Seq(Entry)]
      /\ UNCHANGED program
  BY DEF Moves, Idles, Passes, Submits, SubmitsProxy, Enqueues, Changes, Unfolds, Takes, Finishes,
     Drops, JobInv, QueueInv, TypeOK
\* A Step whose operations and vector stay: its job goes forward.
<1>1. ASSUME NEW g \in Fibers, NEW i, EraseAt(g, i), i <= 2, NEW k,
             Remaining(g)'[k] = Remaining(g)[i], k = 1 => i = 1,
             Head(entries'[Remaining(g)[i].ctr]) = Head(entries[Remaining(g)[i].ctr])
      PROVE  /\ jobCounter'[FirstAt(g, k)'] = Remaining(g)'[k].ctr
             /\ status'[FirstAt(g, k)'] # "new"
             /\ k = 1 => status'[FirstAt(g, k)'] = "done"
  <2>1. PICK c \in Counters : c = Remaining(g)[i].ctr /\ entries[c] # <<>>
    BY <1>0, <1>1, StepFirst
  <2>2. PICK h \in Jobs : h = Head(entries[c]).job
    BY <2>1, HeadTypes
  <2>3. FirstAt(g, i) = h /\ FirstAt(g, k)' = h /\ Remaining(g)'[k].ctr = c
    BY <1>1, <2>1, <2>2 DEF FirstAt
  <2>4. jobCounter[h] = c /\ status[h] # "new" /\ (k = 1 => status[h] = "done")
    BY <1>0, <1>1, <2>1, <2>3 DEF StepWaits
  <2>5. jobCounter'[h] = c /\ status'[h] # "new" /\ (k = 1 => status'[h] = "done")
    <3>1. CASE Submits(f) \/ SubmitsProxy(f)
      <4>1. PICK prio \in Prio, job \in Jobs, ctr \in Counters \cup {NoCounter} :
              Enqueues(prio, job, ctr) /\ status[job] = "new"
        BY <1>0, <3>1, SubmitNew
      <4>2. job # h
        BY <2>4, <4>1
      <4>3. QED
        BY <1>0, <2>4, <4>1, <4>2 DEF Enqueues
    <3>2. ASSUME NEW p \in Prio, Takes(f, p)
          PROVE  jobCounter'[h] = c /\ status'[h] # "new" /\ (k = 1 => status'[h] = "done")
      <4>1. PICK j \in Jobs : j = Head(queue[p]) /\ status[j] = "queued"
        BY <1>0, <3>2, TakenQueued DEF Takes
      <4>2. status' = [status EXCEPT ![j] = "started"] /\ UNCHANGED jobCounter
        BY <3>2, <4>1 DEF Takes
      <4>3. k = 1 => h # j
        BY <2>4, <4>1
      <4>4. QED
        BY <1>0, <2>4, <4>2, <4>3
    <3>3. CASE Finishes(f)
      BY <1>0, <2>4, <3>3 DEF Finishes
    <3>4. QED
      BY <2>4, <3>1, <3>2, <3>3 DEF Moves, Idles, Passes, Changes, Unfolds, Drops
  <2>6. QED
    BY <2>3, <2>5
<1>2. SUFFICES ASSUME NEW g \in Fibers, NEW n, EraseAt(g, n)', n <= 2
               PROVE  /\ jobCounter'[FirstAt(g, n)'] = Remaining(g)'[n].ctr
                      /\ status'[FirstAt(g, n)'] # "new"
                      /\ n = 1 => status'[FirstAt(g, n)'] = "done"
  BY DEF StepWaits
<1>3. CASE g # f
  <2>1. Remaining(g)' = Remaining(g) /\ EraseAt(g, n)
    <3>1. Remaining(g)' = Remaining(g)
      BY <1>3, JobsAfter DEF Moves, Idles, Passes, Submits, SubmitsProxy, Changes, Unfolds, Takes,
         Finishes, Drops
    <3>2. QED
      BY <1>2, <3>1 DEF EraseAt
  <2>2. PICK c \in Counters : c = Remaining(g)[n].ctr /\ entries[c] # <<>>
    BY <1>0, <2>1, StepFirst
  <2>3. CASE UNCHANGED entries
    BY <1>1, <1>2, <2>1, <2>3
  <2>4. CASE Changes(f)
    <3>1. PICK a \in Op : /\ a = Head(Remaining(f)) /\ a = Remaining(f)[1] /\ 1 \in DOMAIN Remaining(f)
                          /\ a.op \in {"add", "erase"}
      BY <2>4, FacesTypes DEF Changes
    <3>2. PICK d \in Counters : d = a.ctr
      BY <3>1, OpTypes
    <3>3. entries' = [entries EXCEPT ![d] = Changed(a, entries[d])]
      BY <2>4, <3>1, <3>2 DEF Changes
    <3>4. Owns(frame[f].job, d)
      BY <1>0, <3>1, <3>2 DEF Shape, ShapeOf, OnQueue
    <3>5. c # d
      BY <1>0, <1>3, <2>1, <2>2, <3>4, OwnErase, BodyTypes
    <3>6. entries'[c] = entries[c]
      BY <1>0, <3>3, <3>5
    <3>7. QED
      BY <1>1, <1>2, <2>1, <2>2, <3>6
  <2>5. QED
    BY <2>3, <2>4 DEF Moves, Idles, Passes, Submits, SubmitsProxy, Enqueues, Unfolds, Takes,
       Finishes, Drops
<1>4. CASE g = f /\ Remaining(f) # <<>> /\ Remaining(f)' = Tail(Remaining(f))
  <2>1. /\ n \in Nat /\ n >= 1 /\ EraseAt(f, n + 1) /\ Remaining(f)'[n] = Remaining(f)[n + 1]
    BY <1>2, <1>4, TailErased
  <2>2. n \in {1, 2} /\ n + 1 \in {2, 3} /\ n + 1 # 1
    BY <1>2, <2>1
  <2>3. PICK c \in Counters : /\ c = Remaining(f)[n + 1].ctr /\ entries[c] # <<>>
                              /\ n = 1 => Remaining(f)[1] = Wait(c, 0)
                              /\ n = 2 => Remaining(f)[1] =
                                   Schedule(Head(entries[c]).prio, Head(entries[c]).job, c)
    BY <1>0, <2>1, StepFirst
  <2>4. PICK h \in Jobs : h = Head(entries[c]).job
    BY <2>3, HeadTypes
  <2>5. 1 \in DOMAIN Remaining(f) /\ Head(Remaining(f)) = Remaining(f)[1]
    BY <1>4, RemainingIs, TailPlaces
  <2>6. CASE Passes(f)
    <3>1. /\ Head(Remaining(f)).op \in Waits \cup {"new", "notify", "shutdown"}
          /\ UNCHANGED <<entries, jobCounter, status>>
      BY <2>6 DEF Passes, Faces
    <3>2. n = 1 /\ Head(Remaining(f)) = Wait(c, 0)
      BY <2>2, <2>3, <2>5, <3>1 DEF Schedule, Waits
    <3>3. jobCounter[h] = c /\ status[h] # "new"
      <4>1. EraseAt(f, 2) /\ Remaining(f)[2].ctr = c
        BY <2>1, <2>3, <3>2
      <4>2. FirstAt(f, 2) = h
        BY <2>4, <4>1 DEF FirstAt
      <4>3. QED
        BY <1>0, <4>1, <4>2 DEF StepWaits
    <3>4. WaitEnds(f)
      BY <1>4, <3>2 DEF WaitEnds, Wait, Waits
    <3>5. status[h] \notin {"queued", "started"}
      <4>1. fpc[f] # "cvWait"
        BY <3>2, RemainingIs, FrameFields DEF JobAt, OpAt, Within, Wait
      <4>2. QED
        BY <3>2, <3>3, <3>4, <4>1 DEF EndsDone, Wait
    <3>6. status[h] = "done"
      BY <1>0, <3>3, <3>5
    <3>7. FirstAt(f, n)' = h /\ Remaining(f)'[n].ctr = c
      BY <2>1, <2>3, <2>4, <3>1 DEF FirstAt
    <3>8. QED
      BY <1>4, <3>1, <3>3, <3>6, <3>7
  <2>7. CASE Submits(f)
    <3>1. Head(Remaining(f)).op = "schedule" /\ UNCHANGED entries
      BY <2>7 DEF Submits, Enqueues, Faces
    <3>2. n = 2 /\ Head(Remaining(f)) = Schedule(Head(entries[c]).prio, h, c)
      BY <2>2, <2>3, <2>4, <2>5, <3>1 DEF Wait
    <3>3. /\ jobCounter' = [jobCounter EXCEPT ![h] = c]
          /\ status' = [status EXCEPT ![h] = "queued"]
      <4>1. Head(Remaining(f)).job = h /\ Head(Remaining(f)).ctr = c
        BY <3>2 DEF Schedule
      <4>2. Enqueues(Head(Remaining(f)).prio, h, c)
        BY <2>7, <4>1 DEF Submits
      <4>3. QED
        BY <4>2 DEF Enqueues
    <3>4. FirstAt(g, n)' = h /\ Remaining(g)'[n].ctr = c
      BY <1>4, <2>1, <2>3, <2>4, <3>1 DEF FirstAt
    <3>5. jobCounter'[h] = c /\ status'[h] = "queued"
      BY <1>0, <3>3
    <3>6. n # 1
      BY <3>2
    <3>7. jobCounter'[FirstAt(g, n)'] = Remaining(g)'[n].ctr
      BY <3>4, <3>5
    <3>8. status'[FirstAt(g, n)'] # "new"
      BY <3>4, <3>5
    <3>9. QED
      BY <3>6, <3>7, <3>8
  <2>8. CASE Changes(f)
    <3>1. Head(Remaining(f)).op \in {"add", "erase"}
      BY <2>8 DEF Changes, Faces
    <3>2. QED
      BY <2>2, <2>3, <2>5, <3>1 DEF Wait, Schedule
  <2>9. CASE Unfolds(f)
    <3>1. Head(Remaining(f)).op \in {"step", "execute"}
      BY <2>9 DEF Unfolds, Faces
    <3>2. QED
      BY <2>2, <2>3, <2>5, <3>1 DEF Wait, Schedule
  <2>10. CASE Idles(f) \/ SubmitsProxy(f) \/ Finishes(f) \/ Drops(f) \/ \E p \in Prio : Takes(f, p)
    <3>1. Remaining(f) = <<>> \/ Remaining(f)' = Remaining(f)
      BY <2>10, JobsAfter DEF Idles, SubmitsProxy, Finishes, Drops, Takes
    <3>2. PICK r \in Seq(Op) : r = Remaining(f)
      BY RemainingIs
    <3>3. Tail(r) # r
      BY <1>4, <3>2, HeadTailProperties, LenProperties
    <3>4. QED
      BY <1>4, <3>1, <3>2, <3>3
  <2>11. QED
    BY <2>6, <2>7, <2>8, <2>9, <2>10 DEF Moves
<1>5. CASE g = f /\ (Idles(f) \/ SubmitsProxy(f))
  <2>1. Remaining(f)' = Remaining(f) /\ UNCHANGED entries
    BY <1>5, JobsAfter DEF Idles, SubmitsProxy, Enqueues
  <2>2. EraseAt(f, n)
    BY <1>2, <1>5, <2>1 DEF EraseAt
  <2>3. QED
    BY <1>1, <1>2, <1>5, <2>1, <2>2
<1>6. CASE g = f /\ (Passes(f) \/ Submits(f) \/ Changes(f))
  <2>1. Remaining(f) # <<>> /\ Remaining(f)' = Tail(Remaining(f))
    BY <1>6, JobsAfter DEF Passes, Submits, Changes, Faces
  <2>2. QED
    BY <1>4, <1>6, <2>1
<1>7. CASE g = f /\ Unfolds(f)
  <2>1. PICK r \in Seq(Op) : r = Remaining(f) /\ r # <<>> /\ Head(r).op \in {"step", "execute"}
                             /\ Head(r) \in Op
    BY <1>7, FacesTypes DEF Unfolds
  <2>2. PICK c \in Counters : c = Head(r).ctr
    BY <2>1, OpTypes
  <2>3. Remaining(f)' = Unfold(r, entries[c])
    BY <1>7, <2>1, <2>2, JobsAfter DEF Unfolds
  <2>4. CASE entries[c] = <<>>
    BY <1>4, <1>7, <2>1, <2>2, <2>3, <2>4 DEF Unfold
  <2>5. CASE entries[c] # <<>>
    <3>1. PICK es \in Seq(Entry) : es = entries[c] /\ es # <<>>
      BY <2>5, HeadTypes
    <3>2. PICK u \in Seq(Op) : u = Remaining(f)' /\ u = Unfold(r, es)
      BY <2>1, <2>3, <3>1, UnfoldPlaces
    <3>3. u[1] = Schedule(Head(es).prio, Head(es).job, Head(r).ctr) /\ u[2] = Wait(Head(r).ctr, 0)
      <4>1. Unfold(r, es)[1] = Schedule(Head(es).prio, Head(es).job, Head(r).ctr)
        BY <2>1, <3>1, UnfoldPlaces
      <4>2. Unfold(r, es)[2] = Wait(Head(r).ctr, 0)
        BY <2>1, <3>1, UnfoldPlaces
      <4>3. QED
        BY <3>2, <4>1, <4>2
    <3>4. n \in DOMAIN u /\ u[n].op = "erase"
      BY <1>2, <1>7, <3>2 DEF EraseAt
    <3>5. n \in {1, 2}
      BY <1>2, <3>4
    <3>6. QED
      BY <3>3, <3>4, <3>5 DEF Schedule, Wait
  <2>6. QED
    BY <2>4, <2>5
<1>8. ASSUME NEW p \in Prio, g = f, Takes(f, p)
      PROVE  FALSE
  <2>1. PICK j \in Code : j = Head(queue[p])
    BY <1>0, <1>8, TakenQueued DEF Takes
  <2>2. Remaining(f)' = program.body[j]
    BY <1>8, <2>1, JobsAfter DEF Takes
  <2>3. n \in DOMAIN program.body[j] /\ program.body[j][n].op = "erase"
    BY <1>2, <1>8, <2>2 DEF EraseAt
  <2>4. QED
    BY <2>3, BodyTypes DEF QueuesOwned
<1>9. ASSUME g = f, Finishes(f) \/ Drops(f)
      PROVE  FALSE
  <2>1. Remaining(f)' = <<>>
    BY <1>9, JobsAfter DEF Finishes, Drops
  <2>2. QED
    BY <1>2, <1>9, <2>1 DEF EraseAt
<1>10. QED
  BY <1>3, <1>5, <1>6, <1>7, <1>8, <1>9 DEF Moves

\* The invariant is about the fibers and the program,
LEMMA QueueInvStays ==
  ASSUME QueueInv, UNCHANGED <<fiberVars, programVars>>
  PROVE  QueueInv'
<1>1. /\ UNCHANGED <<program, frame, entries, status, jobCounter>>
      /\ \A g \in Fibers : Remaining(g)' = Remaining(g)
  BY DEF fiberVars, programVars, Remaining
<1>2. AllOps' = AllOps
  BY <1>1 DEF AllOps
<1>3. \A g \in Fibers : \A i : (EraseAt(g, i)' <=> EraseAt(g, i)) /\ FirstAt(g, i)' = FirstAt(g, i)
  BY <1>1 DEF EraseAt, FirstAt
<1>4. FromProgram' /\ Added' /\ OnlyFirst'
  BY <1>1, <1>2, <1>3 DEF QueueInv, FromProgram, From, Added, OnlyFirst
<1>5. StepWaits'
  BY <1>1, <1>3 DEF QueueInv, StepWaits
<1>6. QED
  BY <1>4, <1>5 DEF QueueInv

\* so that every step keeps it,
LEMMA QueueInvNext ==
  ASSUME SchedInv, SchedInv', QueueInv, [Next]_vars, \A f \in Fibers : EndsDone(f)
  PROVE  QueueInv'
<1>1. ASSUME NEW t \in Threads, ThreadStep(t)
      PROVE  QueueInv' \/ UNCHANGED <<fiberVars, programVars>>
  <2>1. CASE running[t] # NoFiber /\ FiberStep(t, running[t])
    <3>1. PICK f \in Fibers : running[t] = f
      BY <2>1 DEF SchedInv, TypeInv, TypeOK
    <3>2. Moves(f)
      BY <2>1, <3>1, StepMoves DEF SchedInv, TypeInv, FramesOK, TypeOK
    <3>3. TypeOK /\ TypeOK' /\ FramesOK /\ FramesOK' /\ JobInv /\ JobInv'
      BY DEF SchedInv, TypeInv, FramesOK, TypeOK
    <3>4. FromProgram' /\ Added' /\ OnlyFirst'
      BY <3>2, <3>3, FromStep, AddedStep, OnlyFirstStep DEF QueueInv
    <3>5. StepWaits'
      BY <3>2, <3>3, StepWaitsStep
    <3>6. QED
      BY <3>4, <3>5 DEF QueueInv
  <2>2. CASE StartThread(t) \/ Run(t)
    BY <2>2 DEF StartThread, Run
  <2>3. QED
    BY <1>1, <2>1, <2>2 DEF ThreadStep
<1>2. CASE UNCHANGED <<fiberVars, programVars>>
  BY <1>2, QueueInvStays
<1>3. CASE UNCHANGED vars
  BY <1>2, <1>3 DEF vars, schedVars
<1>4. QED
  BY <1>1, <1>2, <1>3 DEF Next, Terminated

\* and it holds at the start.
LEMMA QueueInvInit ==
  ASSUME Init
  PROVE  QueueInv
<1>0. /\ TypeOK /\ FramesOK /\ program \in Programs
      /\ entries = [c \in Counters |-> <<>>] /\ status = [j \in Jobs |-> "new"]
  BY InitTypes DEF Init, TypeInv, TypeOK, FramesOK
<1>1. PICK main : main = running[MainThread]
  OBVIOUS
<1>2. \A f \in Fibers : /\ frame[f].op = NoOp
                        /\ frame[f].rest = IF f = main THEN program.body[MainJob] ELSE <<>>
  BY <1>1 DEF Init
<1>3. \A f \in Fibers : Remaining(f) = IF f = main THEN program.body[MainJob] ELSE <<>>
  BY <1>0, <1>2, RemainingIs
<1>4. MainJob \in Code
  BY DEF Code
<1>5. \A f \in Fibers : \A i \in DOMAIN Remaining(f) :
        Remaining(f)[i] \in AllOps /\ Remaining(f)[i].op # "erase"
  <2>1. \A i \in DOMAIN program.body[MainJob] :
          program.body[MainJob][i] \in AllOps /\ program.body[MainJob][i].op # "erase"
    BY <1>0, <1>4, ProgramOps, BodyTypes DEF QueuesOwned
  <2>2. QED
    BY <1>3, <2>1
<1>6. FromProgram /\ StepWaits
  BY <1>5 DEF FromProgram, From, StepWaits, EraseAt
<1>7. Added
  BY <1>0 DEF Added
<1>8. OnlyFirst
  <2>1. \A op \in AllOps : op.op = "add" => op.entry.job \in Jobs
    BY <1>0, ProgramOps, OpTypes DEF Entry
  <2>2. QED
    BY <1>0, <2>1 DEF OnlyFirst
<1>9. QED
  BY <1>6, <1>7, <1>8 DEF QueueInv

\* README.md:66, Queue.cpp:46-65: where the waits for 0 mean that the jobs are done,
\* Step and Execute never have two jobs of a Queue with the Manager at once, and they
\* take them in the order in which they were added.
THEOREM ExecutesConsecutively == Spec /\ WaitMeansDone => []Consecutive
<1> DEFINE Done == \A f \in Fibers : EndsDone(f)
<1>1. Init => QueueInv
  BY QueueInvInit
<1>2. SchedInv /\ SchedInv' /\ QueueInv /\ [Next]_vars /\ [Done]_vars => QueueInv'
  <2>1. SUFFICES ASSUME SchedInv, SchedInv', QueueInv, [Next]_vars, [Done]_vars
                 PROVE  QueueInv'
    OBVIOUS
  <2>2. CASE UNCHANGED vars
    BY <2>1, <2>2, QueueInvStays DEF vars, schedVars
  <2>3. CASE Done
    BY <2>1, <2>3, QueueInvNext
  <2>4. QED
    BY <2>1, <2>2, <2>3
<1>3. QueueInv => Consecutive
  BY DEF QueueInv, OnlyFirst, Consecutive
<1>4. WaitMeansDone => [][Done]_vars
  BY WaitsAreDone
<1> HIDE DEF Done
<1>5. QED
  BY <1>1, <1>2, <1>3, <1>4, SchedulerInvariant, PTL DEF Spec

----------------------------------------------------------------------------
(* A fiber is resumed where and when it has been left.                     *)

\* Where a fiber has cleaned up and not begun to leave; where it will be resumed.
Plain == { "loop", "io", "high", "ready", "normal", "low", "body", "enqueue", "end",
           "findLast", "lookAgain", "cvEnter", "cvWait", "cvWoken", "joining" }
Resumed == {"fresh", "inGet", "inWait"}

\* A fiber belongs to the thread that is on it, that is about to switch to it, or
\* that has left it and has still to do what is to be done with it.
Chosen(t, f) == running[t] # NoFiber /\ fpc[running[t]] = "switch" /\ tls[t].cur = f
Left(t, f) == /\ running[t] # NoFiber /\ fpc[running[t]] \in Resumed
              /\ tls[t].dest # "none" /\ tls[t].prev = f
Has(t, f) == running[t] = f \/ Chosen(t, f) \/ Left(t, f)

\* The fiber a thread is on, by its place.
OnThread(t, f) ==
  /\ home[f] = t
  /\ fpc[f] # "over"
  /\ fpc[f] # "switch" => tls[t].cur = f
  /\ fpc[f] \in Plain \cup {"adding"} => tls[t].dest = "none"
  /\ fpc[f] = "find" => tls[t].dest = "waiting" /\ tls[t].prev = f
  /\ fpc[f] = "switch" => tls[t].dest = "pool" /\ tls[t].prev = f /\ tls[t].cur \in Fibers
  /\ stored[f] = IF fpc[f] \in {"adding", "find"} THEN "no" ELSE "none"

\* A thread and the fiber it is on agree; one that has yet to find its first fiber has
\* none; no fiber has two threads; what a thread is on it has not chosen or left; what
\* has a thread is not idle; a fiber that was chosen is asleep and no longer stored, one
\* that was left is not free yet; a free fiber is where it can be resumed.
OnFiber == \A t \in Threads : running[t] # NoFiber => OnThread(t, running[t])
Finding == \A t \in Threads : tpc[t] = "find" => running[t] = NoFiber /\ tls[t].dest = "none"
OneHas == \A t, u \in Threads, f \in Fibers : Has(t, f) /\ Has(u, f) => t = u
Moving == \A t \in Threads, f \in Fibers : running[t] = f => ~Chosen(t, f) /\ ~Left(t, f)
Busy == \A t \in Threads, f \in Fibers : Has(t, f) => ~idle[f]
Sleeping == \A t \in Threads, f \in Fibers :
  /\ Chosen(t, f) => fpc[f] = "inWait" /\ stored[f] = "none"
  /\ Left(t, f) => \/ tls[t].dest = "pool" /\ fpc[f] = "inGet" /\ stored[f] = "none"
                   \/ tls[t].dest = "waiting" /\ fpc[f] = "inWait" /\ stored[f] = "no"
Flags == \A f \in Fibers : /\ idle[f] => fpc[f] \in {"fresh", "inGet"} /\ stored[f] = "none"
                           /\ stored[f] = "yes" => fpc[f] = "inWait"

LeftInv == OnFiber /\ Finding /\ OneHas /\ Moving /\ Busy /\ Sleeping /\ Flags

\* What is nobody's can be taken, and what is somebody's is his alone: the property.
LEMMA LeftImplies == ASSUME TypeOK, LeftInv PROVE FiberIsLeft
<1>0. NoFiber \notin Fibers
  BY CounterAssumption
<1>1. \A t \in Threads : running[t] \in Fibers \cup {NoFiber}
  BY DEF TypeOK
<1>2. \A t, u \in Threads : running[t] = running[u] => t = u \/ running[t] = NoFiber
  BY <1>1 DEF LeftInv, OneHas, Has
<1>3. ASSUME NEW f \in Fibers, idle[f] \/ stored[f] = "yes"
      PROVE  /\ \A t \in Threads : running[t] # f
             /\ fpc[f] \in (IF idle[f] THEN {"fresh", "inGet"} ELSE {"inWait"})
  <2>1. ASSUME NEW t \in Threads, running[t] = f PROVE FALSE
    BY <1>0, <1>3, <2>1 DEF LeftInv, OnFiber, OnThread, Busy, Has
  <2>2. QED
    BY <1>3, <2>1 DEF LeftInv, Flags
<1>4. QED
  BY <1>2, <1>3 DEF FiberIsLeft, LeftInv, OnFiber, OnThread

\* A step that moves no fiber.
SameTLS(t) == tls'[t].cur = tls[t].cur /\ tls'[t].prev = tls[t].prev /\ tls'[t].dest = tls[t].dest
Stays ==
  /\ UNCHANGED <<idle, stored, running, home>>
  /\ \A t \in Threads : SameTLS(t)
  /\ \A t \in Threads : tpc'[t] = "find" => tpc[t] = "find"
  /\ \A f \in Fibers : fpc'[f] = fpc[f] \/ {fpc[f], fpc'[f]} \subseteq Plain

\* A step that moves no fiber keeps the invariant.
LEMMA StaysLeft == ASSUME TypeOK, LeftInv, Stays PROVE LeftInv'
<1>0. \A t \in Threads : running[t] \in Fibers \cup {NoFiber}
  BY DEF TypeOK
<1>1. \A t \in Threads, f \in Fibers : /\ Chosen(t, f)' = Chosen(t, f)
                                       /\ Left(t, f)' = Left(t, f)
                                       /\ Has(t, f)' = Has(t, f)
  BY <1>0 DEF Stays, SameTLS, Chosen, Left, Has, Plain, Resumed
<1>2. OnFiber'
  <2>1. SUFFICES ASSUME NEW t \in Threads, running'[t] # NoFiber
                 PROVE  OnThread(t, running[t])'
    BY DEF OnFiber, Stays
  <2>2. PICK f \in Fibers : f = running[t]
    BY <1>0, <2>1 DEF Stays
  <2>3. OnThread(t, f)
    BY <2>1, <2>2 DEF LeftInv, OnFiber, Stays
  <2>4. OnThread(t, f)'
    BY <2>3 DEF OnThread, Stays, SameTLS, Plain
  <2>5. QED
    BY <2>2, <2>4 DEF Stays
<1>3. Finding'
  BY DEF LeftInv, Finding, Stays, SameTLS
<1>4. OneHas' /\ Moving' /\ Busy'
  BY <1>1 DEF LeftInv, OneHas, Moving, Busy, Stays
<1>5. Sleeping' /\ Flags'
  BY <1>1 DEF LeftInv, Sleeping, Flags, Stays, SameTLS, Plain
<1>6. QED
  BY <1>2, <1>3, <1>4, <1>5 DEF LeftInv

\* A step of t that leaves alone what belongs to the other threads.
HasOther(t, f) == \E u \in Threads \ {t} : Has(u, f)
Local(t) ==
  /\ \A u \in Threads \ {t} : /\ running'[u] = running[u] /\ SameTLS(u)
                              /\ tpc'[u] = "find" => tpc[u] = "find"
  /\ \A f \in Fibers : HasOther(t, f) => /\ fpc'[f] = fpc[f] /\ home'[f] = home[f]
                                         /\ stored'[f] = stored[f] /\ idle'[f] = idle[f]
\* What the thread that steps has to see to.
OwnParts(t) ==
  /\ running[t] # NoFiber => OnThread(t, running[t])
  /\ tpc[t] = "find" => running[t] = NoFiber /\ tls[t].dest = "none"
  /\ \A f \in Fibers :
       /\ Has(t, f) => ~idle[f]
       /\ running[t] = f => ~Chosen(t, f) /\ ~Left(t, f)
       /\ Chosen(t, f) => fpc[f] = "inWait" /\ stored[f] = "none"
       /\ Left(t, f) => \/ tls[t].dest = "pool" /\ fpc[f] = "inGet" /\ stored[f] = "none"
                        \/ tls[t].dest = "waiting" /\ fpc[f] = "inWait" /\ stored[f] = "no"

\* The invariant is the parts of all threads, and OneHas and Flags.
LEMMA OwnPartsHold == ASSUME LeftInv, NEW t \in Threads PROVE OwnParts(t)
BY DEF LeftInv, OwnParts, OnFiber, Finding, Moving, Busy, Sleeping

\* It is enough to look at the thread that steps, if its step is a local one.
LEMMA LocalLeft ==
  ASSUME TypeOK, LeftInv, NEW t \in Threads, Local(t), OwnParts(t)', Flags',
         \A f \in Fibers : Has(t, f)' => ~HasOther(t, f)
  PROVE  LeftInv'
<1>0. NoFiber \notin Fibers /\ \A u \in Threads : running[u] \in Fibers \cup {NoFiber}
  BY CounterAssumption DEF TypeOK
<1>1. ASSUME NEW u \in Threads \ {t}
      PROVE  /\ \A f \in Fibers : /\ Chosen(u, f)' = Chosen(u, f)
                                  /\ Left(u, f)' = Left(u, f)
                                  /\ Has(u, f)' = Has(u, f)
             /\ OwnParts(u)'
  <2>1. running'[u] = running[u] /\ SameTLS(u)
    BY DEF Local
  <2>2. running[u] # NoFiber => fpc'[running[u]] = fpc[running[u]]
    BY <1>0 DEF Local, HasOther, Has
  <2>3. \A f \in Fibers : /\ Chosen(u, f)' = Chosen(u, f)
                          /\ Left(u, f)' = Left(u, f)
                          /\ Has(u, f)' = Has(u, f)
    BY <2>1, <2>2 DEF Chosen, Left, Has, SameTLS
  <2>4. OwnParts(u)
    BY OwnPartsHold
  <2>5. ASSUME running'[u] # NoFiber PROVE OnThread(u, running[u])'
    <3>1. PICK f \in Fibers : f = running[u]
      BY <1>0, <2>1, <2>5
    <3>2. OnThread(u, f)
      BY <2>1, <2>4, <2>5, <3>1 DEF OwnParts
    <3>3. home'[f] = home[f] /\ fpc'[f] = fpc[f] /\ stored'[f] = stored[f]
      BY <3>1 DEF Local, HasOther, Has
    <3>4. OnThread(u, f)'
      BY <2>1, <3>2, <3>3 DEF OnThread, SameTLS
    <3>5. QED
      BY <2>1, <3>1, <3>4
  <2>6. tpc'[u] = "find" => running'[u] = NoFiber /\ tls'[u].dest = "none"
    BY <2>1, <2>4 DEF Local, OwnParts, SameTLS
  <2>7. ASSUME NEW f \in Fibers
        PROVE  /\ Has(u, f)' => ~idle'[f]
               /\ running'[u] = f => ~Chosen(u, f)' /\ ~Left(u, f)'
               /\ Chosen(u, f)' => fpc'[f] = "inWait" /\ stored'[f] = "none"
               /\ Left(u, f)' => \/ tls'[u].dest = "pool" /\ fpc'[f] = "inGet" /\ stored'[f] = "none"
                                 \/ tls'[u].dest = "waiting" /\ fpc'[f] = "inWait" /\ stored'[f] = "no"
    <3>1. Has(u, f) => /\ fpc'[f] = fpc[f] /\ stored'[f] = stored[f] /\ idle'[f] = idle[f]
      BY DEF Local, HasOther
    <3>2. Chosen(u, f) \/ Left(u, f) => Has(u, f)
      BY DEF Has
    <3>3. QED
      BY <2>1, <2>3, <2>4, <3>1, <3>2 DEF OwnParts, SameTLS
  <2>8. QED
    BY <2>3, <2>5, <2>6, <2>7 DEF OwnParts
<1>2. OneHas'
  <2>1. SUFFICES ASSUME NEW u \in Threads, NEW v \in Threads, NEW f \in Fibers, Has(u, f)', Has(v, f)'
                 PROVE  u = v
    BY DEF OneHas
  <2>2. CASE u # t /\ v # t
    BY <1>1, <2>1, <2>2 DEF LeftInv, OneHas
  <2>3. CASE u = t /\ v # t
    BY <1>1, <2>1, <2>3 DEF HasOther
  <2>4. CASE u # t /\ v = t
    BY <1>1, <2>1, <2>4 DEF HasOther
  <2>5. QED
    BY <2>2, <2>3, <2>4
<1>3. \A u \in Threads : OwnParts(u)'
  BY <1>1
<1>4. QED
  BY <1>2, <1>3 DEF LeftInv, OwnParts, OnFiber, Finding, Moving, Busy, Sleeping

\* A free fiber has no thread.
LEMMA FreeHasNone ==
  ASSUME LeftInv, NEW f \in Fibers, idle[f] \/ stored[f] = "yes"
  PROVE  /\ \A t \in Threads : ~Has(t, f)
         /\ idle[f] => fpc[f] \in {"fresh", "inGet"} /\ stored[f] = "none"
         /\ stored[f] = "yes" => fpc[f] = "inWait" /\ ~idle[f]
<1>0. NoFiber \notin Fibers
  BY CounterAssumption
<1>1. ASSUME NEW t \in Threads PROVE ~Has(t, f)
  <2>1. CASE running[t] = f
    BY <1>0, <2>1 DEF LeftInv, OnFiber, OnThread, Busy, Has
  <2>2. CASE Chosen(t, f) \/ Left(t, f)
    BY <2>2 DEF LeftInv, Sleeping, Busy, Has
  <2>3. QED
    BY <2>1, <2>2 DEF Has
<1>2. QED
  BY <1>1 DEF LeftInv, Flags

\* A thread that has found a free fiber: what becomes of the one it was on.
FromThread(t) == /\ running[t] = NoFiber /\ tpc[t] = "find" /\ tpc' = [tpc EXCEPT ![t] = "fibers"]
                 /\ UNCHANGED fpc
FromFiber(t, f) == /\ running[t] = f /\ UNCHANGED tpc
                   /\ \/ On(f, "find") /\ Jump(f, "inWait")
                      \/ On(f, "findLast") /\ Jump(f, "over")

\* FindFreeFiber: the idle fiber is nobody's; now it is on t, and the one t was on is left.
LEMMA FindLeft ==
  ASSUME TypeOK, TypeOK', LeftInv, NEW t \in Threads, idle[probe[t]], FindFreeFiber(t), UNCHANGED stored,
         FromThread(t) \/ \E f \in Fibers : FromFiber(t, f)
  PROVE  LeftInv'
<1>0. /\ NoFiber \notin Fibers /\ \A u \in Threads : running[u] \in Fibers \cup {NoFiber}
      /\ idle \in [Fibers -> BOOLEAN] /\ home \in [Fibers -> Threads \cup {NoThread}]
      /\ tpc \in [Threads -> ThreadPC] /\ fpc \in [Fibers -> FiberPC]
      /\ running \in [Threads -> Fibers \cup {NoFiber}] /\ tls \in [Threads -> TLS]
  BY CounterAssumption DEF TypeOK
<1>1. PICK h \in Fibers : h = probe[t]
  BY DEF TypeOK
<1>2. /\ \A f \in Fibers : idle'[f] = IF f = h THEN FALSE ELSE idle[f]
      /\ \A f \in Fibers : home'[f] = IF f = h THEN t ELSE home[f]
      /\ \A u \in Threads : running'[u] = IF u = t THEN h ELSE running[u]
      /\ \A u \in Threads : tls'[u].cur = IF u = t THEN h ELSE tls[u].cur
      /\ \A u \in Threads : tls'[u].prev = tls[u].prev /\ tls'[u].dest = tls[u].dest
  <2>1. /\ idle' = [idle EXCEPT ![h] = FALSE] /\ tls' = [tls EXCEPT ![t].cur = h]
        /\ running' = [running EXCEPT ![t] = h] /\ home' = [home EXCEPT ![h] = t]
    BY <1>1 DEF FindFreeFiber, SwitchTo
  <2>2. QED
    BY <1>0, <2>1 DEF TLS
<1>3. /\ \A u \in Threads : ~Has(u, h)
      /\ fpc[h] \in {"fresh", "inGet"} /\ stored[h] = "none"
  BY <1>1, FreeHasNone
<1>4. OwnParts(t)
  BY OwnPartsHold
<1>5. \A f \in Fibers : running[t] # f => fpc'[f] = fpc[f]
  BY <1>0 DEF FromThread, FromFiber, Jump
<1>6. \A f \in Fibers : running[t] = f => \A u \in Threads \ {t} : ~Has(u, f)
  BY DEF LeftInv, OneHas, Has
<1>7. tpc'[t] # "find" /\ \A u \in Threads \ {t} : tpc'[u] = tpc[u]
  <2>1. CASE FromThread(t)
    BY <1>0, <2>1 DEF FromThread
  <2>2. CASE \E f \in Fibers : FromFiber(t, f)
    BY <1>0, <1>4, <2>2 DEF FromFiber, OwnParts
  <2>3. QED
    BY <2>1, <2>2
<1>8. Local(t)
  BY <1>2, <1>3, <1>5, <1>6, <1>7 DEF Local, SameTLS, HasOther
<1>9. fpc'[h] = fpc[h] /\ h # running[t]
  BY <1>3, <1>5 DEF Has
<1>10. \A f \in Fibers : ~Chosen(t, f)'
  BY <1>2, <1>3, <1>9 DEF Chosen
<1>11. ASSUME NEW f \in Fibers, Left(t, f)'
       PROVE  /\ running[t] = f /\ tls[t].dest = "waiting" /\ fpc'[f] = "inWait" /\ stored[f] = "no"
              /\ ~idle[f]
  <2>1. tls[t].dest # "none" /\ tls[t].prev = f
    BY <1>2, <1>11 DEF Left
  <2>2. FromFiber(t, running[t]) /\ running[t] \in Fibers
    BY <1>4, <2>1 DEF FromThread, FromFiber, OwnParts
  <2>3. OnThread(t, running[t])
    BY <1>0, <1>4, <2>2 DEF OwnParts
  <2>4. fpc[running[t]] = "find" /\ Jump(running[t], "inWait")
    BY <2>1, <2>2, <2>3 DEF FromFiber, OnThread, On, Plain
  <2>5. f = running[t] /\ tls[t].dest = "waiting" /\ stored[f] = "no"
    BY <2>1, <2>3, <2>4 DEF OnThread
  <2>6. QED
    BY <1>0, <1>4, <2>2, <2>4, <2>5 DEF OwnParts, Jump, Has
<1>12. OnThread(t, h)'
  BY <1>2, <1>3, <1>9 DEF OnThread, Plain
<1>13. OwnParts(t)'
  BY <1>1, <1>2, <1>3, <1>7, <1>9, <1>10, <1>11, <1>12 DEF OwnParts, Has
<1>14. Flags'
  <2>1. ASSUME NEW f \in Fibers
        PROVE  /\ idle'[f] => fpc'[f] \in {"fresh", "inGet"} /\ stored'[f] = "none"
               /\ stored'[f] = "yes" => fpc'[f] = "inWait"
    <3>1. CASE running[t] = f
      <4>1. ~idle[f] /\ stored[f] # "yes"
        BY <3>1, FreeHasNone DEF Has
      <4>2. QED
        BY <1>2, <4>1
    <3>2. CASE running[t] # f
      BY <1>2, <1>5, <3>2 DEF LeftInv, Flags
    <3>3. QED
      BY <3>1, <3>2
  <2>2. QED
    BY <2>1 DEF Flags
<1>15. \A f \in Fibers : Has(t, f)' => ~HasOther(t, f)
  BY <1>2, <1>3, <1>6, <1>10, <1>11 DEF Has, HasOther
<1>16. QED
  BY <1>8, <1>13, <1>14, <1>15, LocalLeft

\* The types a step needs.
ThreadsTyped ==
  /\ NoFiber \notin Fibers
  /\ idle \in [Fibers -> BOOLEAN] /\ stored \in [Fibers -> {"none", "no", "yes"}]
  /\ running \in [Threads -> Fibers \cup {NoFiber}] /\ tls \in [Threads -> TLS]
  /\ home \in [Fibers -> Threads \cup {NoThread}]
  /\ tpc \in [Threads -> ThreadPC] /\ fpc \in [Fibers -> FiberPC]

LEMMA TypesOfThreads == ASSUME TypeOK PROVE ThreadsTyped
BY CounterAssumption DEF TypeOK, ThreadsTyped

\* What t is on is its own.
LEMMA OnOne ==
  ASSUME TypeOK, LeftInv, NEW t \in Threads, NEW f \in Fibers, running[t] = f
  PROVE  /\ OnThread(t, f) /\ ~HasOther(t, f) /\ ~idle[f]
         /\ \A g \in Fibers : Has(t, g) => ~HasOther(t, g) /\ ~idle[g]
         /\ tpc[t] # "find"
<1>0. NoFiber \notin Fibers
  BY CounterAssumption
<1>1. OnThread(t, f) /\ ~idle[f] /\ tpc[t] # "find"
  BY <1>0, OwnPartsHold DEF OwnParts, Has
<1>2. \A g \in Fibers : Has(t, g) => ~HasOther(t, g) /\ ~idle[g]
  BY OwnPartsHold DEF OwnParts, LeftInv, OneHas, HasOther
<1>3. QED
  BY <1>1, <1>2 DEF Has

\* A wait begins, and is over at once.
LEMMA WaitLeft ==
  ASSUME TypeOK, LeftInv, NEW t \in Threads, NEW f \in Fibers, running[t] = f, UNCHANGED threadVars,
         \/ On(f, "body") /\ Jump(f, "adding") /\ stored' = [stored EXCEPT ![f] = "no"]
         \/ On(f, "adding") /\ Jump(f, "body") /\ stored' = [stored EXCEPT ![f] = "none"]
  PROVE  LeftInv'
<1>0. ThreadsTyped
  BY TypesOfThreads
<1>1. /\ UNCHANGED <<idle, tls, running, home, tpc>>
      /\ \A g \in Fibers : g # f => fpc'[g] = fpc[g] /\ stored'[g] = stored[g]
      /\ \/ fpc[f] = "body" /\ fpc'[f] = "adding" /\ stored'[f] = "no"
         \/ fpc[f] = "adding" /\ fpc'[f] = "body" /\ stored'[f] = "none"
  BY <1>0 DEF threadVars, On, Jump, ThreadsTyped
<1>2. OnThread(t, f) /\ ~HasOther(t, f) /\ ~idle[f] /\ tpc[t] # "find"
  BY OnOne
<1>3. Local(t)
  BY <1>1, <1>2 DEF Local, SameTLS
<1>4. OnThread(t, f)'
  BY <1>1, <1>2 DEF OnThread, Plain
<1>5. \A g \in Fibers : ~Chosen(t, g)' /\ ~Left(t, g)'
  BY <1>1 DEF Chosen, Left, Resumed
<1>6. OwnParts(t)'
  BY <1>1, <1>2, <1>4, <1>5 DEF OwnParts, Has
<1>7. Flags'
  BY <1>1, <1>2 DEF Flags, LeftInv
<1>8. \A g \in Fibers : Has(t, g)' => ~HasOther(t, g)
  BY <1>1, <1>2, <1>5 DEF Has
<1>9. QED
  BY <1>3, <1>6, <1>7, <1>8, LocalLeft

\* A fiber that waits is to be left.
LEMMA LeavesLeft ==
  ASSUME TypeOK, LeftInv, NEW t \in Threads, NEW f \in Fibers, running[t] = f, WaitLeaves(t, f)
  PROVE  LeftInv'
<1>0. ThreadsTyped
  BY TypesOfThreads
<1>1. /\ UNCHANGED <<idle, stored, running, home, tpc>>
      /\ \A g \in Fibers : g # f => fpc'[g] = fpc[g]
      /\ fpc[f] = "adding" /\ fpc'[f] = "find"
  BY <1>0 DEF WaitLeaves, On, Jump, ThreadsTyped
<1>2. OnThread(t, f) /\ ~HasOther(t, f) /\ ~idle[f] /\ tpc[t] # "find"
  BY OnOne
<1>3. tls[t].cur = f /\ stored[f] = "no" /\ home[f] = t
  BY <1>1, <1>2 DEF OnThread
<1>4. /\ \A u \in Threads \ {t} : SameTLS(u)
      /\ tls'[t].cur = f /\ tls'[t].prev = f /\ tls'[t].dest = "waiting"
  BY <1>0, <1>3 DEF WaitLeaves, ThreadsTyped, TLS, SameTLS
<1>5. Local(t)
  BY <1>1, <1>2, <1>4 DEF Local
<1>6. OnThread(t, f)'
  BY <1>1, <1>3, <1>4 DEF OnThread, Plain
<1>7. \A g \in Fibers : ~Chosen(t, g)' /\ ~Left(t, g)'
  BY <1>1 DEF Chosen, Left, Resumed
<1>8. OwnParts(t)'
  BY <1>1, <1>2, <1>6, <1>7 DEF OwnParts, Has
<1>9. Flags'
  BY <1>1, <1>2, <1>3 DEF Flags, LeftInv
<1>10. \A g \in Fibers : Has(t, g)' => ~HasOther(t, g)
  BY <1>1, <1>2, <1>7 DEF Has
<1>11. QED
  BY <1>5, <1>8, <1>9, <1>10, LocalLeft

\* A stored fiber is taken from the ready list, to be switched to.
LEMMA ReadyLeft ==
  ASSUME TypeOK, LeftInv, NEW t \in Threads, NEW f \in Fibers, running[t] = f, On(f, "ready"),
         NEW i \in DOMAIN tls[t].ready, stored[tls[t].ready[i]] = "yes", ReadyTakes(t, f, i),
         UNCHANGED <<idle, running, home, tpc>>
  PROVE  LeftInv'
<1>0. ThreadsTyped
  BY TypesOfThreads
<1>1. PICK h \in Fibers : h = tls[t].ready[i]
  <2>1. PICK s \in Seq(Fibers) : s = tls[t].ready
    BY <1>0 DEF ThreadsTyped, TLS
  <2>2. s[i] \in Fibers
    BY <2>1, ElementOfSeq
  <2>3. QED
    BY <2>1, <2>2
<1>2. OnThread(t, f) /\ ~HasOther(t, f) /\ ~idle[f] /\ tpc[t] # "find" /\ fpc[f] = "ready"
  BY OnOne DEF On
<1>3. tls[t].cur = f /\ home[f] = t /\ stored[f] = "none"
  BY <1>2 DEF OnThread, Plain
<1>4. \A u \in Threads : ~Has(u, h)
  BY <1>1, FreeHasNone
<1>5. fpc[h] = "inWait" /\ ~idle[h] /\ h # f
  BY <1>1, <1>3, FreeHasNone
<1>6. /\ \A g \in Fibers : g # f => fpc'[g] = fpc[g]
      /\ \A g \in Fibers : g # h => stored'[g] = stored[g]
      /\ fpc'[f] = "switch" /\ stored'[h] = "none"
  BY <1>0, <1>1 DEF ReadyTakes, Jump, ThreadsTyped
<1>7. /\ \A u \in Threads \ {t} : SameTLS(u)
      /\ tls'[t].cur = h /\ tls'[t].prev = f /\ tls'[t].dest = "pool"
  BY <1>0, <1>1, <1>3 DEF ReadyTakes, ThreadsTyped, SameTLS
<1>8. Local(t)
  BY <1>2, <1>4, <1>6, <1>7 DEF Local, HasOther
<1>9. OnThread(t, f)'
  BY <1>3, <1>5, <1>6, <1>7 DEF OnThread, Plain
<1>10. \A g \in Fibers : /\ Chosen(t, g)' => g = h
                         /\ ~Left(t, g)'
  BY <1>6, <1>7 DEF Chosen, Left, Resumed
<1>11. OwnParts(t)'
  BY <1>2, <1>5, <1>6, <1>9, <1>10 DEF OwnParts, Has
<1>12. Flags'
  BY <1>2, <1>5, <1>6 DEF Flags, LeftInv
<1>13. \A g \in Fibers : Has(t, g)' => ~HasOther(t, g)
  BY <1>2, <1>4, <1>10 DEF Has, HasOther
<1>14. QED
  BY <1>8, <1>11, <1>12, <1>13, LocalLeft

\* SwitchToReady: the fiber that was chosen is on t, and the one that chose it is left.
LEMMA SwitchLeft ==
  ASSUME TypeOK, LeftInv, NEW t \in Threads, NEW f \in Fibers, running[t] = f, SwitchToReady(t, f)
  PROVE  LeftInv'
<1>0. ThreadsTyped
  BY TypesOfThreads
<1>2. OnThread(t, f) /\ ~HasOther(t, f) /\ ~idle[f] /\ tpc[t] # "find" /\ fpc[f] = "switch"
  BY OnOne DEF On, SwitchToReady
<1>1. PICK h \in Fibers : h = tls[t].cur
  BY <1>2 DEF OnThread
<1>3. tls[t].dest = "pool" /\ tls[t].prev = f /\ home[f] = t /\ stored[f] = "none"
  BY <1>2 DEF OnThread
<1>4. Chosen(t, h) /\ Has(t, h)
  BY <1>0, <1>1, <1>2 DEF Chosen, Has, ThreadsTyped
<1>5. fpc[h] = "inWait" /\ stored[h] = "none" /\ ~idle[h] /\ ~HasOther(t, h)
  BY <1>4, OwnPartsHold, OnOne DEF OwnParts
<1>6. h # f
  BY <1>2, <1>5
<1>7. /\ UNCHANGED <<idle, stored, tls, tpc>>
      /\ \A g \in Fibers : fpc'[g] = IF g = f THEN "inGet" ELSE fpc[g]
      /\ \A g \in Fibers : home'[g] = IF g = h THEN t ELSE home[g]
      /\ \A u \in Threads : running'[u] = IF u = t THEN h ELSE running[u]
  BY <1>0, <1>1 DEF SwitchToReady, SwitchTo, Jump, ThreadsTyped
<1>8. Local(t)
  BY <1>2, <1>5, <1>7 DEF Local, SameTLS
<1>9. OnThread(t, h)'
  BY <1>1, <1>5, <1>6, <1>7 DEF OnThread, Plain
<1>10. \A g \in Fibers : /\ ~Chosen(t, g)'
                         /\ Left(t, g)' => g = f
  BY <1>3, <1>5, <1>6, <1>7 DEF Chosen, Left, Resumed
<1>11. OwnParts(t)'
  BY <1>2, <1>3, <1>5, <1>6, <1>7, <1>9, <1>10 DEF OwnParts, Has
<1>12. Flags'
  BY <1>2, <1>3, <1>7 DEF Flags, LeftInv
<1>13. \A g \in Fibers : Has(t, g)' => ~HasOther(t, g)
  BY <1>2, <1>5, <1>7, <1>10 DEF Has
<1>14. QED
  BY <1>8, <1>11, <1>12, <1>13, LocalLeft

\* The fiber that was left is idle again or marked stored, and is nobody's.
LEMMA StoreLeft ==
  ASSUME TypeOK, LeftInv, NEW t \in Threads, NEW f \in Fibers, running[t] = f, CleanupTLS(t, f) = t,
         CleanupStore(t, f)
  PROVE  LeftInv'
<1>0. ThreadsTyped
  BY TypesOfThreads
<1>1. PICK p, d : p = tls[t].prev /\ d = tls[t].dest
  OBVIOUS
<1>2. d \in {"none", "waiting", "pool"} /\ p \in Fibers \cup {NoFiber}
  BY <1>0, <1>1 DEF ThreadsTyped, TLS
<1>3. OnThread(t, f) /\ ~HasOther(t, f) /\ ~idle[f] /\ tpc[t] # "find"
  BY OnOne
<1>4. fpc[f] \in Resumed /\ UNCHANGED <<tls, running, home, tpc>>
  BY DEF CleanupStore, Resumed
<1>5. home[f] = t /\ tls[t].cur = f /\ stored[f] = "none"
  BY <1>3, <1>4 DEF OnThread, Resumed
<1>6. /\ \A g \in Fibers : g # f => fpc'[g] = fpc[g]
      /\ d = "none" => fpc'[f] \in Plain
      /\ d # "none" => fpc'[f] \in {"freshClear", "inGetClear", "inWaitClear"}
  <2>1. fpc' = [fpc EXCEPT ![f] = IF d = "none" THEN AfterCleanup[fpc[f]] ELSE Clearing[fpc[f]]]
    BY <1>1 DEF CleanupStore, CleanupEnds, Jump
  <2>2. QED
    BY <1>0, <1>4, <2>1 DEF ThreadsTyped, Resumed, AfterCleanup, Clearing, Plain
<1>7. \A g \in Fibers : /\ idle'[g] = IF d = "pool" /\ g = p THEN TRUE ELSE idle[g]
                        /\ stored'[g] = IF d = "waiting" /\ g = p THEN "yes" ELSE stored[g]
  <2>1. /\ idle' = IF d = "pool" THEN [idle EXCEPT ![p] = TRUE] ELSE idle
        /\ stored' = IF d = "waiting" THEN [stored EXCEPT ![p] = "yes"] ELSE stored
    BY <1>1 DEF CleanupStore
  <2>2. QED
    BY <1>0, <2>1 DEF ThreadsTyped
<1>8. ASSUME d # "none", p \in Fibers
      PROVE  /\ Left(t, p) /\ ~HasOther(t, p) /\ p # f
             /\ \/ d = "pool" /\ fpc[p] = "inGet" /\ stored[p] = "none"
                \/ d = "waiting" /\ fpc[p] = "inWait" /\ stored[p] = "no"
  <2>1. Left(t, p) /\ Has(t, p)
    BY <1>0, <1>1, <1>4, <1>8 DEF Left, Has, ThreadsTyped
  <2>2. QED
    BY <1>1, <1>8, <2>1, OnOne, OwnPartsHold DEF OwnParts
<1>9. Local(t)
  BY <1>2, <1>3, <1>4, <1>6, <1>7, <1>8 DEF Local, SameTLS, HasOther
<1>10. OnThread(t, f)'
  <2>1. stored'[f] = "none"
    BY <1>2, <1>5, <1>7, <1>8
  <2>2. QED
    BY <1>1, <1>4, <1>5, <1>6, <2>1 DEF OnThread, Plain
<1>11. \A g \in Fibers : ~Chosen(t, g)' /\ ~Left(t, g)'
  BY <1>1, <1>4, <1>6 DEF Chosen, Left, Plain, Resumed
<1>12. OwnParts(t)'
  <2>1. ~idle'[f]
    BY <1>2, <1>3, <1>7, <1>8
  <2>2. QED
    BY <1>3, <1>4, <1>10, <1>11, <2>1 DEF OwnParts, Has
<1>13. Flags'
  <2>1. ASSUME NEW g \in Fibers
        PROVE  /\ idle'[g] => fpc'[g] \in {"fresh", "inGet"} /\ stored'[g] = "none"
               /\ stored'[g] = "yes" => fpc'[g] = "inWait"
    <3>1. CASE g = f
      BY <1>2, <1>3, <1>5, <1>7, <1>8, <3>1
    <3>2. CASE g # f /\ g = p /\ d # "none"
      <4>1. ~idle[p]
        BY <1>8, <3>2, OwnPartsHold DEF OwnParts, Has
      <4>2. QED
        BY <1>6, <1>7, <1>8, <3>2, <4>1
    <3>3. CASE g # f /\ (g # p \/ d = "none")
      BY <1>6, <1>7, <3>3 DEF LeftInv, Flags
    <3>4. QED
      BY <3>1, <3>2, <3>3
  <2>2. QED
    BY <2>1 DEF Flags
<1>14. \A g \in Fibers : Has(t, g)' => ~HasOther(t, g)
  BY <1>3, <1>4, <1>11 DEF Has
<1>15. QED
  BY <1>9, <1>12, <1>13, <1>14, LocalLeft

\* What was left has been seen to: t has cleared its fields and goes on.
LEMMA ClearLeft ==
  ASSUME TypeOK, LeftInv, NEW t \in Threads, NEW f \in Fibers, running[t] = f, CleanupTLS(t, f) = t,
         CleanupClear(t, f)
  PROVE  LeftInv'
<1>0. ThreadsTyped
  BY TypesOfThreads
<1>1. fpc[f] \in {"freshClear", "inGetClear", "inWaitClear"} /\ UNCHANGED <<idle, stored, running, home, tpc>>
  BY DEF CleanupClear
<1>2. OnThread(t, f) /\ ~HasOther(t, f) /\ ~idle[f] /\ tpc[t] # "find"
  BY OnOne
<1>3. home[f] = t /\ tls[t].cur = f /\ stored[f] = "none"
  BY <1>1, <1>2 DEF OnThread
<1>4. /\ \A g \in Fibers : g # f => fpc'[g] = fpc[g]
      /\ fpc'[f] \in Plain
  <2>1. fpc' = [fpc EXCEPT ![f] = AfterCleanup[fpc[f]]]
    BY DEF CleanupClear, CleanupEnds, Jump
  <2>2. QED
    BY <1>0, <1>1, <2>1 DEF ThreadsTyped, AfterCleanup, Plain
<1>5. /\ \A u \in Threads \ {t} : SameTLS(u)
      /\ tls'[t].cur = f /\ tls'[t].dest = "none"
  <2>1. tls' = [tls EXCEPT ![t].prev = NoFiber, ![t].dest = "none"]
    BY DEF CleanupClear
  <2>2. QED
    BY <1>0, <1>3, <2>1 DEF ThreadsTyped, TLS, SameTLS
<1>6. Local(t)
  BY <1>1, <1>2, <1>4, <1>5 DEF Local
<1>7. OnThread(t, f)'
  BY <1>1, <1>3, <1>4, <1>5 DEF OnThread, Plain
<1>8. \A g \in Fibers : ~Chosen(t, g)' /\ ~Left(t, g)'
  BY <1>1, <1>4 DEF Chosen, Left, Plain, Resumed
<1>9. OwnParts(t)'
  BY <1>1, <1>2, <1>7, <1>8 DEF OwnParts, Has
<1>10. Flags'
  BY <1>1, <1>2, <1>3, <1>4 DEF Flags, LeftInv
<1>11. \A g \in Fibers : Has(t, g)' => ~HasOther(t, g)
  BY <1>1, <1>2, <1>8 DEF Has
<1>12. QED
  BY <1>6, <1>9, <1>10, <1>11, LocalLeft

\* The thread goes back to its own fiber, for good.
LEMMA BackLeft ==
  ASSUME TypeOK, LeftInv, NEW t \in Threads, NEW f \in Fibers, running[t] = f,
         On(f, "loop") \/ On(f, "body"), SwitchBack(t, f), UNCHANGED <<idle, stored, home, tls>>
  PROVE  LeftInv'
<1>0. ThreadsTyped
  BY TypesOfThreads
<1>1. OnThread(t, f) /\ ~HasOther(t, f) /\ ~idle[f] /\ tpc[t] # "find" /\ fpc[f] \in {"loop", "body"}
  BY OnOne DEF On
<1>2. home[f] = t /\ stored[f] = "none"
  BY <1>1 DEF OnThread
<1>3. /\ \A u \in Threads : running'[u] = IF u = t THEN NoFiber ELSE running[u]
      /\ \A g \in Fibers : fpc'[g] = IF g = f THEN "over" ELSE fpc[g]
      /\ \A u \in Threads : tpc'[u] = "find" => tpc[u] = "find" /\ u # t
  BY <1>0, <1>2 DEF SwitchBack, Jump, ThreadsTyped
<1>4. Local(t)
  BY <1>1, <1>3 DEF Local, SameTLS
<1>5. \A g \in Fibers : ~Has(t, g)' /\ ~Chosen(t, g)' /\ ~Left(t, g)'
  BY <1>0, <1>3 DEF Has, Chosen, Left, ThreadsTyped
<1>6. OwnParts(t)'
  BY <1>3, <1>5 DEF OwnParts, Has
<1>7. Flags'
  BY <1>1, <1>2, <1>3 DEF Flags, LeftInv
<1>8. QED
  BY <1>4, <1>5, <1>6, <1>7, LocalLeft

\* Most steps move no fiber.
LEMMA PlainStays ==
  ASSUME TypeOK, NEW f \in Fibers, fpc[f] \in Plain, UNCHANGED <<idle, tls, stored, running, home, tpc>>,
         UNCHANGED fpc \/ \E pc \in Plain : Jump(f, pc)
  PROVE  Stays
<1>0. ThreadsTyped
  BY TypesOfThreads
<1>1. QED
  BY <1>0 DEF Stays, SameTLS, Jump, ThreadsTyped

\* Every step of a fiber that cleans up with the TLS of its own thread keeps the invariant.
LEMMA StepLeft ==
  ASSUME TypeOK, TypeOK', LeftInv, NEW t \in Threads, NEW f \in Fibers, running[t] = f,
         CleanupTLS(t, f) = t, FiberStep(t, f)
  PROVE  LeftInv'
<1>0. ThreadsTyped
  BY TypesOfThreads
<1>1. CASE CleanupStore(t, f)
  BY <1>1, StoreLeft
<1>2. CASE CleanupClear(t, f)
  BY <1>2, ClearLeft
<1>3. CASE Loop(t, f)
  <2>1. CASE SwitchBack(t, f)
    BY <1>3, <2>1, BackLeft DEF Loop
  <2>2. CASE NextTurn(t, f, IF t = IOThread THEN "io" ELSE "high")
    <3>1. /\ fpc[f] \in Plain /\ UNCHANGED <<idle, tls, stored, running, home, tpc>>
          /\ \E pc \in Plain : Jump(f, pc)
      BY <1>3, <2>2 DEF Loop, NextTurn, On, Plain
    <3>2. QED
      BY <3>1, PlainStays, StaysLeft
  <2>3. QED
    BY <1>3, <2>1, <2>2 DEF Loop
<1>4. CASE DequeueIO(t, f) \/ DequeueHigh(t, f) \/ DequeueNormal(t, f) \/ DequeueLow(t, f)
  <2>1. /\ fpc[f] \in Plain /\ UNCHANGED <<idle, tls, stored, running, home, tpc>>
        /\ \E pc \in Plain : Jump(f, pc)
    BY <1>4 DEF DequeueIO, DequeueHigh, DequeueNormal, DequeueLow, Dequeue, On, Plain, threadVars
  <2>2. QED
    BY <2>1, PlainStays, StaysLeft
<1>5. CASE ScanReady(t, f)
  <2>1. PICK i : i = frame[f].scan + 1
    OBVIOUS
  <2>2. On(f, "ready") /\ UNCHANGED <<idle, running, home, tpc>>
    BY <1>5 DEF ScanReady
  <2>3. CASE ReadyEnds(f) \/ ReadySkips(f)
    <3>1. /\ fpc[f] \in Plain /\ UNCHANGED <<idle, tls, stored, running, home, tpc>>
          /\ UNCHANGED fpc \/ \E pc \in Plain : Jump(f, pc)
      BY <2>2, <2>3 DEF ReadyEnds, ReadySkips, On, Plain
    <3>2. QED
      BY <3>1, PlainStays, StaysLeft
  <2>4. CASE i <= Len(tls[t].ready) /\ stored[tls[t].ready[i]] = "yes" /\ ReadyTakes(t, f, i)
    <3>1. i \in DOMAIN tls[t].ready
      <4>1. frame[f].scan \in Nat /\ tls[t].ready \in Seq(Fibers)
        BY <1>0 DEF TypeOK, Frame, ThreadsTyped, TLS
      <4>2. QED
        BY <2>1, <2>4, <4>1
    <3>2. QED
      BY <2>2, <2>4, <3>1, ReadyLeft
  <2>5. QED
    BY <1>5, <2>1, <2>3, <2>4 DEF ScanReady
<1>6. CASE SwitchToReady(t, f)
  BY <1>6, SwitchLeft
<1>7. CASE ScheduleCount(t, f) \/ ScheduleUncounted(t, f) \/ ScheduleJob(t, f)
  <2>1. /\ fpc[f] \in Plain /\ UNCHANGED <<idle, tls, stored, running, home, tpc>>
        /\ UNCHANGED fpc \/ \E pc \in Plain : Jump(f, pc)
    BY <1>7 DEF ScheduleCount, ScheduleUncounted, ScheduleJob, Starts, On, Plain, threadVars
  <2>2. QED
    BY <2>1, PlainStays, StaysLeft
<1>8. CASE WaitNot(t, f) \/ BlockingWaits(t, f) \/ LookAgain(t, f) \/ CvWait(t, f) \/ CvReturns(t, f)
  <2>1. /\ fpc[f] \in Plain /\ UNCHANGED <<idle, tls, stored, running, home, tpc>>
        /\ UNCHANGED fpc \/ \E pc \in Plain : Jump(f, pc)
    BY <1>8 DEF WaitNot, BlockingWaits, LookAgain, CvWait, CvReturns, Starts, On, Plain, threadVars
  <2>2. QED
    BY <2>1, PlainStays, StaysLeft
<1>9. CASE WaitForCounter(t, f)
  BY <1>9, WaitLeft DEF WaitForCounter, Starts
<1>10. CASE WaitDone(t, f)
  BY <1>10, WaitLeft DEF WaitDone
<1>11. CASE WaitThrows(t, f) \/ InCounter(t, f)
  <2>1. Stays
    BY <1>0, <1>11 DEF WaitThrows, InCounter, Stays, SameTLS, threadVars, fiberVars, schedVars
  <2>2. QED
    BY <2>1, StaysLeft
<1>12. CASE WaitLeaves(t, f)
  BY <1>12, LeavesLeft
<1>13. CASE WaitSwitches(t, f) \/ MainLeaves(t, f)
  <2>1. CASE idle[probe[t]]
    <3>1. FindFreeFiber(t) /\ UNCHANGED stored /\ FromFiber(t, f)
      BY <1>13, <2>1 DEF WaitSwitches, MainLeaves, FromFiber
    <3>2. QED
      BY <2>1, <3>1, FindLeft
  <2>2. CASE ~idle[probe[t]]
    <3>1. Stays
      BY <1>0, <1>13, <2>2
         DEF WaitSwitches, MainLeaves, FindFreeFiber, NextProbe, Stays, SameTLS, On, Jump, ThreadsTyped
    <3>2. QED
      BY <3>1, StaysLeft
  <2>3. QED
    BY <2>1, <2>2
<1>14. CASE Notify(t, f)
  <2>1. Stays
    BY <1>0, <1>14 DEF Notify, Stays, SameTLS, On, Plain, threadVars, ThreadsTyped
  <2>2. QED
    BY <2>1, StaysLeft
<1>15. CASE NewCounter(t, f) \/ ChangeQueue(t, f) \/ QueueSteps(t, f)
  <2>1. /\ fpc[f] \in Plain /\ UNCHANGED <<idle, tls, stored, running, home, tpc>>
        /\ UNCHANGED fpc
    BY <1>15 DEF NewCounter, ChangeQueue, QueueSteps, Starts, On, Plain, threadVars
  <2>2. QED
    BY <2>1, PlainStays, StaysLeft
<1>16. CASE Shutdown(t, f) \/ ShutdownJoins(t, f) \/ Finish(t, f) \/ Executed(t, f)
  <2>1. /\ fpc[f] \in Plain /\ UNCHANGED <<idle, tls, stored, running, home, tpc>>
        /\ UNCHANGED fpc \/ \E pc \in Plain : Jump(f, pc)
    BY <1>16 DEF Shutdown, ShutdownJoins, Finish, Executed, AtEnd, Starts, On, Plain, threadVars
  <2>2. QED
    BY <2>1, PlainStays, StaysLeft
<1>17. CASE MainEnds(t, f)
  <2>1. CASE SwitchBack(t, f)
    BY <1>17, <2>1, BackLeft DEF MainEnds, AtEnd
  <2>2. CASE Jump(f, "findLast") /\ UNCHANGED <<running, tpc>>
    <3>1. /\ fpc[f] \in Plain /\ UNCHANGED <<idle, tls, stored, running, home, tpc>>
          /\ \E pc \in Plain : Jump(f, pc)
      BY <1>17, <2>2 DEF MainEnds, AtEnd, On, Plain
    <3>2. QED
      BY <3>1, PlainStays, StaysLeft
  <2>3. QED
    BY <1>17, <2>1, <2>2 DEF MainEnds
<1>18. CASE Ready(t, f)
  <2>1. tls' = [tls EXCEPT ![t].ready = Append(@, Handed(f))] /\ UNCHANGED <<idle, running, home, tpc, fiberVars>>
    BY <1>18 DEF Ready
  <2>2. Stays
    BY <1>0, <2>1 DEF Stays, SameTLS, fiberVars, ThreadsTyped, TLS
  <2>3. QED
    BY <2>2, StaysLeft
<1>19. QED
  BY <1>1, <1>2, <1>3, <1>4, <1>5, <1>6, <1>7, <1>8, <1>9, <1>10, <1>11, <1>12, <1>13, <1>14, <1>15,
     <1>16, <1>17, <1>18 DEF FiberStep

\* So does every step of the Manager, as long as the TLS used is the thread's own.
LEMMA NextLeft ==
  ASSUME TypeOK, TypeOK', LeftInv, SameThread, [Next]_vars
  PROVE  LeftInv'
<1>0. ThreadsTyped
  BY TypesOfThreads
<1>1. CASE UNCHANGED vars
  <2>1. Stays
    BY <1>1 DEF vars, schedVars, threadVars, fiberVars, Stays, SameTLS
  <2>2. QED
    BY <2>1, StaysLeft
<1>2. ASSUME NEW t \in Threads, StartThread(t)
      PROVE  LeftInv'
  <2>1. CASE idle[probe[t]]
    <3>1. running[t] = NoFiber
      BY <1>2, OwnPartsHold DEF StartThread, OwnParts
    <3>2. FromThread(t) /\ FindFreeFiber(t) /\ UNCHANGED stored
      BY <1>2, <2>1, <3>1 DEF StartThread, FromThread, fiberVars
    <3>3. QED
      BY <2>1, <3>2, FindLeft
  <2>2. CASE ~idle[probe[t]]
    <3>1. Stays
      BY <1>0, <1>2, <2>2 DEF StartThread, FindFreeFiber, NextProbe, fiberVars, Stays, SameTLS, ThreadsTyped
    <3>2. QED
      BY <3>1, StaysLeft
  <2>3. QED
    BY <2>1, <2>2
<1>3. ASSUME NEW t \in Threads, Run(t)
      PROVE  LeftInv'
  <2>1. Stays
    BY <1>0, <1>3 DEF Run, fiberVars, Stays, SameTLS, ThreadsTyped
  <2>2. QED
    BY <2>1, StaysLeft
<1>4. ASSUME NEW t \in Threads, running[t] # NoFiber, FiberStep(t, running[t])
      PROVE  LeftInv'
  <2>1. PICK f \in Fibers : f = running[t]
    BY <1>0, <1>4 DEF ThreadsTyped
  <2>2. CleanupTLS(t, f) = t /\ FiberStep(t, f)
    BY <1>4, <2>1 DEF SameThread
  <2>3. QED
    BY <2>1, <2>2, StepLeft
<1>5. QED
  BY <1>1, <1>2, <1>3, <1>4 DEF Next, ThreadStep, Terminated

\* At the start every thread that has started is on a fiber of its own and all others are
\* idle.
LEMMA InitLeft ==
  ASSUME Init, TypeOK
  PROVE  LeftInv
<1>0. ThreadsTyped
  BY TypesOfThreads
<1>1. PICK m \in Fibers : m = running[MainThread]
  BY FirstOnes
<1>2. \A t \in Threads : running[t] # NoFiber => t \in program.threads /\ running[t] <= m
  BY <1>1 DEF Init, FirstFibers
<1>3. Fibers \subseteq Nat
  BY SchedulerAssumption
<1>4. idle = [f \in Fibers |-> f > m]
  BY <1>1 DEF Init
<1>5. \A t \in Threads : running[t] # NoFiber => running[t] \in Fibers /\ ~idle[running[t]]
  <2>1. ASSUME NEW t \in Threads, running[t] # NoFiber
        PROVE  running[t] \in Fibers /\ ~idle[running[t]]
    <3>1. PICK f \in Fibers : f = running[t]
      BY <1>0, <2>1 DEF ThreadsTyped
    <3>2. f <= m /\ f \in Nat /\ m \in Nat
      BY <1>2, <1>3, <2>1, <3>1
    <3>3. ~(f > m)
      BY <3>2
    <3>4. QED
      BY <1>4, <3>1, <3>3
  <2>2. QED
    BY <2>1
<1>6. /\ \A t \in Threads : tls[t].cur = running[t] /\ tls[t].dest = "none"
      /\ \A f \in Fibers : /\ stored[f] = "none"
                           /\ fpc[f] = IF f = m THEN "body" ELSE "fresh"
  BY <1>1 DEF Init
<1>7. \A t \in Threads : running[t] # NoFiber => home[running[t]] = t
  <2>1. ASSUME NEW t \in Threads, running[t] # NoFiber PROVE home[running[t]] = t
    <3>1. PICK f \in Fibers : f = running[t] /\ ~idle[f]
      BY <1>5, <2>1
    <3>2. home[f] = CHOOSE u \in Threads : running[u] = f
      BY <3>1 DEF Init
    <3>3. home[f] \in Threads /\ running[home[f]] = f
      BY <3>1, <3>2
    <3>4. QED
      BY <2>1, <3>1, <3>3, FirstOnes
  <2>2. QED
    BY <2>1
<1>8. \A t \in Threads, f \in Fibers : Has(t, f) => running[t] = f
  BY <1>0, <1>5, <1>6 DEF Has, Chosen, Left, ThreadsTyped
<1>9. OneHas
  BY <1>0, <1>8, FirstOnes DEF OneHas, ThreadsTyped
<1>10. Moving /\ Sleeping
  BY <1>5, <1>6 DEF Moving, Sleeping, Chosen, Left
<1>11. Busy
  BY <1>0, <1>5, <1>8 DEF Busy, ThreadsTyped
<1>12. Flags
  <2>1. ~idle[m]
    BY <1>1, <1>5, FirstOnes, CounterAssumption
  <2>2. QED
    BY <1>6, <2>1 DEF Flags
<1>13. Finding
  <2>1. ASSUME NEW t \in Threads, running[t] # NoFiber PROVE tpc[t] # "find"
    <3>1. t \in program.threads
      BY <1>2, <2>1
    <3>2. QED
      BY <2>1, <3>1 DEF Init
  <2>2. QED
    BY <1>6, <2>1 DEF Finding
<1>14. OnFiber
  <2>1. ASSUME NEW t \in Threads, running[t] # NoFiber PROVE OnThread(t, running[t])
    <3>1. PICK f \in Fibers : f = running[t]
      BY <1>5, <2>1
    <3>2. OnThread(t, f)
      BY <1>6, <1>7, <2>1, <3>1 DEF OnThread, Plain
    <3>3. QED
      BY <3>1, <3>2
  <2>2. QED
    BY <2>1 DEF OnFiber
<1>15. QED
  BY <1>9, <1>10, <1>11, <1>12, <1>13, <1>14 DEF LeftInv

\* Manager.cpp:189-213, Fiber.cpp:73-93.  In every program, for any number of threads
\* and fibers: where the TLS that each cleanup uses is that of the thread it runs on,
\* no two threads are on one fiber, no thread is on a fiber that another may switch to,
\* and every fiber goes back to the thread fiber of its thread.
THEOREM FibersAreLeft == Spec /\ []SameThread => []FiberIsLeft
<1>1. Spec => []TypeOK
  BY TypeCorrect
<1>2. Init /\ TypeOK => LeftInv
  BY InitLeft
<1>3. LeftInv /\ TypeOK /\ TypeOK' /\ SameThread /\ [Next]_vars => LeftInv'
  BY NextLeft
<1>4. LeftInv /\ TypeOK => FiberIsLeft
  BY LeftImplies
<1>5. QED
  BY <1>1, <1>2, <1>3, <1>4, PTL DEF Spec

----------------------------------------------------------------------------
(* IO jobs are the IO thread's.                                            *)

\* A job of IO; an operation that can take a job off its thread.
IsIO(j) == [prio |-> "io", job |-> j] \in Submissions
MayLeave == {"wait", "step", "execute"}
\* A condition on the program: no IO job waits, so none can be resumed elsewhere.
IOJobsStay ==
  \A j \in Jobs : IsIO(j) =>
    \A i \in DOMAIN program.body[j] : program.body[j][i].op \notin MayLeave

\* What is asked for is what the program asks for, and is queued by its priority.
AsksListed ==
  \A f \in Fibers : \A i \in DOMAIN Remaining(f) : Submission(Remaining(f)[i]) \subseteq Submissions
EntriesListed == \A c \in Counters : \A i \in DOMAIN entries[c] : entries[c][i] \in Submissions
QueuesSorted == \A p \in Prio : \A i \in DOMAIN queue[p] : [prio |-> p, job |-> queue[p][i]] \in Submissions
IOStays ==
  \A f \in Fibers : frame[f].job \in Jobs /\ IsIO(frame[f].job) =>
    \A i \in DOMAIN Remaining(f) : Remaining(f)[i].op \notin MayLeave

AsksInv == AsksListed /\ EntriesListed /\ QueuesSorted
SortInv == IOJobsStay /\ AsksInv /\ IOStays

\* Where an operation that a fiber has to do after a step comes from: it had it, or
\* it is of the body of the job it has taken, or a step or an execute was unfolded.
StepOp(op, c) ==
  op \in {Schedule(Head(entries[c]).prio, Head(entries[c]).job, c), Wait(c, 0), [op |-> "erase", ctr |-> c]}
Unfolded(f, op) ==
  /\ Remaining(f) # <<>> /\ 1 \in DOMAIN Remaining(f)
  /\ Remaining(f)[1].op \in {"step", "execute"} /\ Remaining(f)[1].ctr \in Counters
  /\ entries[Remaining(f)[1].ctr] # <<>>
  /\ StepOp(op, Remaining(f)[1].ctr)

LEMMA OpsFrom ==
  ASSUME TypeOK, FramesOK, JobInv, NEW f \in Fibers, Moves(f), NEW i \in DOMAIN Remaining(f)'
  PROVE  \/ /\ frame'[f].job = frame[f].job
            /\ \E k \in DOMAIN Remaining(f) : Remaining(f)'[i] = Remaining(f)[k]
         \/ /\ frame'[f].job \in Code /\ i \in DOMAIN program.body[frame'[f].job]
            /\ Remaining(f)'[i] = program.body[frame'[f].job][i]
         \/ frame'[f].job = frame[f].job /\ Unfolded(f, Remaining(f)'[i])
<1> DEFINE Had(job, op) == job = frame[f].job /\ \E k \in DOMAIN Remaining(f) : op = Remaining(f)[k]
<1>1. ASSUME Remaining(f) # <<>>, Remaining(f)' = Tail(Remaining(f)), frame'[f].job = frame[f].job
      PROVE  Had(frame'[f].job, Remaining(f)'[i])
  <2>1. PICK r \in Seq(Op) : r = Remaining(f)
    BY RemainingIs
  <2>2. PICK s : s = Tail(r)
    OBVIOUS
  <2>3. \A k \in DOMAIN s : k + 1 \in DOMAIN r /\ s[k] = r[k + 1]
    BY <1>1, <2>1, <2>2, TailPlaces
  <2>4. QED
    BY <1>1, <2>1, <2>2, <2>3
<1>2. CASE Finishes(f) \/ Drops(f)
  BY <1>2, JobsAfter DEF Finishes, Drops
<1>3. CASE Idles(f) \/ SubmitsProxy(f)
  BY <1>3, JobsAfter DEF Idles, SubmitsProxy
<1>4. CASE Passes(f) \/ Submits(f) \/ Changes(f)
  <2>1. Remaining(f) # <<>> /\ Remaining(f)' = Tail(Remaining(f)) /\ frame'[f].job = frame[f].job
    BY <1>4, JobsAfter DEF Passes, Submits, Changes, Faces
  <2>2. QED
    BY <1>1, <2>1
<1>5. CASE Unfolds(f)
  <2>1. PICK r \in Seq(Op) : r = Remaining(f) /\ r # <<>> /\ Head(r).op \in {"step", "execute"}
                             /\ Head(r) \in Op /\ 1 \in DOMAIN r /\ Head(r) = r[1]
    BY <1>5, FacesTypes DEF Unfolds
  <2>2. PICK c \in Counters : c = Head(r).ctr
    BY <2>1, OpTypes
  <2>3. Remaining(f)' = Unfold(r, entries[c]) /\ frame'[f].job = frame[f].job
    BY <1>5, <2>1, <2>2, JobsAfter DEF Unfolds
  <2>4. CASE entries[c] = <<>>
    BY <1>1, <2>1, <2>2, <2>3, <2>4 DEF Unfold
  <2>5. CASE entries[c] # <<>>
    <3>1. PICK es \in Seq(Entry) : es = entries[c] /\ es # <<>>
      BY <2>5, HeadTypes
    <3>2. PICK u : u = Unfold(r, es)
      OBVIOUS
    <3>3. i \in DOMAIN u
      BY <2>3, <3>1, <3>2
    <3>4. CASE i > 3
      <4>1. PICK b : b = IF Head(r).op = "execute" THEN i - 3 ELSE i - 2
        OBVIOUS
      <4>2. b \in DOMAIN r /\ u[i] = r[b]
        BY <2>1, <3>1, <3>2, <3>3, <3>4, <4>1, UnfoldPlaces
      <4>3. QED
        BY <2>1, <2>3, <3>1, <3>2, <4>2
    <3>5. CASE i \in {1, 2, 3}
      <4>1. u[i] \in {Schedule(Head(es).prio, Head(es).job, c), Wait(c, 0), [op |-> "erase", ctr |-> c]}
        BY <2>1, <2>2, <3>1, <3>2, <3>5, UnfoldPlaces
      <4>2. Remaining(f)'[i] = u[i]
        BY <2>3, <3>1, <3>2
      <4>3. Unfolded(f, u[i])
        BY <2>1, <2>2, <2>5, <3>1, <4>1 DEF Unfolded, StepOp
      <4>4. QED
        BY <2>3, <4>2, <4>3
    <3>6. i \in Nat /\ i >= 1
      BY <2>1, <3>1, <3>2, <3>3, UnfoldPlaces
    <3>7. QED
      BY <3>4, <3>5, <3>6
  <2>6. QED
    BY <2>4, <2>5
<1>6. ASSUME NEW p \in Prio, Takes(f, p)
      PROVE  /\ frame'[f].job \in Code /\ i \in DOMAIN program.body[frame'[f].job]
             /\ Remaining(f)'[i] = program.body[frame'[f].job][i]
  <2>1. PICK j \in Code : j = Head(queue[p])
    BY <1>6, TakenQueued DEF Takes, JobInv
  <2>2. Remaining(f)' = program.body[j] /\ frame'[f].job = j
    BY <1>6, <2>1, JobsAfter DEF Takes
  <2>3. QED
    BY <2>2
<1>7. QED
  BY <1>2, <1>3, <1>4, <1>5, <1>6 DEF Moves

\* A step keeps the program, and what the other fibers have to do.
LEMMA OthersKeep ==
  ASSUME NEW f \in Fibers, Moves(f)
  PROVE  /\ UNCHANGED program /\ Submissions' = Submissions /\ AllOps' = AllOps
         /\ \A j : IsIO(j)' <=> IsIO(j)
         /\ \A g \in Fibers : g # f => Remaining(g)' = Remaining(g) /\ frame'[g].job = frame[g].job
<1>1. UNCHANGED program
  BY DEF Moves, Idles, Passes, Submits, SubmitsProxy, Enqueues, Changes, Unfolds, Takes, Finishes, Drops
<1>2. \A g \in Fibers : g # f => Remaining(g)' = Remaining(g) /\ frame'[g].job = frame[g].job
  BY JobsAfter DEF Moves, Idles, Passes, Submits, SubmitsProxy, Changes, Unfolds, Takes, Finishes, Drops
<1>3. QED
  BY <1>1, <1>2 DEF Submissions, AllOps, IsIO

\* A step keeps jobs in the queue of their priority,
LEMMA AsksStep ==
  ASSUME TypeOK, FramesOK, JobInv, AsksInv, NEW f \in Fibers, Moves(f)
  PROVE  AsksInv'
<1>0. /\ UNCHANGED program /\ Submissions' = Submissions
      /\ \A g \in Fibers : g # f => Remaining(g)' = Remaining(g)
  BY OthersKeep
<1>1. ASSUME NEW op, Unfolded(f, op) PROVE Submission(op) \subseteq Submissions
  <2>1. PICK c \in Counters : entries[c] # <<>> /\ StepOp(op, c)
    BY <1>1 DEF Unfolded
  <2>2. PICK es \in Seq(Entry) : es = entries[c] /\ Head(es) = es[1] /\ 1 \in DOMAIN es /\ Head(es) \in Entry
    BY <2>1, HeadTypes
  <2>3. Head(es) \in Submissions
    BY <2>2 DEF AsksInv, EntriesListed
  <2>4. op \in {Schedule(Head(es).prio, Head(es).job, c), Wait(c, 0), [op |-> "erase", ctr |-> c]}
    BY <2>1, <2>2 DEF StepOp
  <2>5. Submission(op) \subseteq {[prio |-> Head(es).prio, job |-> Head(es).job]}
    BY <2>4 DEF Submission, Schedule, Wait
  <2>6. [prio |-> Head(es).prio, job |-> Head(es).job] = Head(es)
    BY <2>2 DEF Entry
  <2>7. QED
    BY <2>3, <2>5, <2>6
<1>2. ASSUME NEW i \in DOMAIN Remaining(f)'
      PROVE  Submission(Remaining(f)'[i]) \subseteq Submissions
  <2>1. CASE \E k \in DOMAIN Remaining(f) : Remaining(f)'[i] = Remaining(f)[k]
    BY <2>1 DEF AsksInv, AsksListed
  <2>2. CASE \E x \in Code : i \in DOMAIN program.body[x] /\ Remaining(f)'[i] = program.body[x][i]
    BY <2>2, ProgramOps DEF Submissions
  <2>3. CASE Unfolded(f, Remaining(f)'[i])
    <3>1. PICK op : op = Remaining(f)'[i]
      OBVIOUS
    <3>2. QED
      BY <1>1, <2>3, <3>1
  <2>4. QED
    BY <2>1, <2>2, <2>3, OpsFrom
<1>3. AsksListed'
  <2>1. ASSUME NEW g \in Fibers, NEW i \in DOMAIN Remaining(g)'
        PROVE  Submission(Remaining(g)'[i]) \subseteq Submissions
    <3>1. CASE g = f
      BY <1>2, <2>1, <3>1
    <3>2. CASE g # f
      BY <1>0, <2>1, <3>2 DEF AsksInv, AsksListed
    <3>3. QED
      BY <3>1, <3>2
  <2>2. QED
    BY <1>0, <2>1 DEF AsksListed
<1>4. EntriesListed'
  <2>1. CASE UNCHANGED entries
    BY <1>0, <2>1 DEF AsksInv, EntriesListed
  <2>2. CASE Changes(f)
    <3>1. PICK op \in Op : /\ op = Head(Remaining(f)) /\ op = Remaining(f)[1] /\ 1 \in DOMAIN Remaining(f)
                           /\ op.op \in {"add", "erase"}
      BY <2>2, FacesTypes DEF Changes
    <3>2. PICK c \in Counters : c = op.ctr
      BY <3>1, OpTypes
    <3>3. entries' = [entries EXCEPT ![c] = Changed(op, entries[c])]
      BY <2>2, <3>1, <3>2 DEF Changes
    <3>4. PICK es \in Seq(Entry) : es = entries[c]
      BY DEF TypeOK
    <3>5. entries'[c] = Changed(op, es)
      BY <3>3, <3>4 DEF TypeOK
    <3>6. ASSUME NEW i \in DOMAIN entries'[c]
          PROVE  entries'[c][i] \in Submissions
      <4>1. CASE op.op = "erase"
        <5>1. es # <<>>
          BY <3>1, <3>2, <3>4, <4>1, StepFirst DEF EraseAt, JobInv
        <5>2. entries'[c] = Tail(es)
          BY <3>5, <4>1 DEF Changed
        <5>3. i + 1 \in DOMAIN es /\ entries'[c][i] = es[i + 1]
          BY <3>6, <5>1, <5>2, TailPlaces
        <5>4. QED
          BY <3>4, <5>3 DEF AsksInv, EntriesListed
      <4>2. CASE op.op = "add"
        <5>1. entries'[c] = Append(es, op.entry) /\ op.entry \in Entry
          BY <3>1, <3>5, <4>2, OpTypes DEF Changed
        <5>2. (i \in DOMAIN es /\ entries'[c][i] = es[i]) \/ entries'[c][i] = op.entry
          BY <3>6, <5>1, AppendPlaces
        <5>3. op.entry \in Submission(op)
          BY <4>2 DEF Submission
        <5>4. Submission(op) \subseteq Submissions
          BY <3>1 DEF AsksInv, AsksListed
        <5>5. QED
          BY <3>4, <5>2, <5>3, <5>4 DEF AsksInv, EntriesListed
      <4>3. QED
        BY <3>1, <4>1, <4>2
    <3>7. ASSUME NEW d \in Counters, d # c
          PROVE  entries'[d] = entries[d]
      BY <3>3, <3>7
    <3>8. QED
      BY <1>0, <3>6, <3>7 DEF AsksInv, EntriesListed
  <2>3. QED
    BY <2>1, <2>2 DEF Moves, Idles, Passes, Submits, SubmitsProxy, Enqueues, Unfolds, Takes, Finishes,
       Drops
<1>5. QueuesSorted'
  <2>1. CASE UNCHANGED queue
    BY <1>0, <2>1 DEF AsksInv, QueuesSorted
  <2>2. CASE Submits(f) \/ SubmitsProxy(f)
    <3>1. PICK op \in Op : /\ op = Head(Remaining(f)) /\ op = Remaining(f)[1] /\ 1 \in DOMAIN Remaining(f)
                           /\ op.op \in {"schedule", "blockingWait"}
                           /\ (Submits(f) => op.op = "schedule") /\ (SubmitsProxy(f) => op.op = "blockingWait")
      BY <2>2, FacesTypes DEF Submits, SubmitsProxy, Faces
    <3>2. PICK p \in Prio, j \in Jobs : /\ queue' = [queue EXCEPT ![p] = Append(queue[p], j)]
                                        /\ [prio |-> p, job |-> j] \in Submission(op)
      <4>1. CASE Submits(f)
        <5>1. queue' = [queue EXCEPT ![op.prio] = Append(queue[op.prio], op.job)]
          BY <3>1, <4>1 DEF Submits, Enqueues
        <5>2. op.prio \in Prio /\ op.job \in Jobs
          BY <3>1, <4>1, OpTypes
        <5>3. [prio |-> op.prio, job |-> op.job] \in Submission(op)
          BY <3>1, <4>1 DEF Submission
        <5>4. QED
          BY <5>1, <5>2, <5>3
      <4>2. CASE SubmitsProxy(f)
        <5>1. queue' = [queue EXCEPT !["high"] = Append(queue["high"], op.proxy)]
          BY <3>1, <4>2 DEF SubmitsProxy, Enqueues
        <5>2. "high" \in Prio /\ op.proxy \in Jobs
          BY <3>1, <4>2, OpTypes DEF Prio
        <5>3. [prio |-> "high", job |-> op.proxy] \in Submission(op)
          BY <3>1, <4>2 DEF Submission
        <5>4. QED
          BY <5>1, <5>2, <5>3
      <4>3. QED
        BY <2>2, <4>1, <4>2
    <3>3. [prio |-> p, job |-> j] \in Submissions
      BY <3>1, <3>2 DEF AsksInv, AsksListed
    <3>4. PICK q \in Seq(Jobs) : q = queue[p]
      BY DEF TypeOK
    <3>5. queue'[p] = Append(q, j) /\ \A o \in Prio : o # p => queue'[o] = queue[o]
      BY <3>2, <3>4 DEF TypeOK
    <3>6. ASSUME NEW i \in DOMAIN queue'[p]
          PROVE  [prio |-> p, job |-> queue'[p][i]] \in Submissions
      <4>1. (i \in DOMAIN q /\ queue'[p][i] = q[i]) \/ queue'[p][i] = j
        BY <3>5, <3>6, AppendPlaces
      <4>2. QED
        BY <3>3, <3>4, <4>1 DEF AsksInv, QueuesSorted
    <3>7. QED
      BY <1>0, <3>5, <3>6 DEF AsksInv, QueuesSorted
  <2>3. ASSUME NEW p \in Prio, Takes(f, p)
        PROVE  QueuesSorted'
    <3>1. PICK q \in Seq(Jobs) : q = queue[p] /\ q # <<>>
      BY <2>3 DEF TypeOK, Takes
    <3>2. queue'[p] = Tail(q) /\ \A o \in Prio : o # p => queue'[o] = queue[o]
      BY <2>3, <3>1 DEF TypeOK, Takes
    <3>3. \A i \in DOMAIN Tail(q) : i + 1 \in DOMAIN q /\ Tail(q)[i] = q[i + 1]
      BY <3>1, TailPlaces
    <3>4. QueuesSorted /\ Submissions' = Submissions
      BY <1>0 DEF AsksInv
    <3>5. \A i \in DOMAIN queue'[p] : [prio |-> p, job |-> queue'[p][i]] \in Submissions
      BY <3>1, <3>2, <3>3, <3>4 DEF QueuesSorted
    <3>6. QED
      BY <3>2, <3>4, <3>5 DEF QueuesSorted
  <2>4. QED
    BY <2>1, <2>2, <2>3 DEF Moves, Idles, Passes, Changes, Unfolds, Finishes, Drops
<1>6. QED
  BY <1>3, <1>4, <1>5 DEF AsksInv

\* and what IO jobs have left without waits.
LEMMA SortStep ==
  ASSUME TypeOK, FramesOK, JobInv, SortInv, NEW f \in Fibers, Moves(f)
  PROVE  SortInv'
<1>0. /\ UNCHANGED program /\ \A j : IsIO(j)' <=> IsIO(j)
      /\ \A g \in Fibers : g # f => Remaining(g)' = Remaining(g) /\ frame'[g].job = frame[g].job
  BY OthersKeep
<1>1. IOJobsStay'
  BY <1>0 DEF SortInv, IOJobsStay
<1>2. ASSUME frame'[f].job \in Jobs, IsIO(frame'[f].job), NEW i \in DOMAIN Remaining(f)'
      PROVE  Remaining(f)'[i].op \notin MayLeave
  <2>1. CASE /\ frame'[f].job = frame[f].job
             /\ \E k \in DOMAIN Remaining(f) : Remaining(f)'[i] = Remaining(f)[k]
    BY <1>2, <2>1 DEF SortInv, IOStays
  <2>2. CASE /\ i \in DOMAIN program.body[frame'[f].job]
             /\ Remaining(f)'[i] = program.body[frame'[f].job][i]
    BY <1>2, <2>2 DEF SortInv, IOJobsStay
  <2>3. CASE frame'[f].job = frame[f].job /\ Unfolded(f, Remaining(f)'[i])
    BY <1>2, <2>3 DEF SortInv, IOStays, Unfolded, MayLeave
  <2>4. QED
    BY <2>1, <2>2, <2>3, OpsFrom
<1>3. IOStays'
  <2>1. ASSUME NEW g \in Fibers, frame'[g].job \in Jobs, IsIO(frame'[g].job), NEW i \in DOMAIN Remaining(g)'
        PROVE  Remaining(g)'[i].op \notin MayLeave
    <3>1. CASE g = f
      BY <1>2, <2>1, <3>1
    <3>2. CASE g # f
      BY <1>0, <2>1, <3>2 DEF SortInv, IOStays
    <3>3. QED
      BY <3>1, <3>2
  <2>2. QED
    BY <1>0, <2>1 DEF IOStays
<1>4. QED
  BY <1>1, <1>3, AsksStep DEF SortInv

\* The IO thread.
IOPlaces == { "fresh", "freshClear", "loop", "io", "body", "enqueue", "end",
              "lookAgain", "cvEnter", "cvWait", "cvWoken", "joining" }
\* Where a fiber holds the TLS pointer of the thread whose turn it is, or was.
Turning == {"high", "ready", "switch", "inGet", "inGetClear"}
IOHas(j) == j \in Jobs /\ IsIO(j)

\* The IO thread is in these places only, with an IO job or none; an IO job is with the
\* IO thread; no fiber left in GetNextJob holds the pointer of the IO thread.
IOOnly == \A f \in Fibers : running[IOThread] = f =>
            fpc[f] \in IOPlaces /\ (IOHas(frame[f].job) \/ frame[f].job = NoJob)
IOKept == \A f \in Fibers : IOHas(frame[f].job) \/ fpc[f] = "io" => running[IOThread] = f
IOTurns == \A f \in Fibers : fpc[f] \in Turning => frame[f].tls # IOThread
IOInv == IOOnly /\ IOKept /\ IOTurns

\* What a step of t on f is to the fibers, by their places.
Woken(f) == {fpc[f], fpc'[f]} \subseteq {"cvWait", "cvWoken"}
Elsewhere(t, f) ==
  /\ \A u \in Threads \ {t} : running'[u] = running[u]
  /\ \A g \in Fibers : g # f => (fpc'[g] = fpc[g] \/ Woken(g)) /\ frame'[g].tls = frame[g].tls
Turns(t, f) ==
  /\ fpc'[f] \in Turning => frame'[f].tls = t \/ (fpc[f] \in Turning /\ frame'[f].tls = frame[f].tls)
  /\ fpc'[f] = "io" => fpc[f] = "io" \/ t = IOThread
OnIO(t, f) ==
  t = IOThread /\ fpc[f] \in IOPlaces =>
    \/ running'[t] = f /\ fpc'[f] \in IOPlaces
    \/ running'[t] = NoFiber /\ fpc[f] = "loop" /\ fpc'[f] = "over"
    \/ Starts(f, "wait")
    \/ frame[f].job = MainJob

\* A fiber goes on with another job, operation or position, and the same pointer.
LEMMA TlsKept ==
  ASSUME TypeOK, NEW f \in Fibers,
         \/ UNCHANGED frame \/ Begin(f) \/ End(f) \/ Skip(f)
         \/ \E j, r : frame' = [frame EXCEPT ![f].job = j, ![f].rest = r]
         \/ \E j : frame' = [frame EXCEPT ![f].job = j]
         \/ \E r : frame' = [frame EXCEPT ![f].rest = r]
         \/ \E n : frame' = [frame EXCEPT ![f].scan = n]
  PROVE  \A g \in Fibers : frame'[g].tls = frame[g].tls
<1>1. frame \in [Fibers -> Frame]
  BY DEF TypeOK
<1>2. \A g \in Fibers : g # f => frame'[g] = frame[g]
  BY <1>1 DEF Begin, End, Skip
<1>3. PICK fr \in Frame : fr = frame[f]
  BY <1>1
<1>4. frame'[f].tls = fr.tls
  <2>1. CASE Begin(f)
    BY <1>1, <1>3, <2>1 DEF Begin, Frame
  <2>2. CASE End(f)
    BY <1>1, <1>3, <2>2 DEF End, Frame
  <2>3. CASE Skip(f)
    BY <1>1, <1>3, <2>3 DEF Skip, Frame
  <2>4. ASSUME NEW j, NEW r, frame' = [frame EXCEPT ![f].job = j, ![f].rest = r]
        PROVE  frame'[f].tls = fr.tls
    BY <1>1, <1>3, <2>4 DEF Frame
  <2>5. ASSUME NEW j, frame' = [frame EXCEPT ![f].job = j]
        PROVE  frame'[f].tls = fr.tls
    BY <1>1, <1>3, <2>5 DEF Frame
  <2>6. ASSUME NEW r, frame' = [frame EXCEPT ![f].rest = r]
        PROVE  frame'[f].tls = fr.tls
    BY <1>1, <1>3, <2>6 DEF Frame
  <2>7. ASSUME NEW n, frame' = [frame EXCEPT ![f].scan = n]
        PROVE  frame'[f].tls = fr.tls
    BY <1>1, <1>3, <2>7 DEF Frame
  <2>8. QED
    BY <1>3, <2>1, <2>2, <2>3, <2>4, <2>5, <2>6, <2>7
<1>5. QED
  BY <1>2, <1>3, <1>4

\* Where each step of a fiber takes it: by the places before and after it.
LEMMA StepPlaces ==
  ASSUME TypeOK, NEW t \in Threads, NEW f \in Fibers, running[t] = f, FiberStep(t, f)
  PROVE  Elsewhere(t, f) /\ Turns(t, f) /\ OnIO(t, f)
<1>0. /\ running \in [Threads -> Fibers \cup {NoFiber}] /\ fpc \in [Fibers -> FiberPC]
      /\ frame \in [Fibers -> Frame] /\ tls \in [Threads -> TLS]
  BY DEF TypeOK
<1> USE DEF Elsewhere, Turns, OnIO, Turning, IOPlaces, On, Jump, Starts
<1>1. CASE CleanupStore(t, f) \/ CleanupClear(t, f)
  <2>1. /\ fpc[f] \in DOMAIN AfterCleanup /\ UNCHANGED running
        /\ \/ fpc' = [fpc EXCEPT ![f] = AfterCleanup[fpc[f]]]
           \/ fpc[f] \in DOMAIN Clearing /\ fpc' = [fpc EXCEPT ![f] = Clearing[fpc[f]]]
        /\ UNCHANGED frame \/ End(f)
    BY <1>1 DEF CleanupStore, CleanupClear, CleanupEnds, AfterCleanup, Clearing, End
  <2>2. \A g \in Fibers : frame'[g].tls = frame[g].tls
    BY <2>1, TlsKept
  <2>3. QED
    BY <1>0, <2>1, <2>2 DEF AfterCleanup, Clearing
<1>2. CASE Loop(t, f)
  <2>1. CASE SwitchBack(t, f) /\ UNCHANGED frame
    BY <1>0, <1>2, <2>1 DEF Loop, SwitchBack
  <2>2. CASE NextTurn(t, f, IF t = IOThread THEN "io" ELSE "high")
    BY <1>0, <1>2, <2>2 DEF Loop, NextTurn, Frame
  <2>3. QED
    BY <1>2, <2>1, <2>2 DEF Loop
<1>3. CASE DequeueIO(t, f) \/ DequeueHigh(t, f) \/ DequeueNormal(t, f) \/ DequeueLow(t, f)
  <2>1. PICK p \in Prio, pc \in {"loop", "ready", "low"} :
          /\ Dequeue(f, p, pc)
          /\ fpc[f] = p
          /\ pc = "ready" <=> p = "high"
          /\ pc = "low" <=> p = "normal"
    BY <1>3 DEF DequeueIO, DequeueHigh, DequeueNormal, DequeueLow, Prio
  <2>2. /\ UNCHANGED running
        /\ fpc' = [fpc EXCEPT ![f] = "body"] \/ fpc' = [fpc EXCEPT ![f] = pc]
        /\ UNCHANGED frame \/ \E j, r : frame' = [frame EXCEPT ![f].job = j, ![f].rest = r]
    <3>1. CASE queue[p] # <<>>
      <4>1. PICK j, r : j = Head(queue[p]) /\ r = program.body[j]
        OBVIOUS
      <4>2. frame' = [frame EXCEPT ![f].job = j, ![f].rest = r]
        BY <2>1, <3>1, <4>1 DEF Dequeue
      <4>3. QED
        BY <2>1, <3>1, <4>2 DEF Dequeue, threadVars
    <3>2. CASE queue[p] = <<>>
      BY <2>1, <3>2 DEF Dequeue, threadVars
    <3>3. QED
      BY <3>1, <3>2
  <2>4. \A g \in Fibers : frame'[g].tls = frame[g].tls
    BY <2>2, TlsKept
  <2>3. QED
    BY <1>0, <2>1, <2>2, <2>4 DEF Prio
<1>4. CASE ScanReady(t, f)
  <2>1. /\ fpc[f] = "ready" /\ UNCHANGED running
        /\ UNCHANGED fpc \/ fpc' = [fpc EXCEPT ![f] = "normal"] \/ fpc' = [fpc EXCEPT ![f] = "switch"]
        /\ \E n : frame' = [frame EXCEPT ![f].scan = n]
    <3>1. CASE ReadySkips(f)
      <4>1. frame' = [frame EXCEPT ![f].scan = frame[f].scan + 1]
        BY <3>1 DEF ReadySkips
      <4>2. QED
        BY <1>4, <3>1, <4>1 DEF ScanReady, ReadySkips
    <3>2. QED
      BY <1>4, <3>1 DEF ScanReady, ReadyEnds, ReadyTakes
  <2>2. \A g \in Fibers : frame'[g].tls = frame[g].tls
    BY <2>1, TlsKept
  <2>3. QED
    BY <1>0, <2>1, <2>2
<1>5. CASE SwitchToReady(t, f)
  BY <1>0, <1>5 DEF SwitchToReady, SwitchTo
<1>6. CASE \/ ScheduleCount(t, f) \/ ScheduleUncounted(t, f) \/ BlockingWaits(t, f)
           \/ WaitNot(t, f) \/ NewCounter(t, f) \/ ChangeQueue(t, f) \/ QueueSteps(t, f)
           \/ Shutdown(t, f)
  <2>1. /\ fpc[f] = "body" /\ UNCHANGED running
        /\ UNCHANGED fpc \/ \E pc \in {"enqueue", "lookAgain", "joining"} : fpc' = [fpc EXCEPT ![f] = pc]
        /\ Begin(f) \/ Skip(f) \/ \E r : frame' = [frame EXCEPT ![f].rest = r]
    BY <1>6 DEF ScheduleCount, ScheduleUncounted, BlockingWaits, WaitNot, NewCounter, ChangeQueue,
       QueueSteps, Shutdown, threadVars
  <2>2. \A g \in Fibers : frame'[g].tls = frame[g].tls
    BY <2>1, TlsKept
  <2>3. QED
    BY <1>0, <2>1, <2>2
<1>7. CASE \/ ScheduleJob(t, f) \/ LookAgain(t, f) \/ CvWait(t, f) \/ CvReturns(t, f)
           \/ ShutdownJoins(t, f)
  <2>1. /\ fpc[f] \in {"enqueue", "lookAgain", "cvEnter", "cvWait", "cvWoken", "joining"} /\ UNCHANGED running
        /\ UNCHANGED fpc \/ \E pc \in {"body", "cvEnter", "enqueue", "cvWait"} : fpc' = [fpc EXCEPT ![f] = pc]
        /\ UNCHANGED frame \/ End(f)
    BY <1>7 DEF ScheduleJob, LookAgain, CvWait, CvReturns, ShutdownJoins, threadVars
  <2>2. \A g \in Fibers : frame'[g].tls = frame[g].tls
    BY <2>1, TlsKept
  <2>3. QED
    BY <1>0, <2>1, <2>2
<1>8. CASE WaitForCounter(t, f) \/ WaitDone(t, f) \/ WaitThrows(t, f) \/ WaitLeaves(t, f)
  <2>1. /\ (fpc[f] = "body" /\ Starts(f, "wait")) \/ fpc[f] = "adding"
        /\ UNCHANGED running
        /\ UNCHANGED fpc \/ \E pc \in {"adding", "body", "find"} : fpc' = [fpc EXCEPT ![f] = pc]
        /\ UNCHANGED frame \/ Begin(f) \/ End(f)
    BY <1>8 DEF WaitForCounter, WaitDone, WaitThrows, WaitLeaves, threadVars, fiberVars
  <2>2. \A g \in Fibers : frame'[g].tls = frame[g].tls
    BY <2>1, TlsKept
  <2>3. QED
    BY <1>0, <2>1, <2>2
<1>9. CASE WaitSwitches(t, f) \/ MainLeaves(t, f)
  <2>1. /\ fpc[f] \in {"find", "findLast"} /\ UNCHANGED frame
        /\ \A u \in Threads \ {t} : running'[u] = running[u]
        /\ \E pc \in {"find", "inWait", "findLast", "over"} : fpc' = [fpc EXCEPT ![f] = pc]
    BY <1>0, <1>9 DEF WaitSwitches, MainLeaves, FindFreeFiber, NextProbe, SwitchTo
  <2>2. QED
    BY <1>0, <2>1
<1>10. CASE Notify(t, f)
  <2>1. /\ fpc[f] = "body" /\ UNCHANGED running
        /\ \A g \in Fibers : fpc'[g] = fpc[g] \/ Woken(g)
    BY <1>0, <1>10 DEF Notify, Woken, threadVars
  <2>2. \A g \in Fibers : frame'[g].tls = frame[g].tls
    BY <1>10, TlsKept DEF Notify
  <2>3. fpc'[f] = "body"
    BY <2>1 DEF Woken
  <2>4. QED
    BY <1>0, <2>1, <2>2, <2>3
<1>11. CASE Finish(t, f) \/ Executed(t, f)
  <2>1. /\ fpc[f] \in {"body", "end"} /\ UNCHANGED running
        /\ fpc' = [fpc EXCEPT ![f] = "end"] \/ fpc' = [fpc EXCEPT ![f] = "loop"]
        /\ UNCHANGED frame \/ frame' = [frame EXCEPT ![f].job = NoJob]
    BY <1>11 DEF Finish, Executed, AtEnd, threadVars
  <2>2. \A g \in Fibers : frame'[g].tls = frame[g].tls
    BY <2>1, TlsKept
  <2>3. QED
    BY <1>0, <2>1, <2>2
<1>12. CASE MainEnds(t, f)
  <2>1. /\ fpc[f] = "body" /\ UNCHANGED frame /\ frame[f].job = MainJob
        /\ \A u \in Threads \ {t} : running'[u] = running[u]
        /\ \E pc \in {"findLast", "over"} : fpc' = [fpc EXCEPT ![f] = pc]
    BY <1>0, <1>12 DEF MainEnds, AtEnd, SwitchBack
  <2>2. QED
    BY <1>0, <2>1
<1>13. CASE Ready(t, f) \/ InCounter(t, f)
  BY <1>0, <1>13 DEF Ready, InCounter, schedVars, threadVars, fiberVars
<1>14. QED
  BY <1>1, <1>2, <1>3, <1>4, <1>5, <1>6, <1>7, <1>8, <1>9, <1>10, <1>11, <1>12, <1>13 DEF FiberStep

\* A fiber takes a job from the queue it looks at only.
LEMMA StepTakes ==
  ASSUME TypeOK, FramesOK, NEW t \in Threads, NEW f \in Fibers, running[t] = f, FiberStep(t, f)
  PROVE  \/ frame'[f].job \in {frame[f].job, NoJob}
         \/ fpc[f] \in Prio /\ queue[fpc[f]] # <<>> /\ frame'[f].job = Head(queue[fpc[f]])
<1>0. frame \in [Fibers -> Frame]
  BY DEF TypeOK
<1>1. PICK fr \in Frame : fr = frame[f]
  BY <1>0
<1>2. ASSUME UNCHANGED frame PROVE frame'[f].job = fr.job
  BY <1>1, <1>2
<1>3. ASSUME NEW n, frame' = [frame EXCEPT ![f].scan = n] PROVE frame'[f].job = fr.job
  BY <1>0, <1>1, <1>3 DEF Frame
<1>4. ASSUME NEW r, frame' = [frame EXCEPT ![f].rest = r] PROVE frame'[f].job = fr.job
  BY <1>0, <1>1, <1>4 DEF Frame
<1>5. ASSUME NEW u, frame' = [frame EXCEPT ![f].tls = u] PROVE frame'[f].job = fr.job
  BY <1>0, <1>1, <1>5 DEF Frame
<1>6. ASSUME NEW o, frame' = [frame EXCEPT ![f].op = o] PROVE frame'[f].job = fr.job
  BY <1>0, <1>1, <1>6 DEF Frame
<1>7. ASSUME NEW o, NEW r, frame' = [frame EXCEPT ![f].op = o, ![f].rest = r] PROVE frame'[f].job = fr.job
  BY <1>0, <1>1, <1>7 DEF Frame
<1>8. Begin(f) \/ End(f) \/ Skip(f) => frame'[f].job = fr.job
  BY <1>4, <1>6, <1>7 DEF Begin, End, Skip
<1>9. CASE DequeueIO(t, f) \/ DequeueHigh(t, f) \/ DequeueNormal(t, f) \/ DequeueLow(t, f)
  <2>1. PICK p, pc : p \in Prio /\ Dequeue(f, p, pc) /\ fpc[f] = p
    BY <1>9 DEF DequeueIO, DequeueHigh, DequeueNormal, DequeueLow, Prio, On
  <2>2. CASE queue[p] = <<>>
    BY <1>1, <1>2, <2>1, <2>2 DEF Dequeue
  <2>3. CASE queue[p] # <<>>
    <3>1. PICK j, r : j = Head(queue[p]) /\ r = program.body[j]
      OBVIOUS
    <3>2. frame' = [frame EXCEPT ![f].job = j, ![f].rest = r]
      BY <2>1, <2>3, <3>1 DEF Dequeue
    <3>3. frame'[f].job = j
      BY <1>0, <1>1, <3>2 DEF Frame
    <3>4. QED
      BY <2>1, <2>3, <3>1, <3>3
  <2>4. QED
    BY <2>2, <2>3
<1>10. CASE Executed(t, f)
  <2>1. frame'[f].job = NoJob
    BY <1>0, <1>1, <1>10 DEF Executed, Frame
  <2>2. QED
    BY <2>1
<1>11. CASE CleanupStore(t, f) \/ CleanupClear(t, f)
  BY <1>1, <1>2, <1>6, <1>11 DEF CleanupStore, CleanupClear, CleanupEnds
<1>12. CASE Loop(t, f)
  BY <1>1, <1>2, <1>5, <1>12 DEF Loop, NextTurn
<1>13. CASE ScanReady(t, f)
  BY <1>1, <1>3, <1>13 DEF ScanReady, ReadyEnds, ReadySkips, ReadyTakes
<1>14. CASE \/ ScheduleCount(t, f) \/ ScheduleUncounted(t, f) \/ ScheduleJob(t, f) \/ WaitNot(t, f)
            \/ WaitForCounter(t, f) \/ WaitDone(t, f) \/ WaitThrows(t, f) \/ WaitLeaves(t, f)
            \/ WaitSwitches(t, f) \/ BlockingWaits(t, f) \/ LookAgain(t, f) \/ CvWait(t, f)
            \/ Notify(t, f) \/ CvReturns(t, f) \/ NewCounter(t, f) \/ ChangeQueue(t, f)
  <2>1. UNCHANGED frame \/ Begin(f) \/ End(f) \/ Skip(f)
    BY <1>14 DEF ScheduleCount, ScheduleUncounted, ScheduleJob, WaitNot, WaitForCounter, WaitDone,
       WaitThrows, WaitLeaves, WaitSwitches, BlockingWaits, LookAgain, CvWait, Notify, CvReturns,
       NewCounter, ChangeQueue, fiberVars
  <2>2. QED
    BY <1>1, <1>2, <1>8, <2>1
<1>15. CASE QueueSteps(t, f)
  BY <1>1, <1>4, <1>15 DEF QueueSteps
<1>16. CASE \/ SwitchToReady(t, f) \/ Shutdown(t, f) \/ ShutdownJoins(t, f) \/ Finish(t, f)
            \/ MainEnds(t, f) \/ MainLeaves(t, f) \/ Ready(t, f) \/ InCounter(t, f)
  <2>1. UNCHANGED frame \/ Begin(f) \/ End(f) \/ Skip(f)
    BY <1>16 DEF SwitchToReady, Shutdown, ShutdownJoins, Finish, MainEnds, MainLeaves, Ready, InCounter,
       fiberVars, schedVars
  <2>2. QED
    BY <1>1, <1>2, <1>8, <2>1
<1>17. QED
  BY <1>9, <1>10, <1>11, <1>12, <1>13, <1>14, <1>15, <1>16 DEF FiberStep

\* A job is asked for with one priority.
LEMMA OnePrio ==
  ASSUME TypeOK, NEW r \in Submissions, NEW s \in Submissions, r.job = s.job
  PROVE  r = s
<1>1. PICK a \in AllOps : r \in Submission(a)
  BY DEF Submissions
<1>2. PICK b \in AllOps : s \in Submission(b)
  BY DEF Submissions
<1>3. a = b
  BY <1>1, <1>2, OneAsks DEF AsksFor
<1>4. \A x, y \in Submission(a) : x = y
  BY DEF Submission
<1>5. QED
  BY <1>1, <1>2, <1>3, <1>4

\* Where the IO thread is on a fiber it can be in no wait of its own.
LEMMA IONoWait ==
  ASSUME TypeOK, FramesOK, SortInv, IOInv, NEW f \in Fibers, running[IOThread] = f
  PROVE  ~Starts(f, "wait") /\ frame[f].job # MainJob
<1>1. IOHas(frame[f].job) \/ frame[f].job = NoJob
  BY DEF IOInv, IOOnly
<1>2. frame[f].job # MainJob
  BY <1>1, SchedulerAssumption DEF IOHas, Code
<1>3. ASSUME Starts(f, "wait") PROVE FALSE
  <2>1. /\ fpc[f] = "body" /\ frame[f].rest # <<>> /\ Head(frame[f].rest).op = "wait"
    BY <1>3 DEF Starts, On, NextOp
  <2>2. frame[f].job \in Code /\ frame[f].op = NoOp /\ frame[f].rest \in Seq(Op)
    BY <2>1, FrameFields DEF JobAt, Executing, Within
  <2>3. Remaining(f) = frame[f].rest
    BY <2>2, RemainingIs
  <2>4. 1 \in DOMAIN Remaining(f) /\ Remaining(f)[1].op = "wait"
    BY <2>1, <2>2, <2>3, TailPlaces
  <2>5. IOHas(frame[f].job)
    BY <1>1, <2>2, SchedulerAssumption
  <2>6. QED
    BY <2>4, <2>5 DEF SortInv, IOStays, IOHas, MayLeave
<1>4. QED
  BY <1>2, <1>3

\* A step of a fiber keeps the IO jobs, and the place "io", with the IO thread.
LEMMA IOStep ==
  ASSUME SchedInv, LeftInv, SortInv, IOInv, NEW t \in Threads, NEW f \in Fibers, running[t] = f,
         FiberStep(t, f)
  PROVE  IOInv'
<1>0. TypeOK /\ FramesOK /\ JobInv /\ TypeInv
  BY DEF SchedInv, TypeInv, TypeOK, FramesOK
<1>1. Elsewhere(t, f) /\ Turns(t, f) /\ OnIO(t, f)
  BY <1>0, StepPlaces
<1>2. Moves(f)
  BY <1>0, StepMoves
<1>3. \A g \in Fibers : g # f => frame'[g].job = frame[g].job
  BY <1>2, JobsAfter DEF Moves, Idles, Passes, Submits, SubmitsProxy, Changes, Unfolds, Takes, Finishes, Drops
<1>4. \A j : IOHas(j)' <=> IOHas(j)
  BY <1>2 DEF Moves, Idles, Passes, Submits, SubmitsProxy, Enqueues, Changes, Unfolds, Takes, Finishes,
     Drops, Submissions, AllOps, IsIO, IOHas
<1>5. IOThread \in Threads /\ NoFiber \notin Fibers /\ ~IOHas(NoJob)
  BY SchedulerAssumption, CounterAssumption DEF Threads, IOThread, IOHas, Code
<1>6. ASSUME fpc[f] \in Prio, queue[fpc[f]] # <<>>, frame'[f].job = Head(queue[fpc[f]])
      PROVE  IOHas(frame'[f].job) <=> fpc[f] = "io"
  <2>1. PICK p \in Prio, j \in Jobs : p = fpc[f] /\ j = Head(queue[p]) /\ j = queue[p][1] /\ 1 \in DOMAIN queue[p]
    BY <1>0, <1>6, TakenQueued DEF JobInv
  <2>2. [prio |-> p, job |-> j] \in Submissions
    BY <2>1 DEF SortInv, AsksInv, QueuesSorted
  <2>3. IOHas(j) => p = "io"
    <3>1. SUFFICES ASSUME [prio |-> "io", job |-> j] \in Submissions PROVE p = "io"
      BY DEF IOHas, IsIO
    <3>2. [prio |-> "io", job |-> j] = [prio |-> p, job |-> j]
      BY <1>0, <2>2, <3>1, OnePrio
    <3>3. QED
      BY <3>2
  <2>4. QED
    BY <1>6, <2>1, <2>2, <2>3 DEF IOHas, IsIO
<1>7. \/ frame'[f].job \in {frame[f].job, NoJob}
      \/ fpc[f] \in Prio /\ (IOHas(frame'[f].job) <=> fpc[f] = "io")
  BY <1>0, <1>6, StepTakes
<1>8. IOTurns'
  <2>1. \A g \in Fibers : g # f /\ fpc'[g] \in Turning => frame'[g].tls # IOThread
    BY <1>1 DEF IOInv, IOTurns, Elsewhere, Woken, Turning
  <2>2. t = IOThread => fpc'[f] \notin Turning
    <3>1. t = IOThread => fpc[f] \in IOPlaces /\ ~Starts(f, "wait") /\ frame[f].job # MainJob
      BY <1>0, IONoWait DEF IOInv, IOOnly
    <3>2. QED
      BY <1>1, <3>1 DEF OnIO, IOPlaces, Turning
  <2>3. fpc'[f] \in Turning => frame'[f].tls # IOThread
    BY <1>1, <2>2 DEF IOInv, IOTurns, Turns
  <2>4. QED
    BY <2>1, <2>3 DEF IOTurns
<1>9. CASE t = IOThread
  <2>1. fpc[f] \in IOPlaces /\ (IOHas(frame[f].job) \/ frame[f].job = NoJob)
    BY <1>9 DEF IOInv, IOOnly
  <2>2. ~Starts(f, "wait") /\ frame[f].job # MainJob
    BY <1>0, <1>9, IONoWait
  <2>3. \/ running'[t] = f /\ fpc'[f] \in IOPlaces
        \/ running'[t] = NoFiber /\ fpc[f] = "loop" /\ fpc'[f] = "over"
    BY <1>1, <1>9, <2>1, <2>2 DEF OnIO
  <2>4. fpc[f] \in Prio => fpc[f] = "io"
    BY <2>1 DEF Prio, IOPlaces
  <2>5. IOHas(frame'[f].job) \/ frame'[f].job = NoJob
    BY <1>7, <2>1, <2>4
  <2>6. fpc[f] = "loop" => ~IOHas(frame'[f].job)
    <3>1. fpc[f] = "loop" => frame[f].job = NoJob
      BY <1>0, FrameFields DEF JobAt, Executing, Within
    <3>2. QED
      BY <1>5, <1>7, <3>1 DEF Prio
  <2>7. IOOnly'
    BY <1>4, <1>5, <1>9, <2>3, <2>5 DEF IOOnly
  <2>8. IOKept'
    <3>1. ASSUME NEW g \in Fibers, g # f, IOHas(frame'[g].job) \/ fpc'[g] = "io"
          PROVE  FALSE
      BY <1>1, <1>3, <1>9, <3>1 DEF IOInv, IOKept, Elsewhere, Woken
    <3>2. IOHas(frame'[f].job) \/ fpc'[f] = "io" => running'[IOThread] = f
      BY <1>9, <2>3, <2>6
    <3>3. QED
      BY <1>4, <3>1, <3>2 DEF IOKept
  <2>9. QED
    BY <1>8, <2>7, <2>8 DEF IOInv
<1>10. CASE t # IOThread
  <2>1. running'[IOThread] = running[IOThread] /\ running[IOThread] # f
    BY <1>1, <1>5, <1>10 DEF Elsewhere, LeftInv, OneHas, Has
  <2>2. ~IOHas(frame[f].job) /\ fpc[f] # "io"
    BY <2>1 DEF IOInv, IOKept
  <2>3. ~IOHas(frame'[f].job) /\ fpc'[f] # "io"
    BY <1>1, <1>5, <1>7, <1>10, <2>2 DEF Turns
  <2>4. IOOnly'
    BY <1>1, <1>3, <1>4, <2>1 DEF IOInv, IOOnly, Elsewhere, Woken, IOPlaces
  <2>5. IOKept'
    BY <1>1, <1>3, <1>4, <2>1, <2>3 DEF IOInv, IOKept, Elsewhere, Woken
  <2>6. QED
    BY <1>8, <2>4, <2>5 DEF IOInv
<1>11. QED
  BY <1>9, <1>10

\* The other steps.
LEMMA AsksStays ==
  ASSUME AsksInv, UNCHANGED <<fiberVars, programVars>>
  PROVE  AsksInv'
<1>1. /\ UNCHANGED <<program, queue, entries, frame>>
      /\ \A g \in Fibers : Remaining(g)' = Remaining(g)
  BY DEF fiberVars, programVars, Remaining
<1>2. Submissions' = Submissions
  BY <1>1 DEF Submissions, AllOps
<1>3. QED
  BY <1>1, <1>2 DEF AsksInv, AsksListed, EntriesListed, QueuesSorted

LEMMA SortStays ==
  ASSUME SortInv, UNCHANGED <<fiberVars, programVars>>
  PROVE  SortInv'
<1>1. /\ UNCHANGED <<program, frame>>
      /\ \A g \in Fibers : Remaining(g)' = Remaining(g)
  BY DEF fiberVars, programVars, Remaining
<1>2. \A j : IsIO(j)' <=> IsIO(j)
  BY <1>1 DEF Submissions, AllOps, IsIO
<1>3. QED
  BY <1>1, <1>2, AsksStays DEF SortInv, IOJobsStay, IOStays

\* The free fiber that the IO thread takes has not been left in GetNextJob.
IOStartsFresh == tpc[IOThread] = "find" /\ idle[probe[IOThread]] => fpc[probe[IOThread]] # "inGet"

\* A thread that starts on a free fiber keeps them; the IO thread needs a fresh one.
LEMMA IOStart ==
  ASSUME SchedInv, LeftInv, SortInv, IOInv, NEW t \in Threads, StartThread(t),
         StartThread(IOThread) => IOStartsFresh
  PROVE  IOInv'
<1>0. /\ TypeOK /\ FramesOK /\ running \in [Threads -> Fibers \cup {NoFiber}]
      /\ IOThread \in Threads /\ NoFiber \notin Fibers
  BY SchedulerAssumption, CounterAssumption DEF SchedInv, TypeInv, TypeOK, FramesOK, Threads, IOThread
<1>1. tpc[t] = "find" /\ UNCHANGED <<fpc, frame, program>>
  BY DEF StartThread, fiberVars, programVars
<1>2. running[t] = NoFiber
  BY <1>1, OwnPartsHold DEF OwnParts
<1>3. \A j : IOHas(j)' <=> IOHas(j)
  BY <1>1 DEF Submissions, AllOps, IsIO, IOHas
<1>4. IOTurns'
  BY <1>1 DEF IOInv, IOTurns
<1>5. CASE running'[IOThread] = running[IOThread]
  BY <1>1, <1>3, <1>4, <1>5 DEF IOInv, IOOnly, IOKept
<1>6. CASE running'[IOThread] # running[IOThread]
  <2>1. t = IOThread /\ idle[probe[t]] /\ running'[t] = probe[t]
    BY <1>0, <1>6 DEF StartThread, FindFreeFiber, NextProbe, SwitchTo
  <2>2. PICK h \in Fibers : h = probe[t]
    BY <1>0 DEF TypeOK
  <2>3. fpc[h] = "fresh"
    BY <1>1, <2>1, <2>2, FreeHasNone DEF IOStartsFresh
  <2>4. frame[h].job = NoJob
    BY <1>0, <2>3, FrameFields DEF JobAt, Executing, Within
  <2>5. IOOnly'
    BY <1>1, <2>1, <2>2, <2>3, <2>4 DEF IOOnly, IOPlaces
  <2>6. \A g \in Fibers : ~(IOHas(frame[g].job) \/ fpc[g] = "io")
    BY <1>0, <1>2, <2>1 DEF IOInv, IOKept
  <2>7. IOKept'
    BY <1>1, <1>3, <2>6 DEF IOKept
  <2>8. QED
    BY <1>4, <2>5, <2>7 DEF IOInv
<1>7. QED
  BY <1>5, <1>6

\* Every step of the Manager does.
LEMMA IONext ==
  ASSUME SchedInv, LeftInv, SortInv, IOInv, [Next]_vars, StartThread(IOThread) => IOStartsFresh
  PROVE  SortInv' /\ IOInv'
<1>0. TypeOK /\ FramesOK /\ JobInv /\ TypeInv
  BY DEF SchedInv, TypeInv, TypeOK, FramesOK
<1>1. ASSUME UNCHANGED <<fiberVars, programVars>>, UNCHANGED running
      PROVE  SortInv' /\ IOInv'
  <2>1. UNCHANGED <<fpc, frame, program>> /\ \A j : IOHas(j)' <=> IOHas(j)
    BY <1>1 DEF Submissions, AllOps, IsIO, IOHas, fiberVars, programVars
  <2>2. IOInv'
    BY <1>1, <2>1 DEF IOInv, IOOnly, IOKept, IOTurns
  <2>3. QED
    BY <1>1, <2>2, SortStays
<1>2. CASE UNCHANGED vars
  BY <1>1, <1>2 DEF vars, schedVars, threadVars
<1>3. ASSUME NEW t \in Threads, StartThread(t)
      PROVE  SortInv' /\ IOInv'
  <2>1. UNCHANGED <<fiberVars, programVars>>
    BY <1>3 DEF StartThread
  <2>2. QED
    BY <1>3, <2>1, SortStays, IOStart
<1>4. ASSUME NEW t \in Threads, Run(t)
      PROVE  SortInv' /\ IOInv'
  BY <1>1, <1>4 DEF Run
<1>5. ASSUME NEW t \in Threads, running[t] # NoFiber, FiberStep(t, running[t])
      PROVE  SortInv' /\ IOInv'
  <2>1. PICK f \in Fibers : f = running[t]
    BY <1>0, <1>5 DEF TypeOK
  <2>2. Moves(f)
    BY <1>0, <1>5, <2>1, StepMoves
  <2>3. QED
    BY <1>0, <1>5, <2>1, <2>2, SortStep, IOStep
<1>6. QED
  BY <1>2, <1>3, <1>4, <1>5 DEF Next, ThreadStep, Terminated

\* At the start only main has something to ask for,
LEMMA AsksInit ==
  ASSUME Init
  PROVE  AsksInv
<1>0. /\ TypeOK /\ FramesOK /\ program \in Programs
      /\ entries = [c \in Counters |-> <<>>] /\ queue = [p \in Prio |-> <<>>]
  BY InitTypes DEF Init, TypeInv, TypeOK, FramesOK
<1>1. ASSUME NEW f \in Fibers
      PROVE  Remaining(f) = IF f = running[MainThread] THEN program.body[MainJob] ELSE <<>>
  <2>1. /\ frame[f].op = NoOp
        /\ frame[f].rest = IF f = running[MainThread] THEN program.body[MainJob] ELSE <<>>
    BY DEF Init
  <2>2. QED
    BY <1>0, <2>1, RemainingIs
<1>2. \A i \in DOMAIN program.body[MainJob] : Submission(program.body[MainJob][i]) \subseteq Submissions
  BY <1>0, ProgramOps DEF Submissions, Code
<1>3. AsksListed
  BY <1>1, <1>2 DEF AsksListed
<1>4. EntriesListed /\ QueuesSorted
  BY <1>0 DEF EntriesListed, QueuesSorted
<1>5. QED
  BY <1>3, <1>4 DEF AsksInv

\* and no fiber has a job but main's.
LEMMA IOInit ==
  ASSUME Init, IOJobsStay
  PROVE  SortInv /\ IOInv
<1>0. TypeOK /\ FramesOK /\ program \in Programs
  BY InitTypes DEF Init, TypeInv, TypeOK, FramesOK
<1>1. PICK main \in Fibers : main = running[MainThread]
  BY FirstOnes
<1>2. \A f \in Fibers : /\ frame[f].op = NoOp /\ frame[f].tls = MainThread
                        /\ frame[f].job = IF f = main THEN MainJob ELSE NoJob
                        /\ frame[f].rest = IF f = main THEN program.body[MainJob] ELSE <<>>
                        /\ fpc[f] = IF f = main THEN "body" ELSE "fresh"
  BY <1>1 DEF Init
<1>3. \A f \in Fibers : Remaining(f) = IF f = main THEN program.body[MainJob] ELSE <<>>
  BY <1>0, <1>2, RemainingIs
<1>4. MainJob \in Code /\ MainJob \notin Jobs /\ NoJob \notin Jobs
  BY SchedulerAssumption DEF Code
<1>5. AsksInv
  BY AsksInit
<1>8. IOStays
  BY <1>2, <1>4 DEF IOStays
<1>9. IOKept /\ IOTurns
  BY <1>2, <1>4 DEF IOKept, IOTurns, IOHas, Turning
<1>10. IOOnly
  <2>1. IOThread \in Threads /\ MainThread \in Threads /\ IOThread # MainThread /\ NoFiber \notin Fibers
    BY SchedulerAssumption, CounterAssumption DEF Threads, IOThread, MainThread
  <2>2. LeftInv
    BY <1>0, InitLeft
  <2>3. running[IOThread] # main
    BY <1>1, <2>1, <2>2 DEF LeftInv, OneHas, Has
  <2>4. QED
    BY <1>2, <2>3 DEF IOOnly, IOPlaces
<1>11. QED
  BY <1>5, <1>8, <1>9, <1>10 DEF SortInv, IOInv

\* What a fiber executes has one priority, so it is an IO job exactly on the IO thread.
LEMMA IOImplies ==
  ASSUME TypeOK, LeftInv, IOInv
  PROVE  IOApart
<1>1. SUFFICES ASSUME NEW t \in Threads, NEW f \in Fibers, running[t] = f, frame[f].job \in Jobs,
                      NEW s \in Submissions, s.job = frame[f].job
               PROVE  (s.prio = "io") <=> (t = IOThread)
  <2>1. \A t \in Threads : (t = IOThread) \in BOOLEAN
    OBVIOUS
  <2>2. QED
    BY <1>1 DEF IOApart
<1>2. s \in [prio : Prio, job : Jobs] /\ IOThread \in Threads
  <2>1. PICK a \in AllOps : s \in Submission(a)
    BY DEF Submissions
  <2>2. a \in Op
    BY <2>1, ProgramOps
  <2>3. s \in [prio : Prio, job : Jobs]
    BY <2>1, <2>2, OpTypes DEF Submission, Entry, Prio
  <2>4. QED
    BY <2>3, SchedulerAssumption DEF Threads, IOThread
<1>3. ASSUME s.prio = "io" PROVE t = IOThread
  <2>1. s = [prio |-> "io", job |-> frame[f].job]
    BY <1>1, <1>2, <1>3
  <2>2. IOHas(frame[f].job)
    BY <1>1, <2>1 DEF IOHas, IsIO
  <2>3. running[IOThread] = f
    BY <2>2 DEF IOInv, IOKept
  <2>4. QED
    BY <1>1, <1>2, <2>3 DEF LeftInv, OneHas, Has
<1>4. ASSUME t = IOThread PROVE s.prio = "io"
  <2>1. IOHas(frame[f].job)
    BY <1>1, <1>4, SchedulerAssumption DEF IOInv, IOOnly, Code
  <2>2. [prio |-> "io", job |-> frame[f].job] \in Submissions
    BY <2>1 DEF IOHas, IsIO
  <2>3. s = [prio |-> "io", job |-> frame[f].job]
    BY <1>1, <2>2, OnePrio
  <2>4. QED
    BY <2>3
<1>5. QED
  BY <1>3, <1>4

\* Nor has it where a fiber that is left there is taken by the thread it has left.
LEMMA IOTakesFresh ==
  ASSUME TypeOK, IOInv, SameThread', StartThread(IOThread)
  PROVE  IOStartsFresh
<1>0. /\ running \in [Threads -> Fibers \cup {NoFiber}]
      /\ IOThread \in Threads /\ NoFiber \notin Fibers
  BY SchedulerAssumption, CounterAssumption DEF TypeOK, Threads, IOThread
<1>1. SUFFICES ASSUME idle[probe[IOThread]], fpc[probe[IOThread]] = "inGet" PROVE FALSE
  BY DEF IOStartsFresh
<1>2. PICK h \in Fibers : h = probe[IOThread]
  BY <1>0 DEF TypeOK
<1>3. running'[IOThread] = h /\ fpc' = fpc /\ frame' = frame
  BY <1>0, <1>1, <1>2 DEF StartThread, FindFreeFiber, SwitchTo, fiberVars
<1>4. frame[h].tls = IOThread
  BY <1>0, <1>1, <1>2, <1>3 DEF SameThread, CleanupTLS
<1>5. QED
  BY <1>1, <1>2, <1>4 DEF IOInv, IOTurns, Turning

\* ManagerJobs.cpp:44-47, "IO only does IO jobs": where IO jobs do not wait and each
\* cleanup uses the TLS of its own thread, the IO thread executes all IO jobs and
\* nothing else.
THEOREM IOStaysApart == Spec /\ IOJobsStay /\ []SameThread => []IOApart
<1>1. Init /\ IOJobsStay /\ TypeOK => LeftInv /\ SortInv /\ IOInv
  BY InitLeft, IOInit
<1>2. /\ SchedInv /\ SchedInv' /\ SameThread /\ SameThread' /\ [Next]_vars
      /\ LeftInv /\ SortInv /\ IOInv
      => LeftInv' /\ SortInv' /\ IOInv'
  <2>1. SUFFICES ASSUME SchedInv, SchedInv', SameThread, SameThread', [Next]_vars, LeftInv, SortInv, IOInv
                 PROVE  LeftInv' /\ SortInv' /\ IOInv'
    OBVIOUS
  <2>2. TypeOK /\ TypeOK'
    BY <2>1 DEF SchedInv, TypeInv
  <2>3. LeftInv'
    BY <2>1, <2>2, NextLeft
  <2>4. StartThread(IOThread) => IOStartsFresh
    BY <2>1, <2>2, IOTakesFresh
  <2>5. QED
    BY <2>1, <2>3, <2>4, IONext
<1>3. TypeOK /\ LeftInv /\ IOInv => IOApart
  BY IOImplies
<1>4. SchedInv => TypeOK
  BY DEF SchedInv, TypeInv
<1>5. QED
  BY <1>1, <1>2, <1>3, <1>4, SchedulerInvariant, PTL DEF Spec

\* Main's thread is the only worker.
OnlyMainWorks == program.threads \subseteq {MainThread, IOThread}

\* Nobody else starts or is on a fiber, or has had its TLS taken.
TwoThreads ==
  /\ tpc[MainThread] # "find"
  /\ \A t \in Threads \ {MainThread, IOThread} : tpc[t] # "find" /\ running[t] = NoFiber
  /\ \A f \in Fibers : fpc[f] \in Turning => frame[f].tls \in {MainThread, IOThread}

\* With one worker the pointer a fiber holds is that of the worker, which alone resumes it.
LEMMA TwoThreadsSame == ASSUME TypeOK, IOInv, TwoThreads PROVE SameThread
<1>1. SUFFICES ASSUME NEW t \in Threads, running[t] # NoFiber PROVE CleanupTLS(t, running[t]) = t
  BY DEF SameThread
<1>2. PICK f \in Fibers : f = running[t]
  BY <1>1 DEF TypeOK
<1>3. CASE fpc[f] \in {"inGet", "inGetClear"}
  <2>1. t # IOThread
    BY <1>2, <1>3 DEF IOInv, IOOnly, IOPlaces
  <2>2. frame[f].tls = MainThread /\ t = MainThread
    BY <1>1, <1>3, <2>1 DEF TwoThreads, IOInv, IOTurns, Turning
  <2>3. QED
    BY <1>2, <1>3, <2>2 DEF CleanupTLS
<1>4. QED
  BY <1>2, <1>3 DEF CleanupTLS

\* Where a thread fiber is changes when a fiber goes back to it,
LEMMA TpcMoves ==
  ASSUME NEW t \in Threads, NEW f \in Fibers, FiberStep(t, f)
  PROVE  UNCHANGED tpc \/ SwitchBack(t, f)
<1>1. CASE \/ CleanupStore(t, f) \/ CleanupClear(t, f) \/ Loop(t, f) \/ DequeueIO(t, f)
           \/ DequeueHigh(t, f) \/ ScanReady(t, f) \/ SwitchToReady(t, f) \/ DequeueNormal(t, f)
           \/ DequeueLow(t, f)
  BY <1>1 DEF CleanupStore, CleanupClear, Loop, NextTurn, DequeueIO, DequeueHigh, ScanReady,
     SwitchToReady, DequeueNormal, DequeueLow, Dequeue, threadVars
<1>2. CASE \/ ScheduleCount(t, f) \/ ScheduleUncounted(t, f) \/ ScheduleJob(t, f) \/ WaitNot(t, f)
           \/ WaitForCounter(t, f) \/ WaitDone(t, f) \/ WaitThrows(t, f) \/ WaitLeaves(t, f)
           \/ WaitSwitches(t, f) \/ BlockingWaits(t, f) \/ LookAgain(t, f) \/ CvWait(t, f)
  BY <1>2 DEF ScheduleCount, ScheduleUncounted, ScheduleJob, WaitNot, WaitForCounter, WaitDone,
     WaitThrows, WaitLeaves, WaitSwitches, BlockingWaits, LookAgain, CvWait, threadVars
<1>3. CASE \/ Notify(t, f) \/ CvReturns(t, f) \/ NewCounter(t, f) \/ ChangeQueue(t, f)
           \/ QueueSteps(t, f) \/ Shutdown(t, f) \/ ShutdownJoins(t, f) \/ Finish(t, f)
           \/ Executed(t, f) \/ MainEnds(t, f) \/ MainLeaves(t, f) \/ Ready(t, f) \/ InCounter(t, f)
  BY <1>3 DEF Notify, CvReturns, NewCounter, ChangeQueue, QueueSteps, Shutdown, ShutdownJoins, Finish,
     Executed, MainEnds, MainLeaves, Ready, InCounter, threadVars, schedVars
<1>4. QED
  BY <1>1, <1>2, <1>3 DEF FiberStep

\* which does not send it to look for its first fiber.
LEMMA NoneFinds ==
  ASSUME TypeOK, NEW t \in Threads, NEW f \in Fibers, FiberStep(t, f), NEW u \in Threads, tpc[u] # "find"
  PROVE  tpc'[u] # "find"
<1>1. tpc \in [Threads -> ThreadPC] /\ (UNCHANGED tpc \/ SwitchBack(t, f))
  BY TpcMoves DEF TypeOK
<1>2. QED
  BY <1>1 DEF SwitchBack

\* No other thread comes in, and no TLS but these two is used.
LEMMA TwoThreadsNext ==
  ASSUME TypeOK, TwoThreads, [Next]_vars
  PROVE  TwoThreads'
<1>0. /\ IOThread \in Threads /\ MainThread \in Threads /\ tpc \in [Threads -> ThreadPC]
      /\ running \in [Threads -> Fibers \cup {NoFiber}]
  BY SchedulerAssumption DEF TypeOK, Threads, IOThread, MainThread
<1>1. CASE UNCHANGED vars
  BY <1>1 DEF vars, schedVars, threadVars, fiberVars, TwoThreads
<1>2. ASSUME NEW t \in Threads, StartThread(t)
      PROVE  TwoThreads'
  <2>1. t = IOThread
    BY <1>0, <1>2 DEF TwoThreads, StartThread
  <2>2. \A u \in Threads : u # t => tpc'[u] = tpc[u] /\ running'[u] = running[u]
    BY <1>0, <1>2 DEF StartThread, FindFreeFiber, NextProbe, SwitchTo
  <2>3. MainThread # IOThread /\ UNCHANGED <<fpc, frame>>
    BY <1>2, SchedulerAssumption DEF StartThread, fiberVars, MainThread, IOThread
  <2>4. QED
    BY <1>0, <2>1, <2>2, <2>3 DEF TwoThreads
<1>3. ASSUME NEW t \in Threads, Run(t)
      PROVE  TwoThreads'
  <2>1. UNCHANGED <<running, fpc, frame>> /\ \A u \in Threads : tpc'[u] = tpc[u] \/ tpc'[u] = "returned"
    BY <1>0, <1>3 DEF Run, fiberVars
  <2>2. QED
    BY <1>0, <2>1 DEF TwoThreads
<1>4. ASSUME NEW t \in Threads, running[t] # NoFiber, FiberStep(t, running[t])
      PROVE  TwoThreads'
  <2>1. PICK f \in Fibers : f = running[t]
    BY <1>4 DEF TypeOK
  <2>2. \A u \in Threads : tpc[u] # "find" => tpc'[u] # "find"
    BY <1>4, <2>1, NoneFinds
  <2>3. Elsewhere(t, f) /\ Turns(t, f)
    BY <1>4, <2>1, StepPlaces
  <2>4. t \in {MainThread, IOThread}
    BY <1>4 DEF TwoThreads
  <2>5. QED
    BY <1>0, <2>2, <2>3, <2>4 DEF TwoThreads, Elsewhere, Turns, Woken, Turning
<1>5. QED
  BY <1>1, <1>2, <1>3, <1>4 DEF Next, ThreadStep, Terminated

LEMMA TwoThreadsInit ==
  ASSUME Init, OnlyMainWorks
  PROVE  TwoThreads
<1>1. MainThread \in Threads /\ running[MainThread] \in Fibers /\ NoFiber \notin Fibers
  BY FirstOnes, CounterAssumption
<1>2. \A t \in Threads : running[t] # NoFiber => t \in program.threads
  BY DEF Init, FirstFibers
<1>3. \A t \in Threads : tpc[t] = "find" => t \in program.threads /\ running[t] = NoFiber
  BY DEF Init
<1>4. \A f \in Fibers : fpc[f] \in {"fresh", "body"}
  BY DEF Init
<1>5. QED
  BY <1>1, <1>2, <1>3, <1>4 DEF OnlyMainWorks, TwoThreads, Turning

\* Where the threads have started before a fiber is left in GetNextJob, a thread that
\* starts does not take one of those.
LEMMA StartsFresh ==
  ASSUME TypeOK, LeftInv, StartedFirst, NEW t \in Threads, tpc[t] = "find", idle[probe[t]]
  PROVE  fpc[probe[t]] = "fresh"
<1>1. PICK h \in Fibers : h = probe[t]
  BY DEF TypeOK
<1>2. \A u \in Threads : running[u] # h
  BY <1>1, LeftImplies DEF FiberIsLeft
<1>3. fpc[h] # "inGet"
  BY <1>2 DEF StartedFirst, Displaced
<1>4. QED
  BY <1>1, <1>3 DEF LeftInv, Flags

\* With main's thread as the only worker and IO jobs that do not wait, one thing is to be
\* assumed of what happens, which Run does not see to (Manager.cpp:111-143): that the IO
\* thread has started before a fiber is left in GetNextJob.  Then the TLS used is the
\* thread's own, fibers are left before they are used, and IO jobs are the IO thread's.
THEOREM OneWorkerIsSafe ==
  Spec /\ OnlyMainWorks /\ IOJobsStay /\ []StartedFirst => [](SameThread /\ FiberIsLeft /\ IOApart)
<1>1. Init /\ OnlyMainWorks /\ IOJobsStay /\ TypeOK => LeftInv /\ SortInv /\ IOInv /\ TwoThreads
  BY InitLeft, IOInit, TwoThreadsInit
<1>2. /\ SchedInv /\ SchedInv' /\ StartedFirst /\ [Next]_vars
      /\ LeftInv /\ SortInv /\ IOInv /\ TwoThreads
      => LeftInv' /\ SortInv' /\ IOInv' /\ TwoThreads'
  <2>1. SUFFICES ASSUME SchedInv, SchedInv', StartedFirst, [Next]_vars, LeftInv, SortInv, IOInv, TwoThreads
                 PROVE  LeftInv' /\ SortInv' /\ IOInv' /\ TwoThreads'
    OBVIOUS
  <2>2. TypeOK /\ TypeOK' /\ IOThread \in Threads
    BY <2>1, SchedulerAssumption DEF SchedInv, TypeInv, IOThread, Threads
  <2>3. SameThread /\ TwoThreads'
    BY <2>1, <2>2, TwoThreadsSame, TwoThreadsNext
  <2>4. IOStartsFresh
    BY <2>1, <2>2, StartsFresh DEF IOStartsFresh
  <2>5. LeftInv'
    BY <2>1, <2>2, <2>3, NextLeft
  <2>6. QED
    BY <2>1, <2>3, <2>4, <2>5, IONext
<1>3. TypeOK /\ LeftInv /\ IOInv /\ TwoThreads => SameThread /\ FiberIsLeft /\ IOApart
  BY IOImplies, LeftImplies, TwoThreadsSame
<1>4. SchedInv => TypeOK
  BY DEF SchedInv, TypeInv
<1>5. QED
  BY <1>1, <1>2, <1>3, <1>4, SchedulerInvariant, PTL DEF Spec

\* Main's is the only thread there is: it has started.
OnlyMain == program.threads = {MainThread}
NoneStarts == \A t \in Threads : tpc[t] # "find"

LEMMA NoneStartsNext ==
  ASSUME TypeOK, NoneStarts, [Next]_vars
  PROVE  NoneStarts'
<1>0. tpc \in [Threads -> ThreadPC]
  BY DEF TypeOK
<1>1. CASE UNCHANGED vars
  BY <1>1 DEF vars, schedVars, threadVars, NoneStarts
<1>2. ASSUME NEW t \in Threads, Run(t)
      PROVE  NoneStarts'
  BY <1>0, <1>2 DEF Run, NoneStarts
<1>3. ASSUME NEW t \in Threads, running[t] # NoFiber, FiberStep(t, running[t])
      PROVE  NoneStarts'
  <2>1. PICK f \in Fibers : f = running[t]
    BY <1>3 DEF TypeOK
  <2>2. QED
    BY <1>3, <2>1, NoneFinds DEF NoneStarts
<1>4. QED
  BY <1>1, <1>2, <1>3 DEF Next, ThreadStep, StartThread, NoneStarts, Terminated

LEMMA OnlyMainStarted == Spec /\ OnlyMain => []StartedFirst
<1>1. Init /\ OnlyMain => NoneStarts
  <2>1. SUFFICES ASSUME Init, OnlyMain PROVE NoneStarts
    OBVIOUS
  <2>2. MainThread \in Threads /\ running[MainThread] # NoFiber
    BY <2>1, FirstOnes, CounterAssumption
  <2>3. \A t \in Threads : tpc[t] = "find" => t \in program.threads /\ running[t] = NoFiber
    BY <2>1 DEF Init
  <2>4. QED
    BY <2>1, <2>2, <2>3 DEF OnlyMain, NoneStarts
<1>2. TypeOK /\ NoneStarts /\ [Next]_vars => NoneStarts'
  BY NoneStartsNext
<1>3. NoneStarts => StartedFirst
  BY DEF NoneStarts, StartedFirst
<1>4. QED
  BY <1>1, <1>2, <1>3, TypeCorrect, PTL DEF Spec

\* Manager.cpp:16, 111-126: with main's thread alone, as with NumThreads = 0, or without
\* AutoSpawnThreads and none made by hand, the same with nothing assumed of what happens.
THEOREM OneThreadIsSafe ==
  Spec /\ OnlyMain /\ IOJobsStay => [](SameThread /\ FiberIsLeft /\ IOApart)
<1>1. OnlyMain => OnlyMainWorks
  BY DEF OnlyMain, OnlyMainWorks
<1>2. QED
  BY <1>1, OnlyMainStarted, OneWorkerIsSafe, PTL
=============================================================================
