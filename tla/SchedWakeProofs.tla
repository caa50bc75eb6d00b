-------------------------- MODULE SchedWakeProofs --------------------------
(***************************************************************************)
(* What holds of the wake protocol for every number of CPUs, tasks and     *)
(* wakes.  Each part takes one conjunct of SchedInv through the actions:   *)
(* the types and what a call in progress knows; the one place of a task;   *)
(* the one place of its node; that a wake is attended to; that no CPU      *)
(* halts over work.                                                        *)
(***************************************************************************)
EXTENDS SchedWake, FiniteSetTheorems, TLAPS

----------------------------------------------------------------------------
(* Calls in progress. *)

FramesType == [CPU -> [Level -> FrameType]]
FramePlace == {"idle", "swap", "token", "claim", "locate", "publish", "release", "again",
               "need", "halted", "home", "own", "test", "insert", "recheck"}

\* The fields of a call.
LEMMA FrameFields ==
    /\ \A f \in FrameType : /\ f.at \in FramePlace /\ f.task \in Task \cup {NoTask}
                            /\ f.cpu \in CPU \cup {NoTask} /\ f.then \in {"idle", "home", "force"}
                            /\ f.place \in BOOLEAN
    /\ NoFrame \in FrameType
    /\ \A t \in Task : WakeFrame(t) \in FrameType
    /\ \A t \in Task : [WakeFrame(t) EXCEPT !.at = "token", !.place = FALSE] \in FrameType
    /\ \A t \in Task, c \in CPU : EnqueueFrame(t, c) \in FrameType
    /\ \A f \in FrameType, place \in FramePlace : [f EXCEPT !.at = place] \in FrameType
    /\ \A f \in FrameType, place \in FramePlace, d \in CPU \cup {NoTask} :
          [f EXCEPT !.at = place, !.cpu = d] \in FrameType
    /\ \A f \in FrameType, place \in FramePlace, d \in CPU, th \in {"idle", "home", "force"} :
          [f EXCEPT !.at = place, !.cpu = d, !.then = th] \in FrameType
  <1>1. \A f \in FrameType : /\ f.at \in FramePlace /\ f.task \in Task \cup {NoTask}
                             /\ f.cpu \in CPU \cup {NoTask} /\ f.then \in {"idle", "home", "force"}
                             /\ f.place \in BOOLEAN
    BY DEF FrameType, FramePlace
  <1>2. NoFrame \in FrameType
    BY DEF FrameType, NoFrame
  <1>3. \A t \in Task : WakeFrame(t) \in FrameType
    BY DEF FrameType, NoFrame, WakeFrame
  <1>4. \A t \in Task : [WakeFrame(t) EXCEPT !.at = "token", !.place = FALSE] \in FrameType
    BY DEF FrameType, NoFrame, WakeFrame
  <1>5. \A t \in Task, c \in CPU : EnqueueFrame(t, c) \in FrameType
    BY DEF FrameType, NoFrame, EnqueueFrame
  <1>6. \A f \in FrameType, place \in FramePlace : [f EXCEPT !.at = place] \in FrameType
    BY DEF FrameType, FramePlace
  <1>7. \A f \in FrameType, place \in FramePlace, d \in CPU \cup {NoTask} :
          [f EXCEPT !.at = place, !.cpu = d] \in FrameType
    BY DEF FrameType, FramePlace
  <1>8. ASSUME NEW f \in FrameType, NEW place \in FramePlace, NEW d \in CPU,
               NEW th \in {"idle", "home", "force"}
        PROVE  [f EXCEPT !.at = place, !.cpu = d, !.then = th] \in FrameType
    <2>1. PICK g \in FrameType : g = [f EXCEPT !.at = place, !.cpu = d]
      BY <1>7
    <2>2. [g EXCEPT !.then = th] \in FrameType
      BY DEF FrameType
    <2> QED BY <2>1, <2>2
  <1> QED BY <1>1, <1>2, <1>3, <1>4, <1>5, <1>6, <1>7, <1>8

(***************************************************************************)
(* What a step does to the calls: the call of CPU c at level l is at       *)
(* place, about task t and CPU d, and the other calls are as they were.    *)
(***************************************************************************)
OtherFrames(c, l) ==
    \A d \in CPU, m \in Level : d # c \/ m # l => frame'[d][m] = frame[d][m]

Sets(c, l, place, t, d) ==
    /\ frame' \in FramesType /\ c \in CPU /\ l \in Level /\ OtherFrames(c, l)
    /\ frame'[c][l].at = place /\ frame'[c][l].task = t /\ frame'[c][l].cpu = d

\* A call that is set as a whole.
LEMMA FrameSet ==
    ASSUME frame \in FramesType, NEW c \in CPU, NEW l \in Level, NEW f \in FrameType,
           frame' = [frame EXCEPT ![c][l] = f]
    PROVE  Sets(c, l, f.at, f.task, f.cpu)
  <1>1. frame' \in FramesType
    BY DEF FramesType
  <1>2. frame'[c][l] = f /\ OtherFrames(c, l)
    BY DEF FramesType, OtherFrames
  <1> QED BY <1>1, <1>2 DEF Sets

\* A call that moves on.
LEMMA GoSets ==
    ASSUME frame \in FramesType, NEW c \in CPU, NEW l \in Level, NEW place \in FramePlace,
           Go(c, l, place)
    PROVE  Sets(c, l, place, frame[c][l].task, frame[c][l].cpu)
  <1>1. PICK f : f = [frame[c][l] EXCEPT !.at = place]
    OBVIOUS
  <1>2. frame[c][l] \in FrameType
    BY DEF FramesType
  <1>3. f \in FrameType /\ frame' = [frame EXCEPT ![c][l] = f]
    BY <1>1, <1>2, FrameFields DEF Go
  <1>4. f.at = place /\ f.task = frame[c][l].task /\ f.cpu = frame[c][l].cpu
    BY <1>1, <1>2 DEF FrameType
  <1> QED BY <1>3, <1>4, FrameSet

\* A call that moves on and picks a CPU.
LEMMA GoCpuSets ==
    ASSUME frame \in FramesType, NEW c \in CPU, NEW l \in Level, NEW place \in FramePlace,
           NEW d \in CPU \cup {NoTask},
           frame' = [frame EXCEPT ![c][l].at = place, ![c][l].cpu = d]
    PROVE  Sets(c, l, place, frame[c][l].task, d)
  <1>1. PICK f : f = [frame[c][l] EXCEPT !.at = place, !.cpu = d]
    OBVIOUS
  <1>2. frame[c][l] \in FrameType
    BY DEF FramesType
  <1>3. f \in FrameType /\ frame' = [frame EXCEPT ![c][l] = f]
    BY <1>1, <1>2, FrameFields
  <1>4. f.at = place /\ f.task = frame[c][l].task /\ f.cpu = d
    BY <1>1, <1>2 DEF FrameType
  <1> QED BY <1>3, <1>4, FrameSet

\* A call that returns.
LEMMA ReturnSets ==
    ASSUME frame \in FramesType, NEW c \in CPU, NEW l \in Level, Return(c, l)
    PROVE  Sets(c, l, "idle", NoTask, NoTask)
  <1>1. Sets(c, l, NoFrame.at, NoFrame.task, NoFrame.cpu)
    BY FrameFields, FrameSet DEF Return
  <1> QED BY <1>1 DEF NoFrame

\* A wake that starts.
LEMMA WakeSets ==
    ASSUME frame \in FramesType, NEW c \in CPU, NEW l \in Level, NEW t \in Task,
           frame' = [frame EXCEPT ![c][l] = WakeFrame(t)]
    PROVE  Sets(c, l, "swap", t, NoTask)
  <1>1. PICK f \in FrameType : f = WakeFrame(t)
    BY FrameFields
  <1>2. f.at = "swap" /\ f.task = t /\ f.cpu = NoTask
    BY <1>1 DEF WakeFrame, NoFrame
  <1> QED BY <1>1, <1>2, FrameSet

\* A wake by token that starts.
LEMMA TokenSets ==
    ASSUME frame \in FramesType, NEW c \in CPU, NEW t \in Task,
           Call(c, [WakeFrame(t) EXCEPT !.at = "token", !.place = FALSE])
    PROVE  Sets(c, "exec", "token", t, NoTask)
  <1>1. PICK f \in FrameType : f = [WakeFrame(t) EXCEPT !.at = "token", !.place = FALSE]
    BY FrameFields
  <1>2. f.at = "token" /\ f.task = t /\ f.cpu = NoTask
    BY <1>1 DEF WakeFrame, NoFrame
  <1> QED BY <1>1, <1>2, FrameSet DEF Call, Level

\* An enqueue that starts.
LEMMA EnqueueSets ==
    ASSUME frame \in FramesType, NEW c \in CPU, NEW l \in Level, NEW t \in Task, NEW d \in CPU,
           frame' = [frame EXCEPT ![c][l] = EnqueueFrame(t, d)]
    PROVE  Sets(c, l, "own", t, d)
  <1>1. PICK f \in FrameType : f = EnqueueFrame(t, d)
    BY FrameFields
  <1>2. f.at = "own" /\ f.task = t /\ f.cpu = d
    BY <1>1 DEF EnqueueFrame, NoFrame
  <1> QED BY <1>1, <1>2, FrameSet

\* A call that goes on to kick a CPU.
LEMMA KickSets ==
    ASSUME frame \in FramesType, NEW c \in CPU, NEW l \in Level, NEW d \in CPU,
           NEW then \in {"idle", "home", "force"}, Kick(c, l, d, then)
    PROVE  \/ d # c /\ Sets(c, l, "need", frame[c][l].task, d)
           \/ d = c /\ then = "home" /\ Sets(c, l, "home", frame[c][l].task, NoTask)
           \/ d = c /\ then # "home" /\ Sets(c, l, "idle", NoTask, NoTask)
  <1>0. frame[c][l] \in FrameType
    BY DEF FramesType
  <1>1. CASE d # c
    <2>1. PICK f : f = [frame[c][l] EXCEPT !.at = "need", !.cpu = d, !.then = then]
      OBVIOUS
    <2>2. f \in FrameType
      BY <1>0, <2>1, FrameFields DEF FramePlace
    <2>3. frame' = [frame EXCEPT ![c][l] = f]
      BY <1>1, <2>1 DEF Kick
    <2>4. f.at = "need" /\ f.task = frame[c][l].task /\ f.cpu = d
      BY <1>0, <2>1 DEF FrameType
    <2> QED BY <1>1, <2>2, <2>3, <2>4, FrameSet
  <1>2. CASE d = c /\ then = "home"
    <2>1. frame' = [frame EXCEPT ![c][l] = [frame[c][l] EXCEPT !.at = "home", !.cpu = NoTask]]
      BY <1>2 DEF Kick
    <2>2. PICK f : f = [frame[c][l] EXCEPT !.at = "home", !.cpu = NoTask]
      OBVIOUS
    <2>3. f \in FrameType
      BY <1>0, <2>2, FrameFields DEF FramePlace
    <2>4. f.at = "home" /\ f.task = frame[c][l].task /\ f.cpu = NoTask
      BY <1>0, <2>2 DEF FrameType
    <2> QED BY <1>2, <2>1, <2>2, <2>3, <2>4, FrameSet
  <1>3. CASE d = c /\ then # "home"
    <2>1. Return(c, l)
      BY <1>3 DEF Kick, Return
    <2> QED BY <1>3, <2>1, ReturnSets
  <1> QED BY <1>1, <1>2, <1>3

\* The token of task t names CPU d.
ParkedAt(t, d) == Location(t) = {d}

(***************************************************************************)
(* The publication of a node ends in a kick of the CPU it went to.         *)
(***************************************************************************)
LEMMA PublishSets ==
    ASSUME TypeInv, NEW c \in CPU, NEW l \in Level, PublishNode(c, l), NEW t, NEW d,
           t = frame[c][l].task, d = frame[c][l].cpu
    PROVE  /\ t \in Task /\ d \in CPU
           /\ \/ ~ParkedAt(t, d) /\ Sets(c, l, "locate", t, NoTask)
              \/ ParkedAt(t, d) /\ d # c /\ Sets(c, l, "need", t, d)
              \/ ParkedAt(t, d) /\ d = c /\ Sets(c, l, "home", t, NoTask)
  <1>1. t \in Task /\ d \in CPU /\ frame \in FramesType
    BY DEF PublishNode, At, TypeInv, TypeOK, CallInv, FramesType
  <1>2. CASE ~ParkedAt(t, d)
    BY <1>1, <1>2, GoCpuSets DEF PublishNode, FramePlace, ParkedAt
  <1>3. CASE ParkedAt(t, d)
    <2>1. Kick(c, l, d, "home")
      BY <1>3 DEF PublishNode, ParkedAt
    <2> QED BY <1>1, <1>3, <2>1, KickSets
  <1> QED BY <1>1, <1>2, <1>3

(***************************************************************************)
(* Where each step of a call leaves it.                                    *)
(***************************************************************************)
LEMMA CallSets ==
    ASSUME TypeInv, NEW c \in CPU, NEW l \in Level, NEW t, NEW d,
           t = frame[c][l].task, d = frame[c][l].cpu
    PROVE  /\ WakeSwap(c, l) => t \in Task /\ Sets(c, l, IF flag[t] THEN "home" ELSE "token", t, d)
           /\ ActivateLocal(c, l) => t \in Task /\ Sets(c, l, "home", t, d)
           /\ TokenLoad(c, l) =>
                 t \in Task /\ Sets(c, l, IF Location(t) = {} THEN "home" ELSE "claim", t, d)
           /\ ClaimNode(c, l) =>
                 t \in Task /\ Sets(c, l, IF queued[t] THEN "home" ELSE "locate", t, d)
           /\ LocateNode(c, l) =>
                 /\ t \in Task
                 /\ \/ Location(t) = {} /\ Sets(c, l, "release", t, d)
                    \/ \E e \in Location(t) : Sets(c, l, "publish", t, e)
           /\ PublishNode(c, l) =>
                 /\ t \in Task /\ d \in CPU
                 /\ \/ ~ParkedAt(t, d) /\ Sets(c, l, "locate", t, NoTask)
                    \/ ParkedAt(t, d) /\ d # c /\ Sets(c, l, "need", t, d)
                    \/ ParkedAt(t, d) /\ d = c /\ Sets(c, l, "home", t, NoTask)
           /\ ReleaseClaim(c, l) => t \in Task /\ Sets(c, l, "again", t, d)
           /\ RecheckFlag(c, l) =>
                 t \in Task /\ Sets(c, l, IF flag[t] THEN "token" ELSE "home", t, d)
           /\ KickHome(c, l) =>
                 /\ t \in Task
                 /\ \/ Sets(c, l, "need", t, home[t]) \/ Sets(c, l, "idle", NoTask, NoTask)
           /\ \A e \in CPU : MigrateWakee(c, l, e) => t \in Task /\ Sets(c, l, "own", t, e)
           /\ KickNeed(c, l) => t \in Task /\ d \in CPU /\ Sets(c, l, "halted", t, d)
           /\ KickHalted(c, l) =>
                 /\ t \in Task /\ d \in CPU
                 /\ Sets(c, l, "home", t, NoTask) \/ Sets(c, l, "idle", NoTask, NoTask)
           /\ EnqueueOwn(c, l) => t \in Task /\ d \in CPU /\ Sets(c, l, "test", t, d)
           /\ EnqueueTest(c, l) =>
                 /\ t \in Task /\ d \in CPU
                 /\ \/ ~flag[t] /\ Sets(c, l, "insert", t, d)
                    \/ flag[t] /\ d # c /\ Sets(c, l, "need", t, d)
                    \/ flag[t] /\ d = c /\ Sets(c, l, "idle", NoTask, NoTask)
           /\ ParkInsert(c, l) => t \in Task /\ d \in CPU /\ Sets(c, l, "recheck", t, d)
           /\ ParkRecheck(c, l) =>
                 /\ t \in Task /\ d \in CPU
                 /\ IF flag[t] THEN Sets(c, l, "own", t, d) ELSE Sets(c, l, "idle", NoTask, NoTask)
  <1>0. /\ frame \in FramesType /\ home \in [Task -> CPU]
        /\ frame[c][l].at # "idle" => t \in Task
        /\ frame[c][l].at \in {"publish", "need", "halted", "own", "test", "insert", "recheck"}
              => d \in CPU
        /\ \A x : Location(x) \subseteq CPU
    BY DEF TypeInv, TypeOK, CallInv, FramesType, Location
  <1> USE <1>0 DEF At, Active, FramePlace
  <1>1. WakeSwap(c, l) => t \in Task /\ Sets(c, l, IF flag[t] THEN "home" ELSE "token", t, d)
    BY GoSets DEF WakeSwap
  <1>2. ActivateLocal(c, l) => t \in Task /\ Sets(c, l, "home", t, d)
    BY GoSets DEF ActivateLocal
  <1>3. TokenLoad(c, l) =>
           t \in Task /\ Sets(c, l, IF Location(t) = {} THEN "home" ELSE "claim", t, d)
    BY GoSets DEF TokenLoad
  <1>4. ClaimNode(c, l) => t \in Task /\ Sets(c, l, IF queued[t] THEN "home" ELSE "locate", t, d)
    BY GoSets DEF ClaimNode
  <1>5. LocateNode(c, l) =>
           /\ t \in Task
           /\ \/ Location(t) = {} /\ Sets(c, l, "release", t, d)
              \/ \E e \in Location(t) : Sets(c, l, "publish", t, e)
    BY GoSets, GoCpuSets DEF LocateNode
  <1>6. PublishNode(c, l) =>
           /\ t \in Task /\ d \in CPU
           /\ \/ ~ParkedAt(t, d) /\ Sets(c, l, "locate", t, NoTask)
              \/ ParkedAt(t, d) /\ d # c /\ Sets(c, l, "need", t, d)
              \/ ParkedAt(t, d) /\ d = c /\ Sets(c, l, "home", t, NoTask)
    BY PublishSets
  <1>7. ReleaseClaim(c, l) => t \in Task /\ Sets(c, l, "again", t, d)
    BY GoSets DEF ReleaseClaim
  <1>8. RecheckFlag(c, l) => t \in Task /\ Sets(c, l, IF flag[t] THEN "token" ELSE "home", t, d)
    BY GoSets DEF RecheckFlag
  <1>9. KickHome(c, l) =>
           t \in Task /\ (Sets(c, l, "need", t, home[t]) \/ Sets(c, l, "idle", NoTask, NoTask))
    <2> SUFFICES ASSUME KickHome(c, l)
                 PROVE  /\ t \in Task
                        /\ Sets(c, l, "need", t, home[t]) \/ Sets(c, l, "idle", NoTask, NoTask)
      OBVIOUS
    <2>1. t \in Task /\ home[t] \in CPU /\ Kick(c, l, home[t], "idle")
      BY DEF KickHome
    <2> QED BY <2>1, KickSets
  <1>10. \A e \in CPU : MigrateWakee(c, l, e) => t \in Task /\ Sets(c, l, "own", t, e)
    BY EnqueueSets DEF MigrateWakee
  <1>11. KickNeed(c, l) => t \in Task /\ d \in CPU /\ Sets(c, l, "halted", t, d)
    BY GoSets DEF KickNeed
  <1>12. KickHalted(c, l) =>
            /\ t \in Task /\ d \in CPU
            /\ Sets(c, l, "home", t, NoTask) \/ Sets(c, l, "idle", NoTask, NoTask)
    BY GoCpuSets, ReturnSets DEF KickHalted
  <1>13. EnqueueOwn(c, l) => t \in Task /\ d \in CPU /\ Sets(c, l, "test", t, d)
    BY GoSets DEF EnqueueOwn
  <1>14. EnqueueTest(c, l) =>
            /\ t \in Task /\ d \in CPU
            /\ \/ ~flag[t] /\ Sets(c, l, "insert", t, d)
               \/ flag[t] /\ d # c /\ Sets(c, l, "need", t, d)
               \/ flag[t] /\ d = c /\ Sets(c, l, "idle", NoTask, NoTask)
    <2> SUFFICES ASSUME EnqueueTest(c, l)
                 PROVE  /\ t \in Task /\ d \in CPU
                        /\ \/ ~flag[t] /\ Sets(c, l, "insert", t, d)
                           \/ flag[t] /\ d # c /\ Sets(c, l, "need", t, d)
                           \/ flag[t] /\ d = c /\ Sets(c, l, "idle", NoTask, NoTask)
      OBVIOUS
    <2>1. t \in Task /\ d \in CPU
      BY DEF EnqueueTest
    <2>2. \/ ~flag[t] /\ Go(c, l, "insert")
          \/ flag[t] /\ d = c /\ Return(c, l)
          \/ flag[t] /\ d # c /\ \E then \in {"idle", "force"} : Kick(c, l, d, then)
      BY DEF EnqueueTest
    <2>3. CASE ~flag[t] /\ Go(c, l, "insert")
      BY <2>1, <2>3, GoSets
    <2>4. CASE flag[t] /\ d = c /\ Return(c, l)
      BY <2>1, <2>4, ReturnSets
    <2>5. CASE flag[t] /\ d # c /\ \E then \in {"idle", "force"} : Kick(c, l, d, then)
      BY <2>1, <2>5, KickSets
    <2> QED BY <2>2, <2>3, <2>4, <2>5
  <1>15. ParkInsert(c, l) => t \in Task /\ d \in CPU /\ Sets(c, l, "recheck", t, d)
    BY GoSets DEF ParkInsert
  <1>16. ParkRecheck(c, l) =>
            /\ t \in Task /\ d \in CPU
            /\ IF flag[t] THEN Sets(c, l, "own", t, d) ELSE Sets(c, l, "idle", NoTask, NoTask)
    BY GoSets, ReturnSets DEF ParkRecheck
  <1> QED BY ONLY <1>1, <1>2, <1>3, <1>4, <1>5, <1>6, <1>7, <1>8, <1>9, <1>10, <1>11, <1>12,
                  <1>13, <1>14, <1>15, <1>16

(***************************************************************************)
(* The calls that an executor or an interrupt makes.                       *)
(***************************************************************************)
LEMMA NewCallSets ==
    ASSUME TypeInv, NEW c \in CPU
    PROVE  /\ WakeDeferred(c) => \E t \in Task : Sets(c, "exec", "swap", t, NoTask)
           /\ RouteNode(c) =>
                 /\ cur[c] \in Task
                 /\ IF Location(cur[c]) \in {{c}, {}} THEN frame' = frame
                    ELSE Sets(c, "exec", "token", cur[c], NoTask)
           /\ TakeParked(c) =>
                 /\ cur[c] \in Task
                 /\ IF cur[c] \in parked[c] /\ flag[cur[c]]
                    THEN Sets(c, "exec", "own", cur[c], c) ELSE frame' = frame
           /\ \A t \in Task : PollWakes(c, t) => Sets(c, "exec", "swap", t, NoTask)
           /\ \A d \in CPU : PollPending(c, d) =>
                                cur[c] \in Task /\ Sets(c, "exec", "own", cur[c], d)
           /\ \A d \in CPU, t \in Task : Steal(c, d, t) => Sets(c, "exec", "own", t, c)
           /\ \A t \in Task : IrqWakes(c, t) => Sets(c, "irq", "swap", t, NoTask)
  <1>0. /\ frame \in FramesType /\ taken[c] \in Seq(Task)
        /\ pc[c] \in {"route", "take", "poll"} => cur[c] \in Task
        /\ "exec" \in Level /\ "irq" \in Level
    BY DEF TypeInv, TypeOK, HandInv, FramesType, Level
  <1> USE <1>0
  <1>1. WakeDeferred(c) => \E t \in Task : Sets(c, "exec", "swap", t, NoTask)
    <2>1. taken[c] # <<>> => Head(taken[c]) \in Task
      OBVIOUS
    <2> QED BY <2>1, WakeSets DEF WakeDeferred, Call
  <1>2. RouteNode(c) =>
           /\ cur[c] \in Task
           /\ IF Location(cur[c]) \in {{c}, {}} THEN frame' = frame
              ELSE Sets(c, "exec", "token", cur[c], NoTask)
    BY TokenSets DEF RouteNode, Exec
  <1>3. TakeParked(c) =>
           /\ cur[c] \in Task
           /\ IF cur[c] \in parked[c] /\ flag[cur[c]]
              THEN Sets(c, "exec", "own", cur[c], c) ELSE frame' = frame
    BY EnqueueSets DEF TakeParked, Exec, Call
  <1>4. \A t \in Task : PollWakes(c, t) => Sets(c, "exec", "swap", t, NoTask)
    BY WakeSets DEF PollWakes, Call
  <1>5. \A d \in CPU : PollPending(c, d) =>
                          cur[c] \in Task /\ Sets(c, "exec", "own", cur[c], d)
    BY EnqueueSets DEF PollPending, Exec, Call
  <1>6. \A d \in CPU, t \in Task : Steal(c, d, t) => Sets(c, "exec", "own", t, c)
    BY EnqueueSets DEF Steal, Call
  <1>7. \A t \in Task : IrqWakes(c, t) => Sets(c, "irq", "swap", t, NoTask)
    BY WakeSets DEF IrqWakes
  <1> QED BY ONLY <1>1, <1>2, <1>3, <1>4, <1>5, <1>6, <1>7

----------------------------------------------------------------------------
(* Types. *)

RestType ==
    /\ flag \in [Task -> BOOLEAN] /\ queued \in [Task -> BOOLEAN] /\ home \in [Task -> CPU]
    /\ parked \in [CPU -> SUBSET Task] /\ ready \in [CPU -> SUBSET Task]
    /\ inbox \in [CPU -> SUBSET Task] /\ nodes \in [CPU -> SUBSET Task]
    /\ halted \in [CPU -> BOOLEAN] /\ need \in [CPU -> BOOLEAN] /\ ipi \in [CPU -> BOOLEAN]
    /\ owed \in [Task -> BOOLEAN] /\ wakes \in 0 .. MaxWakes

ExecType ==
    /\ pc \in [CPU -> {"top", "wakers", "inbox", "node", "route", "take", "round", "pick", "poll",
                       "idle", "need", "scan", "hlt", "resume"}]
    /\ cur \in [CPU -> Task \cup {NoTask}] /\ todo \in [CPU -> SUBSET Task]
    /\ left \in [CPU -> 0 .. Cardinality(Task)] /\ ret \in [CPU -> {"round", "pick", "idle"}]
    /\ HandInv

StashType ==
    /\ deferred \in [CPU -> Seq(Task)] /\ \A c \in CPU : Len(deferred[c]) <= MaxPending
    /\ taken \in [CPU -> Seq(Task)]

\* TypeInv, in the parts that are proved apart.
LEMMA TypeParts ==
    /\ TypeInv <=> RestType /\ ExecType /\ StashType /\ frame \in FramesType /\ CallInv
    /\ TypeInv' <=> RestType' /\ ExecType' /\ StashType' /\ frame' \in FramesType /\ CallInv'
  BY DEF TypeInv, TypeOK, RestType, ExecType, StashType, FramesType

\* The stash of a CPU holds at most MaxPending wakers: a full one takes no more,
\* and the executor empties it into an array of its own.
LEMMA StashStep ==
    ASSUME StashType, [Next]_vars
    PROVE  StashType'
  <1> USE DEF StashType
  <1>1. ASSUME UNCHANGED <<deferred, taken>> PROVE StashType'
    BY <1>1
  <1>2. ASSUME NEW c \in CPU, RoundTop(c) PROVE StashType'
    BY <1>2, SchedAssumption DEF RoundTop
  <1>3. ASSUME NEW c \in CPU, LeaveIdle(c) PROVE StashType'
    <2>1. CASE UNCHANGED <<taken, deferred>>
      BY <1>1, <2>1
    <2>2. CASE /\ taken' = [taken EXCEPT ![c] = deferred[c]]
               /\ deferred' = [deferred EXCEPT ![c] = <<>>]
      BY <2>2, SchedAssumption
    <2> QED BY <1>3, <2>1, <2>2 DEF LeaveIdle
  <1>4. ASSUME NEW c \in CPU, WakeDeferred(c) PROVE StashType'
    <2>1. taken[c] \in Seq(Task) /\ taken[c] # <<>>
      BY <1>4 DEF WakeDeferred
    <2>2. Tail(taken[c]) \in Seq(Task)
      BY <2>1
    <2> QED BY <1>4, <2>2 DEF WakeDeferred
  <1>5. ASSUME NEW c \in CPU, NEW t \in Task, IrqDefers(c, t) PROVE StashType'
    <2>1. CASE deferred' = deferred
      BY <1>1, <1>5, <2>1 DEF IrqDefers
    <2>2. CASE Len(deferred[c]) < MaxPending /\ deferred' = [deferred EXCEPT ![c] = Append(@, t)]
      <3>1. /\ Append(deferred[c], t) \in Seq(Task)
            /\ Len(Append(deferred[c], t)) <= MaxPending
        BY <2>2, SchedAssumption
      <3> QED BY <1>5, <2>2, <3>1 DEF IrqDefers
    <2> QED BY <1>5, <2>1, <2>2 DEF IrqDefers
  <1>6. ASSUME NEW c \in CPU, NEW l \in Level, CallStep(c, l) PROVE StashType'
    <2>1. UNCHANGED <<deferred, execVars>>
      BY <1>6 DEF CallStep, WakeSwap, ActivateLocal, TokenLoad, ClaimNode, LocateNode, PublishNode,
                  ReleaseClaim, RecheckFlag, KickHome, MigrateWakee, KickNeed, KickHalted,
                  EnqueueOwn, EnqueueTest, ParkInsert, ParkRecheck
    <2> QED BY <1>1, <2>1 DEF execVars
  <1>7. ASSUME NEW c \in CPU, ExecutorStep(c) \/ TakeIpi(c) \/ \E t \in Task : IrqWakes(c, t),
               ~RoundTop(c), ~LeaveIdle(c), ~WakeDeferred(c)
        PROVE  StashType'
    <2>1. UNCHANGED <<deferred, taken>>
      BY <1>7 DEF ExecutorStep, DetachNodes, RouteNode, TakeParked, NodeDone, DrainPending, EndRound,
                  CommitToHalt, CheckNeed, FinalScan, Resume, DrainInbox, DrainNode, PickTask,
                  PollWakes, PollPending, Steal, TakeIpi, IrqWakes, execVars
    <2> QED BY <1>1, <2>1
  <1>8. CASE UNCHANGED vars
    BY <1>1, <1>8 DEF vars, execVars
  <1> QED BY <1>2, <1>3, <1>4, <1>5, <1>6, <1>7, <1>8 DEF Next, CpuStep

\* A call that is set properly keeps its type.
LEMMA SetsType ==
    ASSUME CallInv, NEW c, NEW l, NEW place, NEW t, NEW d, Sets(c, l, place, t, d),
           place # "idle" => t \in Task,
           place \in {"publish", "need", "halted", "own", "test", "insert", "recheck"} => d \in CPU
    PROVE  frame' \in FramesType /\ CallInv'
  <1>1. frame' \in FramesType
    BY DEF Sets
  <1>2. ASSUME NEW e \in CPU, NEW m \in Level
        PROVE  /\ frame'[e][m].at # "idle" => frame'[e][m].task \in Task
               /\ frame'[e][m].at \in {"publish", "need", "halted", "own", "test", "insert", "recheck"}
                      => frame'[e][m].cpu \in CPU
    BY DEF CallInv, Sets, OtherFrames
  <1> QED BY <1>1, <1>2 DEF CallInv

\* The steps of calls keep the types.
LEMMA CallStepType ==
    ASSUME TypeInv, NEW c \in CPU, NEW l \in Level, CallStep(c, l)
    PROVE  TypeInv'
  <1>0. PICK t, d : t = frame[c][l].task /\ d = frame[c][l].cpu
    OBVIOUS
  <1>1. RestType /\ ExecType /\ CallInv /\ home \in [Task -> CPU] /\ \A x : Location(x) \subseteq CPU
    BY TypeParts DEF RestType, Location
  <1>2. ExecType'
    <2>1. UNCHANGED execVars
      BY DEF CallStep, WakeSwap, ActivateLocal, TokenLoad, ClaimNode, LocateNode, PublishNode,
             ReleaseClaim, RecheckFlag, KickHome, MigrateWakee, KickNeed, KickHalted, EnqueueOwn,
             EnqueueTest, ParkInsert, ParkRecheck
    <2> QED BY <1>1, <2>1 DEF ExecType, execVars, HandInv
  <1>3. frame' \in FramesType /\ CallInv' /\ t \in Task
    <2>1. CASE WakeSwap(c, l) \/ ActivateLocal(c, l) \/ TokenLoad(c, l) \/ ClaimNode(c, l)
               \/ ReleaseClaim(c, l) \/ RecheckFlag(c, l)
      BY <1>0, <1>1, <2>1, CallSets, SetsType
    <2>2. CASE LocateNode(c, l)
      BY <1>0, <1>1, <2>2, CallSets, SetsType
    <2>3. CASE PublishNode(c, l)
      BY <1>0, <1>1, <2>3, CallSets, SetsType
    <2>4. CASE KickHome(c, l)
      BY <1>0, <1>1, <2>4, CallSets, SetsType
    <2>5. CASE \E e \in CPU : MigrateWakee(c, l, e)
      BY <1>0, <1>1, <2>5, CallSets, SetsType
    <2>6. CASE KickNeed(c, l) \/ KickHalted(c, l) \/ EnqueueOwn(c, l)
      BY <1>0, <1>1, <2>6, CallSets, SetsType
    <2>7. CASE EnqueueTest(c, l) \/ ParkInsert(c, l) \/ ParkRecheck(c, l)
      BY <1>0, <1>1, <2>7, CallSets, SetsType
    <2> QED BY <2>1, <2>2, <2>3, <2>4, <2>5, <2>6, <2>7 DEF CallStep
  <1>4. frame[c][l].at \in {"own", "test", "insert", "recheck", "publish", "need", "halted"}
           => d \in CPU
    BY <1>0, <1>1 DEF CallInv
  <1>5. RestType'
    <2> USE <1>0, <1>1, <1>3, <1>4
            DEF RestType, At, Active, cellVars, slotVars, haltVars, histVars
    <2>1. CASE WakeSwap(c, l) \/ ClaimNode(c, l) \/ ReleaseClaim(c, l)
      BY <2>1 DEF WakeSwap, ClaimNode, ReleaseClaim
    <2>2. CASE TokenLoad(c, l) \/ LocateNode(c, l) \/ RecheckFlag(c, l) \/ KickHome(c, l)
      BY <2>2 DEF TokenLoad, LocateNode, RecheckFlag, KickHome
    <2>3. CASE ActivateLocal(c, l)
      BY <2>3 DEF ActivateLocal
    <2>4. CASE PublishNode(c, l)
      BY <2>4 DEF PublishNode
    <2>5. ASSUME NEW e \in CPU, MigrateWakee(c, l, e) PROVE RestType'
      <3>1. \/ \E h \in CPU : ready' = [ready EXCEPT ![h] = @ \ {t}] /\ parked' = parked
            \/ \E h \in CPU : parked' = [parked EXCEPT ![h] = @ \ {t}] /\ ready' = ready
        BY <2>5 DEF MigrateWakee
      <3>2. parked' \in [CPU -> SUBSET Task] /\ ready' \in [CPU -> SUBSET Task]
        BY <3>1
      <3> QED BY <2>5, <3>2 DEF MigrateWakee
    <2>6. CASE KickNeed(c, l) \/ KickHalted(c, l)
      BY <2>6 DEF KickNeed, KickHalted
    <2>7. CASE EnqueueOwn(c, l)
      BY <2>7 DEF EnqueueOwn
    <2>8. CASE EnqueueTest(c, l)
      <3>1. /\ d \in CPU /\ UNCHANGED <<cellVars, nodes, haltVars, histVars>>
            /\ \/ UNCHANGED <<parked, ready, inbox>>
               \/ ready' = [ready EXCEPT ![c] = @ \cup {t}] /\ UNCHANGED <<parked, inbox>>
               \/ inbox' = [inbox EXCEPT ![d] = @ \cup {t}] /\ UNCHANGED <<parked, ready>>
        BY <2>8 DEF EnqueueTest
      <3>2. parked' = parked /\ ready' \in [CPU -> SUBSET Task] /\ inbox' \in [CPU -> SUBSET Task]
        BY <3>1
      <3> QED BY <3>1, <3>2
    <2>9. CASE ParkInsert(c, l)
      BY <2>9 DEF ParkInsert
    <2>10. CASE ParkRecheck(c, l)
      BY <2>10 DEF ParkRecheck
    <2> QED BY <2>1, <2>2, <2>3, <2>4, <2>5, <2>6, <2>7, <2>8, <2>9, <2>10 DEF CallStep
  <1>6. StashType'
    BY StashStep, TypeParts DEF Next, CpuStep
  <1> QED BY <1>2, <1>3, <1>5, <1>6, TypeParts

(***************************************************************************)
(* A round polls no more tasks than there are.                             *)
(***************************************************************************)
LEMMA LeftType ==
    ASSUME TypeInv, NEW c \in CPU
    PROVE  Left(c) \in 0 .. Cardinality(Task) /\ Cardinality(Task) \in Nat
  <1>1. IsFiniteSet(Task) /\ ready[c] \subseteq Task /\ left[c] \in 0 .. Cardinality(Task)
    BY SchedAssumption DEF TypeInv, TypeOK
  <1>2. /\ Cardinality(ready[c]) \in Nat /\ Cardinality(Task) \in Nat
        /\ Cardinality(ready[c]) <= Cardinality(Task)
    BY <1>1, FS_Subset, FS_CardinalityType
  <1> QED BY <1>1, <1>2 DEF Left

\* Calls that do not change keep theirs.
LEMMA SameFrames ==
    ASSUME frame \in FramesType, CallInv, frame' = frame
    PROVE  frame' \in FramesType /\ CallInv'
  BY DEF CallInv

\* The executor's steps keep the types.
LEMMA ExecutorStepType ==
    ASSUME TypeInv, NEW c \in CPU, ExecutorStep(c)
    PROVE  TypeInv'
  <1>1. RestType /\ ExecType /\ CallInv /\ frame \in FramesType
    BY TypeParts
  <1>0. StashType'
    BY StashStep, TypeParts DEF Next, CpuStep
  <1> USE <1>1 DEF cellVars, slotVars, haltVars, histVars, Goto, Exec
  <1>2. CASE \/ RoundTop(c) \/ DetachNodes(c) \/ DrainPending(c) \/ EndRound(c) \/ LeaveIdle(c)
             \/ CommitToHalt(c) \/ CheckNeed(c) \/ FinalScan(c) \/ Resume(c)
    <2>0. Left(c) \in 0 .. Cardinality(Task) /\ 0 \in 0 .. Cardinality(Task)
      BY LeftType
    <2>1. frame' \in FramesType /\ CallInv'
      BY <1>2, SameFrames DEF RoundTop, DetachNodes, DrainPending, EndRound, LeaveIdle,
                             CommitToHalt, CheckNeed, FinalScan, Resume
    <2>2. RestType'
      BY <1>2 DEF RestType, RoundTop, DetachNodes, DrainPending, EndRound, LeaveIdle,
                  CommitToHalt, CheckNeed, FinalScan, Resume
    <2>3. ExecType'
      <3>1. CASE RoundTop(c)
        BY <3>1 DEF RoundTop, ExecType, HandInv, RestType
      <3>2. CASE DetachNodes(c)
        BY <3>2 DEF DetachNodes, ExecType, HandInv, RestType
      <3>3. CASE DrainPending(c)
        BY <3>3, <2>0 DEF DrainPending, ExecType, HandInv
      <3>4. CASE EndRound(c)
        BY <3>4, <2>0 DEF EndRound, ExecType, HandInv
      <3>5. CASE LeaveIdle(c)
        BY <3>5 DEF LeaveIdle, ExecType, HandInv, RestType
      <3>6. CASE CommitToHalt(c) \/ CheckNeed(c) \/ FinalScan(c) \/ Resume(c)
        BY <3>6 DEF CommitToHalt, CheckNeed, FinalScan, Resume, ExecType, HandInv
      <3> QED BY <1>2, <3>1, <3>2, <3>3, <3>4, <3>5, <3>6
    <2> QED BY <1>0, <2>1, <2>2, <2>3, TypeParts
  <1>3. ASSUME NEW t \in Task, DrainInbox(c, t) PROVE TypeInv'
    <2>1. frame' \in FramesType /\ CallInv'
      BY <1>3, SameFrames DEF DrainInbox
    <2>2. RestType' /\ ExecType'
      BY <1>3 DEF DrainInbox, RestType, ExecType, HandInv, execVars
    <2> QED BY <1>0, <2>1, <2>2, TypeParts
  <1>4. ASSUME NEW t \in Task, DrainNode(c, t) PROVE TypeInv'
    <2>1. frame' \in FramesType /\ CallInv'
      BY <1>4, SameFrames DEF DrainNode
    <2>2. RestType' /\ ExecType'
      BY <1>4 DEF DrainNode, RestType, ExecType, HandInv
    <2> QED BY <1>0, <2>1, <2>2, TypeParts
  <1>5. ASSUME NEW t \in Task, PickTask(c, t) PROVE TypeInv'
    <2>0. Left(c) \in 0 .. Cardinality(Task) /\ Left(c) > 0 /\ Cardinality(Task) \in Nat
      BY <1>5, LeftType DEF PickTask
    <2>1. frame' \in FramesType /\ CallInv'
      BY <1>5, SameFrames DEF PickTask
    <2>2. RestType'
      BY <1>5 DEF PickTask, RestType
    <2>3. Left(c) - 1 \in 0 .. Cardinality(Task)
      BY <2>0
    <2>4. ExecType'
      BY <1>5, <2>3 DEF PickTask, ExecType, HandInv
    <2> QED BY <1>0, <2>1, <2>2, <2>4, TypeParts
  <1>6. ASSUME NEW t \in Task, PollWakes(c, t) PROVE TypeInv'
    <2>1. frame' \in FramesType /\ CallInv'
      BY <1>6, NewCallSets, SetsType
    <2>2. RestType' /\ ExecType'
      BY <1>6, SchedAssumption DEF PollWakes, RestType, ExecType, HandInv, execVars
    <2> QED BY <1>0, <2>1, <2>2, TypeParts
  <1>7. ASSUME NEW d \in CPU, PollPending(c, d) PROVE TypeInv'
    <2>1. frame' \in FramesType /\ CallInv'
      BY <1>7, NewCallSets, SetsType
    <2>2. RestType' /\ ExecType'
      BY <1>7 DEF PollPending, RestType, ExecType, HandInv
    <2> QED BY <1>0, <2>1, <2>2, TypeParts
  <1>8. ASSUME NEW d \in CPU, NEW t \in Task, Steal(c, d, t) PROVE TypeInv'
    <2>1. frame' \in FramesType /\ CallInv'
      BY <1>8, NewCallSets, SetsType
    <2>2. RestType' /\ ExecType'
      BY <1>8 DEF Steal, RestType, ExecType, HandInv
    <2> QED BY <1>0, <2>1, <2>2, TypeParts
  <1>9. CASE WakeDeferred(c)
    <2>1. PICK t \in Task : Sets(c, "exec", "swap", t, NoTask)
      BY <1>9, NewCallSets
    <2>2. frame' \in FramesType /\ CallInv'
      BY <2>1, SetsType
    <2>3. RestType' /\ ExecType'
      BY <1>9 DEF WakeDeferred, RestType, ExecType, HandInv
    <2> QED BY <1>0, <2>2, <2>3, TypeParts
  <1>10. CASE RouteNode(c)
    <2>1. frame' \in FramesType /\ CallInv'
      BY <1>10, NewCallSets, SetsType, SameFrames
    <2>2. RestType'
      BY <1>10 DEF RouteNode, RestType
    <2>3. ExecType'
      <3>1. CASE Location(cur[c]) = {c}
        BY <1>10, <3>1 DEF RouteNode, ExecType, HandInv
      <3>2. CASE Location(cur[c]) # {c}
        BY <1>10, <3>2 DEF RouteNode, NodeDone, ExecType, HandInv
      <3> QED BY <3>1, <3>2
    <2> QED BY <1>0, <2>1, <2>2, <2>3, TypeParts
  <1>11. CASE TakeParked(c)
    <2>1. frame' \in FramesType /\ CallInv'
      BY <1>11, NewCallSets, SetsType, SameFrames
    <2>2. RestType'
      BY <1>11 DEF TakeParked, RestType
    <2>3. ExecType'
      BY <1>11 DEF TakeParked, NodeDone, ExecType, HandInv
    <2> QED BY <1>0, <2>1, <2>2, <2>3, TypeParts
  <1> QED BY <1>2, <1>3, <1>4, <1>5, <1>6, <1>7, <1>8, <1>9, <1>10, <1>11 DEF ExecutorStep

(***************************************************************************)
(* The types hold at first, and every step keeps them.                     *)
(***************************************************************************)
LEMMA InitType ==
    Init => TypeInv
  <1> SUFFICES ASSUME Init PROVE TypeInv
    OBVIOUS
  <1>1. frame \in FramesType
    BY FrameFields DEF Init, FramesType
  <1>2. CallInv
    BY DEF Init, CallInv, NoFrame
  <1>3. Cardinality(Task) \in Nat /\ 0 \in 0 .. MaxWakes
    BY SchedAssumption, FS_CardinalityType
  <1>4. RestType
    BY <1>3 DEF Init, RestType
  <1>5. ExecType
    BY <1>3 DEF Init, ExecType, HandInv
  <1>6. StashType
    BY SchedAssumption DEF Init, StashType
  <1> QED BY <1>1, <1>2, <1>4, <1>5, <1>6, TypeParts

\* Every step keeps the types.
LEMMA StepType ==
    TypeInv /\ [Next]_vars => TypeInv'
  <1> SUFFICES ASSUME TypeInv, [Next]_vars PROVE TypeInv'
    OBVIOUS
  <1>0. RestType /\ ExecType /\ CallInv /\ frame \in FramesType /\ StashType'
    BY TypeParts, StashStep
  <1>w. MaxWakes \in Nat
    BY SchedAssumption
  <1>1. ASSUME NEW c \in CPU, TakeIpi(c) PROVE TypeInv'
    <2>1. frame' \in FramesType /\ CallInv'
      BY <1>0, <1>1, SameFrames DEF TakeIpi
    <2>2. RestType' /\ ExecType'
      BY <1>0, <1>1 DEF TakeIpi, Interrupted, Goto, RestType, ExecType, HandInv, cellVars, slotVars,
                        histVars
    <2> QED BY <1>0, <2>1, <2>2, TypeParts
  <1>2. ASSUME NEW c \in CPU, NEW t \in Task, IrqWakes(c, t) PROVE TypeInv'
    <2>1. frame' \in FramesType /\ CallInv'
      BY <1>0, <1>2, NewCallSets, SetsType
    <2>2. RestType' /\ ExecType'
      BY <1>0, <1>2, <1>w
         DEF IrqWakes, Interrupted, Goto, RestType, ExecType, HandInv, cellVars, slotVars, haltVars
    <2> QED BY <1>0, <2>1, <2>2, TypeParts
  <1>3. ASSUME NEW c \in CPU, NEW t \in Task, IrqDefers(c, t) PROVE TypeInv'
    <2>1. frame' \in FramesType /\ CallInv'
      BY <1>0, <1>3, SameFrames DEF IrqDefers
    <2>2. RestType'
      <3>1. /\ UNCHANGED <<cellVars, slotVars, nodes, haltVars>> /\ wakes < MaxWakes
            /\ wakes' = wakes + 1 /\ owed' = [owed EXCEPT ![t] = TRUE]
        BY <1>3 DEF IrqDefers
      <3> QED BY <1>0, <1>w, <3>1 DEF RestType, cellVars, slotVars, haltVars
    <2>3. ExecType'
      <3>1. UNCHANGED <<cur, todo, left, ret>> /\ Interrupted(c)
        BY <1>3 DEF IrqDefers
      <3> QED BY <1>0, <3>1 DEF ExecType, Interrupted, Goto, HandInv
    <2> QED BY <1>0, <2>1, <2>2, <2>3, TypeParts
  <1>4. CASE UNCHANGED vars
    <2>1. frame' \in FramesType /\ CallInv'
      BY <1>0, <1>4, SameFrames DEF vars
    <2>2. RestType' /\ ExecType'
      BY <1>0, <1>4 DEF vars, cellVars, slotVars, haltVars, execVars, histVars, RestType, ExecType,
                        HandInv
    <2> QED BY <1>0, <2>1, <2>2, TypeParts
  <1> QED BY <1>1, <1>2, <1>3, <1>4, CallStepType, ExecutorStepType DEF Next, CpuStep

----------------------------------------------------------------------------
(* The one place of a task. *)

\* The only part that holds task t is part k of CPU c.
Sole(t, k, c) ==
    \A d \in CPU :
        /\ t \in parked[d] <=> k = "parked" /\ d = c
        /\ t \in ready[d] <=> k = "ready" /\ d = c
        /\ t \in inbox[d] <=> k = "inbox" /\ d = c
        /\ pc[d] = "poll" /\ cur[d] = t <=> k = "polled" /\ d = c
        /\ \A l \in Level : HoldsTask(frame[d][l]) /\ frame[d][l].task = t <=> k = l /\ d = c

\* Who holds a task's slot, place by place.
LEMMA HeldIs ==
    ASSUME NEW c, NEW t \in Task
    PROVE  /\ t \in Held("parked", c) <=> t \in parked[c]
           /\ t \in Held("ready", c) <=> t \in ready[c]
           /\ t \in Held("inbox", c) <=> t \in inbox[c]
           /\ t \in Held("polled", c) <=> pc[c] = "poll" /\ cur[c] = t
           /\ \A l \in Level : t \in Held(l, c) <=> HoldsTask(frame[c][l]) /\ frame[c][l].task = t
  BY DEF Held, Level

\* The same after a step.
LEMMA HeldIsNext ==
    ASSUME NEW c, NEW t \in Task
    PROVE  /\ t \in Held("parked", c)' <=> t \in parked'[c]
           /\ t \in Held("ready", c)' <=> t \in ready'[c]
           /\ t \in Held("inbox", c)' <=> t \in inbox'[c]
           /\ t \in Held("polled", c)' <=> pc'[c] = "poll" /\ cur'[c] = t
           /\ \A l \in Level : t \in Held(l, c)' <=> HoldsTask(frame[c][l])' /\ frame'[c][l].task = t
  BY DEF Held, Level

\* One owner: one place and no other.
LEMMA OnceIsSole ==
    /\ HeldOnce <=> \A t \in Task : \E k \in Part, c \in CPU : Sole(t, k, c)
    /\ HeldOnce' <=> \A t \in Task : \E k \in Part, c \in CPU : Sole(t, k, c)'
  <1>1. ASSUME NEW t \in Task, NEW k \in Part, NEW c \in CPU
        PROVE  Sole(t, k, c) <=> \A j \in Part, d \in CPU : t \in Held(j, d) <=> j = k /\ d = c
    BY HeldIs DEF Sole, Part, Level
  <1>2. ASSUME NEW t \in Task, NEW k \in Part, NEW c \in CPU
        PROVE  Sole(t, k, c)' <=> \A j \in Part, d \in CPU : t \in Held(j, d)' <=> j = k /\ d = c
    BY HeldIsNext DEF Sole, Part, Level
  <1>3. HeldOnce <=> \A t \in Task : \E k \in Part, c \in CPU : Sole(t, k, c)
    BY <1>1 DEF HeldOnce
  <1>4. HeldOnce' <=> \A t \in Task : \E k \in Part, c \in CPU : Sole(t, k, c)'
    BY <1>2 DEF HeldOnce
  <1> QED BY <1>3, <1>4

(***************************************************************************)
(* The place of a task that a part is known to hold.                       *)
(***************************************************************************)
LEMMA SoleFrom ==
    ASSUME HeldOnce, NEW t \in Task, NEW c \in CPU
    PROVE  /\ t \in parked[c] => Sole(t, "parked", c)
           /\ t \in ready[c] => Sole(t, "ready", c)
           /\ t \in inbox[c] => Sole(t, "inbox", c)
           /\ pc[c] = "poll" /\ cur[c] = t => Sole(t, "polled", c)
           /\ \A l \in Level : HoldsTask(frame[c][l]) /\ frame[c][l].task = t => Sole(t, l, c)
  <1>1. PICK k \in Part, e \in CPU : Sole(t, k, e)
    BY OnceIsSole
  <1>2. /\ t \in parked[c] <=> k = "parked" /\ c = e
        /\ t \in ready[c] <=> k = "ready" /\ c = e
        /\ t \in inbox[c] <=> k = "inbox" /\ c = e
        /\ pc[c] = "poll" /\ cur[c] = t <=> k = "polled" /\ c = e
        /\ \A l \in Level : HoldsTask(frame[c][l]) /\ frame[c][l].task = t <=> k = l /\ c = e
    BY <1>1 DEF Sole
  <1> QED BY <1>1, <1>2

\* Task t is where it was.
Stays(t) ==
    \A d \in CPU :
        /\ t \in parked'[d] <=> t \in parked[d]
        /\ t \in ready'[d] <=> t \in ready[d]
        /\ t \in inbox'[d] <=> t \in inbox[d]
        /\ pc'[d] = "poll" /\ cur'[d] = t <=> pc[d] = "poll" /\ cur[d] = t
        /\ \A l \in Level : HoldsTask(frame'[d][l]) /\ frame'[d][l].task = t
                               <=> HoldsTask(frame[d][l]) /\ frame[d][l].task = t

\* If one task moves to one place and the others stay, each has one owner.
LEMMA OnceIfMoved ==
    ASSUME HeldOnce, NEW t \in Task, \A x \in Task : x # t => Stays(x),
           NEW k \in Part, NEW c \in CPU, Sole(t, k, c)'
    PROVE  HeldOnce'
  <1>1. ASSUME NEW x \in Task PROVE \E j \in Part, d \in CPU : Sole(x, j, d)'
    <2>1. CASE x = t
      BY <2>1
    <2>2. CASE x # t
      <3>1. PICK j \in Part, d \in CPU : Sole(x, j, d)
        BY OnceIsSole
      <3>2. Sole(x, j, d)'
        BY <2>2, <3>1 DEF Stays, Sole, HoldsTask
      <3> QED BY <3>2
    <2> QED BY <2>1, <2>2
  <1> QED BY <1>1, OnceIsSole

\* If all stay, each has one owner.
LEMMA OnceIfAllStay ==
    ASSUME HeldOnce, \A x \in Task : Stays(x)
    PROVE  HeldOnce'
  <1>1. ASSUME NEW x \in Task PROVE \E j \in Part, d \in CPU : Sole(x, j, d)'
    <2>1. PICK j \in Part, d \in CPU : Sole(x, j, d)
      BY OnceIsSole
    <2>2. Sole(x, j, d)'
      BY <2>1 DEF Stays, Sole, HoldsTask
    <2> QED BY <2>2
  <1> QED BY <1>1, OnceIsSole

(***************************************************************************)
(* Steps that move no task: neither the queues nor the homes change, and   *)
(* no call that enqueues a task begins, moves on or ends.                  *)
(***************************************************************************)
Enqueuing == {"own", "test", "insert", "recheck"}

Calm(c, l) ==
    /\ c \in CPU /\ l \in Level /\ OtherFrames(c, l)
    /\ frame[c][l].at \notin Enqueuing /\ frame'[c][l].at \notin Enqueuing

NoTaskMoves ==
    /\ UNCHANGED <<home, parked, ready, inbox>>
    /\ \A t \in Task : flag[t] => flag'[t]
    /\ \A d \in CPU : /\ pc'[d] = "poll" <=> pc[d] = "poll"
                      /\ pc[d] = "poll" => cur'[d] = cur[d]
    /\ frame' = frame \/ \E c \in CPU, l \in Level : Calm(c, l)

\* Steps that move no task keep the slots.
LEMMA QuietSlots ==
    ASSUME TypeInv, SlotInv, NoTaskMoves
    PROVE  SlotInv'
  <1>1. ASSUME NEW d \in CPU, NEW m \in Level
        PROVE  \/ frame'[d][m] = frame[d][m]
               \/ frame[d][m].at \notin Enqueuing /\ frame'[d][m].at \notin Enqueuing
    BY DEF NoTaskMoves, Calm, OtherFrames
  <1>2. \A x \in Task : Stays(x)
    BY <1>1 DEF NoTaskMoves, Stays, HoldsTask, Enqueuing
  <1>3. HeldOnce'
    BY <1>2, OnceIfAllStay DEF SlotInv, OneOwner
  <1>4. HomeNamesHolder'
    BY DEF SlotInv, OneOwner, HomeNamesHolder, NoTaskMoves
  <1>5. EnqueueInv'
    BY <1>1 DEF SlotInv, EnqueueInv, NoTaskMoves, Enqueuing
  <1>6. LockInv'
    BY <1>1 DEF SlotInv, LockInv, Enqueuing
  <1>7. ReadyInv'
    BY DEF SlotInv, ReadyInv, NoTaskMoves, TypeInv, TypeOK
  <1> QED BY <1>3, <1>4, <1>5, <1>6, <1>7 DEF SlotInv, OneOwner

\* A call that is not enqueuing holds no task.
LEMMA CalmSets ==
    ASSUME NEW c, NEW l, NEW place, NEW t, NEW d, Sets(c, l, place, t, d),
           place \notin Enqueuing, frame[c][l].at \notin Enqueuing
    PROVE  Calm(c, l)
  BY DEF Sets, Calm

\* The calls' steps that move no task.
LEMMA QuietCalls ==
    ASSUME TypeInv, NEW c \in CPU, NEW l \in Level,
           \/ WakeSwap(c, l) \/ TokenLoad(c, l) \/ ClaimNode(c, l) \/ LocateNode(c, l)
           \/ PublishNode(c, l) \/ ReleaseClaim(c, l) \/ RecheckFlag(c, l) \/ KickHome(c, l)
           \/ KickNeed(c, l) \/ KickHalted(c, l)
    PROVE  NoTaskMoves
  <1>0. PICK t, d : t = frame[c][l].task /\ d = frame[c][l].cpu
    OBVIOUS
  <1>1. Calm(c, l)
    <2>1. frame[c][l].at \notin Enqueuing
      BY DEF At, Enqueuing, WakeSwap, TokenLoad, ClaimNode, LocateNode, PublishNode, ReleaseClaim,
             RecheckFlag, KickHome, KickNeed, KickHalted
    <2>2. CASE WakeSwap(c, l) \/ TokenLoad(c, l) \/ ClaimNode(c, l) \/ ReleaseClaim(c, l)
               \/ RecheckFlag(c, l)
      BY <1>0, <2>1, <2>2, CallSets, CalmSets DEF Enqueuing
    <2>3. CASE LocateNode(c, l) \/ PublishNode(c, l)
      BY <1>0, <2>1, <2>3, CallSets, CalmSets DEF Enqueuing
    <2>4. CASE KickHome(c, l) \/ KickNeed(c, l) \/ KickHalted(c, l)
      BY <1>0, <2>1, <2>4, CallSets, CalmSets DEF Enqueuing
    <2> QED BY <2>2, <2>3, <2>4
  <1>2. UNCHANGED <<home, parked, ready, inbox, pc, cur>>
    BY DEF cellVars, slotVars, execVars, WakeSwap, TokenLoad, ClaimNode, LocateNode, PublishNode,
           ReleaseClaim, RecheckFlag, KickHome, KickNeed, KickHalted
  <1>3. \A x \in Task : flag[x] => flag'[x]
    <2>1. CASE WakeSwap(c, l)
      BY <2>1 DEF WakeSwap, TypeInv, TypeOK
    <2>2. CASE ~WakeSwap(c, l)
      BY <2>2 DEF cellVars, TokenLoad, ClaimNode, LocateNode, PublishNode,
                  ReleaseClaim, RecheckFlag, KickHome, KickNeed, KickHalted
    <2> QED BY <2>1, <2>2
  <1> QED BY <1>1, <1>2, <1>3 DEF NoTaskMoves

\* The executor's steps that move no task.
LEMMA QuietExecutor ==
    ASSUME TypeInv, NEW c \in CPU,
           \/ RoundTop(c) \/ WakeDeferred(c) \/ DetachNodes(c) \/ RouteNode(c)
           \/ DrainPending(c) \/ EndRound(c) \/ LeaveIdle(c) \/ CommitToHalt(c) \/ CheckNeed(c)
           \/ FinalScan(c) \/ Resume(c) \/ TakeIpi(c)
           \/ (\E t \in Task : DrainNode(c, t) \/ PollWakes(c, t) \/ IrqWakes(c, t) \/ IrqDefers(c, t))
    PROVE  NoTaskMoves
  <1>0. /\ pc \in [CPU -> {"top", "wakers", "inbox", "node", "route", "take", "round", "pick",
                            "poll", "idle", "need", "scan", "hlt", "resume"}]
        /\ cur \in [CPU -> Task \cup {NoTask}] /\ ret \in [CPU -> {"round", "pick", "idle"}]
        /\ "exec" \in Level /\ "irq" \in Level
    BY DEF TypeInv, TypeOK, Level
  <1>1. UNCHANGED <<home, parked, ready, inbox, flag>>
    BY DEF cellVars, slotVars, RoundTop, WakeDeferred, DetachNodes, RouteNode, DrainPending,
           EndRound, LeaveIdle, CommitToHalt, CheckNeed, FinalScan, Resume, TakeIpi, DrainNode,
           PollWakes, IrqWakes, IrqDefers
  <1>2. ASSUME NEW d \in CPU
        PROVE  (pc'[d] = "poll" <=> pc[d] = "poll") /\ (pc[d] = "poll" => cur'[d] = cur[d])
    <2> USE <1>0 DEF Goto, Exec, Picking
    <2>1. CASE RoundTop(c) \/ WakeDeferred(c) \/ LeaveIdle(c)
      BY <2>1 DEF RoundTop, WakeDeferred, LeaveIdle
    <2>2. CASE DetachNodes(c) \/ RouteNode(c)
      BY <2>2 DEF DetachNodes, RouteNode, NodeDone
    <2>3. CASE DrainPending(c) \/ EndRound(c)
      BY <2>3 DEF DrainPending, EndRound
    <2>4. CASE CommitToHalt(c) \/ CheckNeed(c) \/ FinalScan(c) \/ Resume(c)
      BY <2>4 DEF CommitToHalt, CheckNeed, FinalScan, Resume
    <2>5. ASSUME NEW t \in Task, DrainNode(c, t)
          PROVE  (pc'[d] = "poll" <=> pc[d] = "poll") /\ (pc[d] = "poll" => cur'[d] = cur[d])
      BY <2>5 DEF DrainNode
    <2>6. ASSUME NEW t \in Task, PollWakes(c, t)
          PROVE  (pc'[d] = "poll" <=> pc[d] = "poll") /\ (pc[d] = "poll" => cur'[d] = cur[d])
      BY <2>6 DEF PollWakes, execVars
    <2>7. ASSUME NEW t \in Task, TakeIpi(c) \/ IrqWakes(c, t) \/ IrqDefers(c, t)
          PROVE  (pc'[d] = "poll" <=> pc[d] = "poll") /\ (pc[d] = "poll" => cur'[d] = cur[d])
      BY <2>7 DEF TakeIpi, IrqWakes, IrqDefers, Interrupted
    <2>8. CASE TakeIpi(c)
      BY <2>8 DEF TakeIpi, Interrupted
    <2> QED BY <2>1, <2>2, <2>3, <2>4, <2>5, <2>6, <2>7, <2>8
  <1>3. frame' = frame \/ \E d \in CPU, l \in Level : Calm(d, l)
    <2>1. CASE WakeDeferred(c) \/ RouteNode(c)
      <3>1. frame[c]["exec"].at = "idle"
        BY <1>0, <2>1 DEF WakeDeferred, RouteNode, Exec, Executing
      <3> QED BY <1>0, <2>1, <3>1, NewCallSets, CalmSets DEF Enqueuing
    <2>2. ASSUME NEW t \in Task, PollWakes(c, t) PROVE Calm(c, "exec")
      <3>1. frame[c]["exec"].at = "idle"
        BY <1>0, <2>2 DEF PollWakes, Exec, Executing
      <3> QED BY <2>2, <3>1, NewCallSets, CalmSets DEF Enqueuing
    <2>3. ASSUME NEW t \in Task, IrqWakes(c, t) PROVE Calm(c, "irq")
      <3>1. frame[c]["irq"].at = "idle"
        BY <2>3 DEF IrqWakes, Unmasked
      <3> QED BY <2>3, <3>1, NewCallSets, CalmSets DEF Enqueuing
    <2>4. CASE \/ RoundTop(c) \/ DetachNodes(c) \/ DrainPending(c) \/ EndRound(c) \/ LeaveIdle(c)
               \/ CommitToHalt(c) \/ CheckNeed(c) \/ FinalScan(c) \/ Resume(c) \/ TakeIpi(c)
               \/ (\E t \in Task : DrainNode(c, t) \/ IrqDefers(c, t))
      BY <2>4 DEF RoundTop, DetachNodes, DrainPending, EndRound, LeaveIdle, CommitToHalt,
                  CheckNeed, FinalScan, Resume, TakeIpi, DrainNode, IrqDefers
    <2> QED BY <1>0, <2>1, <2>2, <2>3, <2>4
  <1> QED BY <1>1, <1>2, <1>3 DEF NoTaskMoves

(***************************************************************************)
(* A woken task goes from parked storage to the run queue of its CPU.      *)
(***************************************************************************)
LEMMA ActivateSlots ==
    ASSUME TypeInv, SlotInv, NEW c \in CPU, NEW l \in Level, ActivateLocal(c, l)
    PROVE  SlotInv'
  <1>0. HeldOnce /\ HomeNamesHolder /\ EnqueueInv /\ LockInv /\ ReadyInv
    BY DEF SlotInv, OneOwner
  <1>1. PICK t, d : t = frame[c][l].task /\ d = frame[c][l].cpu
    OBVIOUS
  <1>2. t \in Task /\ Sets(c, l, "home", t, d) /\ frame[c][l].at = "token"
    <2>1. t \in Task /\ Sets(c, l, "home", t, d)
      BY <1>1, CallSets
    <2> QED BY <2>1 DEF ActivateLocal, At
  <1>3. /\ t \in parked[c] /\ flag[t] /\ ~ParkedLocked(c)
        /\ parked'[c] = parked[c] \ {t} /\ \A e \in CPU \ {c} : parked'[e] = parked[e]
        /\ ready'[c] = ready[c] \cup {t} /\ \A e \in CPU \ {c} : ready'[e] = ready[e]
        /\ UNCHANGED <<flag, home, inbox, pc, cur>>
    BY <1>1 DEF ActivateLocal, TypeInv, TypeOK, cellVars, execVars
  <1>4. \A e \in CPU, m \in Level :
           \/ frame'[e][m] = frame[e][m]
           \/ frame[e][m].at \notin Enqueuing /\ frame'[e][m].at \notin Enqueuing
    BY <1>2 DEF Sets, OtherFrames, Enqueuing
  <1>5. Sole(t, "parked", c)
    BY <1>0, <1>2, <1>3, SoleFrom
  <1>6. Sole(t, "ready", c)'
    BY <1>3, <1>4, <1>5 DEF Sole, HoldsTask, Enqueuing, Level
  <1>7. \A x \in Task : x # t => Stays(x)
    BY <1>3, <1>4 DEF Stays, HoldsTask, Enqueuing
  <1>8. HeldOnce'
    BY <1>0, <1>2, <1>6, <1>7, OnceIfMoved DEF Part
  <1>9. HomeNamesHolder'
    BY <1>0, <1>3 DEF HomeNamesHolder
  <1>10. EnqueueInv'
    <2> SUFFICES ASSUME NEW e \in CPU, NEW m \in Level, frame'[e][m].at \in Enqueuing
                 PROVE  /\ frame'[e][m].at \in {"test", "insert"}
                              => home'[frame'[e][m].task] = frame'[e][m].cpu
                        /\ frame'[e][m].at = "recheck"
                              => frame'[e][m].task \in parked'[frame'[e][m].cpu]
      BY DEF EnqueueInv, Enqueuing
    <2>1. frame'[e][m] = frame[e][m]
      BY <1>4
    <2>2. frame[e][m].at = "recheck" => frame[e][m].cpu \in CPU /\ frame[e][m].cpu # c
      BY <1>3 DEF TypeInv, CallInv, ParkedLocked
    <2> QED BY <1>0, <1>3, <2>1, <2>2 DEF EnqueueInv
  <1>11. LockInv'
    BY <1>0, <1>4 DEF LockInv, Enqueuing
  <1>12. ReadyInv'
    BY <1>0, <1>3 DEF ReadyInv
  <1> QED BY <1>8, <1>9, <1>10, <1>11, <1>12 DEF SlotInv, OneOwner

(***************************************************************************)
(* A call takes a task in hand: from a run queue or from parked storage,   *)
(* under its lock, or from the poll that has returned.                     *)
(***************************************************************************)
Takes(t, k, h, c, l, d) ==
    /\ t \in Task /\ h \in CPU /\ c \in CPU /\ l \in Level /\ d \in CPU
    /\ Sets(c, l, "own", t, d) /\ frame[c][l].at \notin Enqueuing
    /\ UNCHANGED <<flag, home, inbox>>
    /\ \A e \in CPU : parked'[e] = IF k = "parked" /\ e = h THEN parked[e] \ {t} ELSE parked[e]
    /\ \A e \in CPU : ready'[e] = IF k = "ready" /\ e = h THEN ready[e] \ {t} ELSE ready[e]
    /\ \A e \in CPU : /\ (pc'[e] = "poll") <=> (pc[e] = "poll" /\ ~(k = "polled" /\ e = h))
                      /\ pc'[e] = "poll" => cur'[e] = cur[e]
    /\ \/ k = "parked" /\ t \in parked[h] /\ ~ParkedLocked(h)
       \/ k = "ready" /\ t \in ready[h]
       \/ k = "polled" /\ pc[h] = "poll" /\ cur[h] = t

\* A step that takes one task from a place into an enqueue.
LEMMA TakeSlots ==
    ASSUME TypeInv, SlotInv, NEW t, NEW k, NEW h, NEW c, NEW l, NEW d, Takes(t, k, h, c, l, d)
    PROVE  SlotInv'
  <1>0. HeldOnce /\ HomeNamesHolder /\ EnqueueInv /\ LockInv /\ ReadyInv
    BY DEF SlotInv, OneOwner
  <1>1. /\ t \in Task /\ h \in CPU /\ c \in CPU /\ l \in Level /\ k \in {"parked", "ready", "polled"}
        /\ frame'[c][l].at = "own" /\ frame'[c][l].task = t
        /\ frame[c][l].at \notin Enqueuing
        /\ \A e \in CPU, m \in Level : e # c \/ m # l => frame'[e][m] = frame[e][m]
    BY DEF Takes, Sets, OtherFrames
  <1>2. Sole(t, k, h)
    BY <1>0, SoleFrom DEF Takes
  <1>3. Sole(t, l, c)'
    <2> SUFFICES ASSUME NEW e \in CPU
                 PROVE  /\ t \notin parked'[e] /\ t \notin ready'[e] /\ t \notin inbox'[e]
                        /\ ~(pc'[e] = "poll" /\ cur'[e] = t)
                        /\ \A m \in Level : HoldsTask(frame'[e][m]) /\ frame'[e][m].task = t
                                                <=> l = m /\ e = c
      BY <1>1 DEF Sole, HoldsTask, Level
    <2>1. t \notin parked'[e] /\ t \notin ready'[e] /\ t \notin inbox'[e]
      BY <1>1, <1>2 DEF Takes, Sole
    <2>2. ~(pc'[e] = "poll" /\ cur'[e] = t)
      BY <1>1, <1>2 DEF Takes, Sole
    <2>3. ASSUME NEW m \in Level
          PROVE  HoldsTask(frame'[e][m]) /\ frame'[e][m].task = t <=> l = m /\ e = c
      BY <1>1, <1>2 DEF Sole, HoldsTask, Level
    <2> QED BY <2>1, <2>2, <2>3
  <1>4. ASSUME NEW x \in Task, x # t PROVE Stays(x)
    <2>1. ASSUME NEW e \in CPU
          PROVE  /\ x \in parked'[e] <=> x \in parked[e]
                 /\ x \in ready'[e] <=> x \in ready[e]
                 /\ x \in inbox'[e] <=> x \in inbox[e]
      BY <1>4 DEF Takes
    <2>2. ASSUME NEW e \in CPU
          PROVE  pc'[e] = "poll" /\ cur'[e] = x <=> pc[e] = "poll" /\ cur[e] = x
      BY <1>4 DEF Takes
    <2>3. ASSUME NEW e \in CPU, NEW m \in Level
          PROVE  HoldsTask(frame'[e][m]) /\ frame'[e][m].task = x
                    <=> HoldsTask(frame[e][m]) /\ frame[e][m].task = x
      BY <1>1, <1>4 DEF HoldsTask, Enqueuing
    <2> QED BY <2>1, <2>2, <2>3 DEF Stays
  <1>5. HeldOnce'
    BY <1>0, <1>1, <1>3, <1>4, OnceIfMoved DEF Part
  <1>6. HomeNamesHolder'
    BY <1>0 DEF HomeNamesHolder, Takes
  <1>7. EnqueueInv'
    <2> SUFFICES ASSUME NEW e \in CPU, NEW m \in Level
                 PROVE  /\ frame'[e][m].at \in {"test", "insert"}
                              => home'[frame'[e][m].task] = frame'[e][m].cpu
                        /\ frame'[e][m].at = "recheck"
                              => frame'[e][m].task \in parked'[frame'[e][m].cpu]
      BY DEF EnqueueInv
    <2>1. CASE e = c /\ m = l
      BY <1>1, <2>1
    <2>2. CASE e # c \/ m # l
      <3>1. frame'[e][m] = frame[e][m]
        BY <1>1, <2>2
      <3>2. home' = home /\ \A g \in CPU : g # h => parked'[g] = parked[g]
        BY DEF Takes
      <3>3. k # "parked" => \A g \in CPU : parked'[g] = parked[g]
        BY DEF Takes
      <3>4. frame[e][m].at = "recheck" => frame[e][m].cpu \in CPU
        BY DEF TypeInv, CallInv
      <3>5. k = "parked" => ~(frame[e][m].at = "recheck" /\ frame[e][m].cpu = h)
        BY DEF Takes, ParkedLocked
      <3> QED BY <1>0, <3>1, <3>2, <3>3, <3>4, <3>5 DEF EnqueueInv
    <2> QED BY <2>1, <2>2
  <1>8. LockInv'
    BY <1>0, <1>1 DEF LockInv
  <1>9. ReadyInv'
    BY <1>0 DEF ReadyInv, Takes
  <1> QED BY <1>5, <1>6, <1>7, <1>8, <1>9 DEF SlotInv, OneOwner

\* A wakee that is migrated is taken off its storage.
LEMMA MigrateSlots ==
    ASSUME TypeInv, SlotInv, NEW c \in CPU, NEW l \in Level, NEW d \in CPU, MigrateWakee(c, l, d)
    PROVE  SlotInv'
  <1>1. PICK t : t = frame[c][l].task
    OBVIOUS
  <1>2. t \in Task /\ Sets(c, l, "own", t, d) /\ frame[c][l].at = "home"
    <2>1. t \in Task /\ Sets(c, l, "own", t, d)
      BY <1>1, CallSets
    <2> QED BY <2>1 DEF MigrateWakee, At
  <1>3. PICK h \in CPU : h = home[t]
    BY <1>2 DEF TypeInv, TypeOK
  <1>4. CASE t \in ready[h] /\ ready' = [ready EXCEPT ![h] = @ \ {t}] /\ UNCHANGED parked
    <2>1. Takes(t, "ready", h, c, l, d)
      BY <1>2, <1>4
         DEF MigrateWakee, Takes, Enqueuing, TypeInv, TypeOK, cellVars, execVars
    <2> QED BY <2>1, TakeSlots
  <1>5. CASE t \in parked[h] /\ ~ParkedLocked(h) /\ parked' = [parked EXCEPT ![h] = @ \ {t}]
             /\ UNCHANGED ready
    <2>1. Takes(t, "parked", h, c, l, d)
      BY <1>2, <1>5
         DEF MigrateWakee, Takes, Enqueuing, TypeInv, TypeOK, cellVars, execVars
    <2> QED BY <2>1, TakeSlots
  <1> QED BY <1>1, <1>3, <1>4, <1>5 DEF MigrateWakee

\* A parked task that is routed is taken off its storage.
LEMMA TakeParkedSlots ==
    ASSUME TypeInv, SlotInv, NEW c \in CPU, TakeParked(c)
    PROVE  SlotInv'
  <1>1. PICK t \in Task : t = cur[c]
    BY NewCallSets
  <1>2. /\ \A e \in CPU : pc'[e] = "poll" <=> pc[e] = "poll"
        /\ \A e \in CPU : pc[e] = "poll" => cur'[e] = cur[e]
        /\ "exec" \in Level
    BY DEF TakeParked, NodeDone, Goto, Exec, TypeInv, TypeOK, Level
  <1>3. UNCHANGED <<flag, home, ready, inbox>> /\ ~ParkedLocked(c)
    BY DEF TakeParked, cellVars
  <1>4. CASE t \in parked[c] /\ flag[t]
    <2>1. Sets(c, "exec", "own", t, c) /\ parked' = [parked EXCEPT ![c] = @ \ {t}]
      BY <1>1, <1>4, NewCallSets DEF TakeParked
    <2>2. frame[c]["exec"].at = "idle"
      BY <1>2 DEF TakeParked, Exec, Executing
    <2>3. Takes(t, "parked", c, c, "exec", c)
      BY <1>2, <1>3, <1>4, <2>1, <2>2 DEF Takes, Enqueuing, TypeInv, TypeOK
    <2> QED BY <2>3, TakeSlots
  <1>5. CASE ~(t \in parked[c] /\ flag[t])
    <2>1. NoTaskMoves
      BY <1>1, <1>2, <1>3, <1>5 DEF TakeParked, NoTaskMoves
    <2> QED BY <2>1, QuietSlots
  <1> QED BY <1>4, <1>5

\* A task whose poll is pending is taken off the executor.
LEMMA PollPendingSlots ==
    ASSUME TypeInv, SlotInv, NEW c \in CPU, NEW d \in CPU, PollPending(c, d)
    PROVE  SlotInv'
  <1>1. PICK t \in Task : t = cur[c]
    BY NewCallSets
  <1>2. Sets(c, "exec", "own", t, d) /\ "exec" \in Level /\ frame[c]["exec"].at = "idle"
    BY <1>1, NewCallSets DEF PollPending, Exec, Executing, Level
  <1>3. Takes(t, "polled", c, c, "exec", d)
    BY <1>1, <1>2 DEF PollPending, Takes, Enqueuing, Exec, Goto, TypeInv, TypeOK, cellVars, slotVars
  <1> QED BY <1>3, TakeSlots

\* A stolen task is taken off the victim's queue.
LEMMA StealSlots ==
    ASSUME TypeInv, SlotInv, NEW c \in CPU, NEW d \in CPU, NEW t \in Task, Steal(c, d, t)
    PROVE  SlotInv'
  <1>1. Sets(c, "exec", "own", t, c) /\ "exec" \in Level /\ frame[c]["exec"].at = "idle"
    BY NewCallSets DEF Steal, Exec, Executing, Level
  <1>2. Takes(t, "ready", d, c, "exec", c)
    BY <1>1 DEF Steal, Runnable, Takes, Enqueuing, Exec, Goto, TypeInv, TypeOK, cellVars
  <1> QED BY <1>2, TakeSlots

(***************************************************************************)
(* enqueue_on: the home is written by the call that has the task in hand,  *)
(* and the task goes to a queue of that home.                              *)
(***************************************************************************)
LEMMA EnqueueOwnSlots ==
    ASSUME TypeInv, SlotInv, NEW c \in CPU, NEW l \in Level, EnqueueOwn(c, l)
    PROVE  SlotInv'
  <1>0. HeldOnce /\ HomeNamesHolder /\ EnqueueInv /\ LockInv /\ ReadyInv
    BY DEF SlotInv, OneOwner
  <1>1. PICK t, d : t = frame[c][l].task /\ d = frame[c][l].cpu
    OBVIOUS
  <1>2. t \in Task /\ d \in CPU /\ Sets(c, l, "test", t, d)
    BY <1>1, CallSets
  <1>3. /\ frame[c][l].at = "own" /\ UNCHANGED <<flag, parked, ready, inbox, pc, cur>>
        /\ home'[t] = d /\ \A x \in Task \ {t} : home'[x] = home[x]
    BY <1>1, <1>2 DEF EnqueueOwn, At, slotVars, execVars, TypeInv, TypeOK
  <1>4. /\ frame'[c][l].at = "test" /\ frame'[c][l].task = t /\ frame'[c][l].cpu = d
        /\ \A e \in CPU, m \in Level : e # c \/ m # l => frame'[e][m] = frame[e][m]
    BY <1>2 DEF Sets, OtherFrames
  <1>5. Sole(t, l, c)
    BY <1>0, <1>1, <1>2, <1>3, SoleFrom DEF HoldsTask
  <1>6. \A x \in Task : Stays(x)
    BY <1>1, <1>3, <1>4 DEF Stays, HoldsTask
  <1>7. HeldOnce'
    BY <1>0, <1>6, OnceIfAllStay
  <1>8. HomeNamesHolder'
    <2>1. \A e \in CPU : t \notin parked[e] /\ t \notin ready[e] /\ parked[e] \subseteq Task
                         /\ ready[e] \subseteq Task
      BY <1>5 DEF Sole, Level, TypeInv, TypeOK
    <2> QED BY <1>0, <1>3, <2>1 DEF HomeNamesHolder
  <1>9. EnqueueInv'
    <2> SUFFICES ASSUME NEW e \in CPU, NEW m \in Level
                 PROVE  /\ frame'[e][m].at \in {"test", "insert"}
                              => home'[frame'[e][m].task] = frame'[e][m].cpu
                        /\ frame'[e][m].at = "recheck"
                              => frame'[e][m].task \in parked'[frame'[e][m].cpu]
      BY DEF EnqueueInv
    <2>1. CASE e = c /\ m = l
      BY <1>3, <1>4, <2>1
    <2>2. CASE e # c \/ m # l
      <3>1. frame[e][m].at \in {"test", "insert"} => frame[e][m].task \in Task \ {t}
        BY <1>5, <2>2 DEF Sole, HoldsTask, TypeInv, CallInv
      <3> QED BY <1>0, <1>3, <1>4, <2>2, <3>1 DEF EnqueueInv
    <2> QED BY <2>1, <2>2
  <1>10. LockInv'
    BY <1>0, <1>4 DEF LockInv
  <1>11. ReadyInv'
    BY <1>0, <1>3 DEF ReadyInv
  <1> QED BY <1>7, <1>8, <1>9, <1>10, <1>11 DEF SlotInv, OneOwner

\* An enqueue parks its task or makes it ready.
LEMMA EnqueueTestSlots ==
    ASSUME TypeInv, SlotInv, NEW c \in CPU, NEW l \in Level, EnqueueTest(c, l)
    PROVE  SlotInv'
  <1>0. HeldOnce /\ HomeNamesHolder /\ EnqueueInv /\ LockInv /\ ReadyInv
    BY DEF SlotInv, OneOwner
  <1>1. PICK t, d : t = frame[c][l].task /\ d = frame[c][l].cpu
    OBVIOUS
  <1>2. /\ t \in Task /\ d \in CPU
        /\ \/ ~flag[t] /\ Sets(c, l, "insert", t, d)
           \/ flag[t] /\ d # c /\ Sets(c, l, "need", t, d)
           \/ flag[t] /\ d = c /\ Sets(c, l, "idle", NoTask, NoTask)
    BY <1>1, CallSets
  <1>3. /\ frame[c][l].at = "test" /\ UNCHANGED <<flag, home, parked, pc, cur>>
        /\ \A e \in CPU : ready'[e] = IF flag[t] /\ d = c /\ e = c THEN ready[e] \cup {t} ELSE ready[e]
        /\ \A e \in CPU : inbox'[e] = IF flag[t] /\ d # c /\ e = d THEN inbox[e] \cup {t} ELSE inbox[e]
    <2>1. /\ frame[c][l].at = "test" /\ UNCHANGED <<flag, home, pc, cur>>
          /\ \/ ~flag[t] /\ UNCHANGED <<parked, ready, inbox>>
             \/ /\ flag[t] /\ d = c /\ ready' = [ready EXCEPT ![c] = @ \cup {t}]
                /\ UNCHANGED <<parked, inbox>>
             \/ /\ flag[t] /\ d # c /\ inbox' = [inbox EXCEPT ![d] = @ \cup {t}]
                /\ UNCHANGED <<parked, ready>>
      BY <1>1 DEF EnqueueTest, At, cellVars, slotVars, execVars
    <2>2. ready \in [CPU -> SUBSET Task] /\ inbox \in [CPU -> SUBSET Task]
      BY DEF TypeInv, TypeOK
    <2>3. \A e \in CPU : ready'[e] = IF flag[t] /\ d = c /\ e = c THEN ready[e] \cup {t} ELSE ready[e]
      BY <2>1, <2>2
    <2>4. \A e \in CPU : inbox'[e] = IF flag[t] /\ d # c /\ e = d THEN inbox[e] \cup {t} ELSE inbox[e]
      BY <1>2, <2>1, <2>2
    <2> QED BY <2>1, <2>3, <2>4
  <1>4. \A e \in CPU, m \in Level : e # c \/ m # l => frame'[e][m] = frame[e][m]
    BY <1>2 DEF Sets, OtherFrames
  <1>5. Sole(t, l, c) /\ home[t] = d
    BY <1>0, <1>1, <1>2, <1>3, SoleFrom DEF HoldsTask, EnqueueInv
  <1>6. ~flag[t] => frame'[c][l].at = "insert" /\ frame'[c][l].task = t /\ frame'[c][l].cpu = d
    BY <1>2 DEF Sets
  <1>7. flag[t] => frame'[c][l].at \notin Enqueuing
    BY <1>2 DEF Sets, Enqueuing
  <1>8. HeldOnce'
    <2>1. \A x \in Task : x # t => Stays(x)
      <3> SUFFICES ASSUME NEW x \in Task, x # t PROVE Stays(x)
        OBVIOUS
      <3>1. \A e \in CPU, m \in Level :
               HoldsTask(frame'[e][m]) /\ frame'[e][m].task = x
                  <=> HoldsTask(frame[e][m]) /\ frame[e][m].task = x
        BY <1>1, <1>4, <1>6, <1>7 DEF HoldsTask, Enqueuing
      <3> QED BY <1>3, <3>1 DEF Stays
    <2>2. CASE ~flag[t]
      <3>1. Stays(t)
        BY <1>1, <1>3, <1>4, <1>6, <2>2 DEF Stays, HoldsTask
      <3> QED BY <1>0, <2>1, <3>1, OnceIfAllStay
    <2>3. CASE flag[t] /\ d = c
      <3>0. /\ \A e \in CPU : t \in ready'[e] <=> t \in ready[e] \/ e = c
            /\ \A e \in CPU : t \in inbox'[e] <=> t \in inbox[e]
        BY <1>3, <2>3
      <3>1. Sole(t, "ready", c)'
        BY <1>3, <1>4, <1>5, <1>7, <2>3, <3>0 DEF Sole, HoldsTask, Enqueuing, Level
      <3> QED BY <1>0, <1>2, <2>1, <3>1, OnceIfMoved DEF Part
    <2>4. CASE flag[t] /\ d # c
      <3>0. /\ \A e \in CPU : t \in ready'[e] <=> t \in ready[e]
            /\ \A e \in CPU : t \in inbox'[e] <=> t \in inbox[e] \/ e = d
        BY <1>3, <2>4
      <3>1. Sole(t, "inbox", d)'
        BY <1>2, <1>3, <1>4, <1>5, <1>7, <2>4, <3>0 DEF Sole, HoldsTask, Enqueuing, Level
      <3> QED BY <1>0, <1>2, <2>1, <3>1, OnceIfMoved DEF Part
    <2> QED BY <2>2, <2>3, <2>4
  <1>9. HomeNamesHolder'
    <2>1. \A e \in CPU : \A x \in ready'[e] : x \in ready[e] \/ (x = t /\ e = d)
      BY <1>3
    <2> QED BY <1>0, <1>3, <1>5, <2>1 DEF HomeNamesHolder
  <1>10. EnqueueInv'
    BY <1>0, <1>3, <1>4, <1>5, <1>6, <1>7 DEF EnqueueInv, Enqueuing
  <1>11. LockInv'
    BY <1>0, <1>4, <1>6, <1>7 DEF LockInv, Enqueuing
  <1>12. ReadyInv'
    <2>1. \A e \in CPU : /\ \A x \in ready'[e] : x \in ready[e] \/ (x = t /\ flag[t])
                         /\ \A x \in inbox'[e] : x \in inbox[e] \/ (x = t /\ flag[t])
      BY <1>3
    <2> QED BY <1>0, <1>3, <2>1 DEF ReadyInv
  <1> QED BY <1>8, <1>9, <1>10, <1>11, <1>12 DEF SlotInv, OneOwner

(***************************************************************************)
(* park_slot, under the lock of the parked storage.                        *)
(***************************************************************************)
LEMMA ParkInsertSlots ==
    ASSUME TypeInv, SlotInv, NEW c \in CPU, NEW l \in Level, ParkInsert(c, l)
    PROVE  SlotInv'
  <1>0. HeldOnce /\ HomeNamesHolder /\ EnqueueInv /\ LockInv /\ ReadyInv
    BY DEF SlotInv, OneOwner
  <1>1. PICK t, d : t = frame[c][l].task /\ d = frame[c][l].cpu
    OBVIOUS
  <1>2. t \in Task /\ d \in CPU /\ Sets(c, l, "recheck", t, d)
    BY <1>1, CallSets
  <1>3. /\ frame[c][l].at = "insert" /\ ~ParkedLocked(d)
        /\ UNCHANGED <<flag, home, ready, inbox, pc, cur>>
        /\ parked'[d] = parked[d] \cup {t} /\ \A e \in CPU \ {d} : parked'[e] = parked[e]
    BY <1>1, <1>2 DEF ParkInsert, At, cellVars, execVars, TypeInv, TypeOK
  <1>4. /\ frame'[c][l].at = "recheck" /\ frame'[c][l].task = t /\ frame'[c][l].cpu = d
        /\ \A e \in CPU, m \in Level : e # c \/ m # l => frame'[e][m] = frame[e][m]
    BY <1>2 DEF Sets, OtherFrames
  <1>5. Sole(t, l, c) /\ home[t] = d
    BY <1>0, <1>1, <1>2, <1>3, SoleFrom DEF HoldsTask, EnqueueInv
  <1>6. Sole(t, "parked", d)'
    BY <1>2, <1>3, <1>4, <1>5 DEF Sole, HoldsTask, Level
  <1>7. \A x \in Task : x # t => Stays(x)
    BY <1>1, <1>2, <1>3, <1>4 DEF Stays, HoldsTask
  <1>8. HeldOnce'
    BY <1>0, <1>2, <1>6, <1>7, OnceIfMoved DEF Part
  <1>9. HomeNamesHolder'
    BY <1>0, <1>3, <1>5 DEF HomeNamesHolder
  <1>10. EnqueueInv'
    <2>1. \A e \in CPU : parked[e] \subseteq parked'[e]
      BY <1>3
    <2>2. \A e \in CPU, m \in Level : frame[e][m].at = "recheck" => frame[e][m].cpu \in CPU
      BY DEF TypeInv, CallInv
    <2> QED BY <1>0, <1>2, <1>3, <1>4, <2>1, <2>2 DEF EnqueueInv
  <1>11. LockInv'
    BY <1>0, <1>3, <1>4 DEF LockInv, ParkedLocked
  <1>12. ReadyInv'
    BY <1>0, <1>3 DEF ReadyInv
  <1> QED BY <1>8, <1>9, <1>10, <1>11, <1>12 DEF SlotInv, OneOwner

\* A task parked under a wake is taken back.
LEMMA ParkRecheckSlots ==
    ASSUME TypeInv, SlotInv, NEW c \in CPU, NEW l \in Level, ParkRecheck(c, l)
    PROVE  SlotInv'
  <1>0. HeldOnce /\ HomeNamesHolder /\ EnqueueInv /\ LockInv /\ ReadyInv
    BY DEF SlotInv, OneOwner
  <1>1. PICK t, d : t = frame[c][l].task /\ d = frame[c][l].cpu
    OBVIOUS
  <1>2. /\ t \in Task /\ d \in CPU
        /\ IF flag[t] THEN Sets(c, l, "own", t, d) ELSE Sets(c, l, "idle", NoTask, NoTask)
    BY <1>1, CallSets
  <1>3. /\ frame[c][l].at = "recheck" /\ UNCHANGED <<flag, home, ready, inbox, pc, cur>>
        /\ parked'[d] = (IF flag[t] THEN parked[d] \ {t} ELSE parked[d])
        /\ \A e \in CPU \ {d} : parked'[e] = parked[e]
    BY <1>1, <1>2 DEF ParkRecheck, At, cellVars, execVars, TypeInv, TypeOK
  <1>4. \A e \in CPU, m \in Level : e # c \/ m # l => frame'[e][m] = frame[e][m]
    BY <1>2 DEF Sets, OtherFrames
  <1>5. /\ flag[t] => frame'[c][l].at = "own" /\ frame'[c][l].task = t
        /\ ~flag[t] => frame'[c][l].at = "idle"
    BY <1>2 DEF Sets
  <1>6. t \in parked[d] /\ Sole(t, "parked", d)
    BY <1>0, <1>1, <1>2, <1>3, SoleFrom DEF EnqueueInv
  <1>7. \A x \in Task : x # t => Stays(x)
    BY <1>1, <1>2, <1>3, <1>4, <1>5 DEF Stays, HoldsTask
  <1>8. HeldOnce'
    <2>1. CASE flag[t]
      <3>1. Sole(t, l, c)'
        BY <1>2, <1>3, <1>4, <1>5, <1>6, <2>1 DEF Sole, HoldsTask, Level
      <3> QED BY <1>0, <1>2, <1>7, <3>1, OnceIfMoved DEF Part
    <2>2. CASE ~flag[t]
      <3>1. Stays(t)
        BY <1>1, <1>2, <1>3, <1>4, <1>5, <2>2 DEF Stays, HoldsTask
      <3> QED BY <1>0, <1>7, <3>1, OnceIfAllStay
    <2> QED BY <2>1, <2>2
  <1>9. HomeNamesHolder'
    BY <1>0, <1>2, <1>3 DEF HomeNamesHolder
  <1>10. EnqueueInv'
    <2> SUFFICES ASSUME NEW e \in CPU, NEW m \in Level, frame'[e][m].at \in {"test", "insert", "recheck"}
                 PROVE  /\ frame'[e][m].at \in {"test", "insert"}
                              => home'[frame'[e][m].task] = frame'[e][m].cpu
                        /\ frame'[e][m].at = "recheck"
                              => frame'[e][m].task \in parked'[frame'[e][m].cpu]
      BY DEF EnqueueInv
    <2>1. frame'[e][m] = frame[e][m] /\ (e # c \/ m # l)
      BY <1>4, <1>5
    <2>2. frame[e][m].at = "recheck" => frame[e][m].cpu \in CPU \ {d}
      BY <1>0, <1>1, <1>3, <2>1 DEF LockInv, TypeInv, CallInv
    <2> QED BY <1>0, <1>3, <2>1, <2>2 DEF EnqueueInv
  <1>11. LockInv'
    BY <1>0, <1>4, <1>5 DEF LockInv
  <1>12. ReadyInv'
    BY <1>0, <1>3 DEF ReadyInv
  <1> QED BY <1>8, <1>9, <1>10, <1>11, <1>12 DEF SlotInv, OneOwner

(***************************************************************************)
(* An inbox is folded into the run queue, and a task is picked from it.    *)
(***************************************************************************)
LEMMA DrainInboxSlots ==
    ASSUME TypeInv, SlotInv, NEW c \in CPU, NEW t \in Task, DrainInbox(c, t)
    PROVE  SlotInv'
  <1>0. HeldOnce /\ HomeNamesHolder /\ EnqueueInv /\ LockInv /\ ReadyInv
    BY DEF SlotInv, OneOwner
  <1>1. /\ t \in inbox[c] /\ UNCHANGED <<flag, parked, pc, cur, frame>>
        /\ inbox'[c] = inbox[c] \ {t} /\ \A e \in CPU \ {c} : inbox'[e] = inbox[e]
        /\ ready'[c] = ready[c] \cup {t} /\ \A e \in CPU \ {c} : ready'[e] = ready[e]
        /\ home'[t] = c /\ \A x \in Task \ {t} : home'[x] = home[x]
    BY DEF DrainInbox, execVars, TypeInv, TypeOK
  <1>2. Sole(t, "inbox", c)
    BY <1>0, <1>1, SoleFrom
  <1>3. Sole(t, "ready", c)'
    BY <1>1, <1>2 DEF Sole, HoldsTask, Level
  <1>4. \A x \in Task : x # t => Stays(x)
    BY <1>1 DEF Stays, HoldsTask
  <1>5. HeldOnce'
    BY <1>0, <1>3, <1>4, OnceIfMoved DEF Part
  <1>6. HomeNamesHolder'
    <2>1. \A e \in CPU : t \notin parked[e] /\ t \notin ready[e] /\ parked[e] \subseteq Task
                         /\ ready[e] \subseteq Task
      BY <1>2 DEF Sole, TypeInv, TypeOK
    <2> QED BY <1>0, <1>1, <2>1 DEF HomeNamesHolder
  <1>7. EnqueueInv'
    <2>1. \A e \in CPU, m \in Level :
             frame[e][m].at \in {"test", "insert"} => frame[e][m].task \in Task \ {t}
      BY <1>2 DEF Sole, HoldsTask, Level, TypeInv, CallInv
    <2> QED BY <1>0, <1>1, <2>1 DEF EnqueueInv
  <1>8. LockInv'
    BY <1>0, <1>1 DEF LockInv
  <1>9. ReadyInv'
    BY <1>0, <1>1 DEF ReadyInv
  <1> QED BY <1>5, <1>6, <1>7, <1>8, <1>9 DEF SlotInv, OneOwner

\* A ready task that is picked becomes the current one.
LEMMA PickTaskSlots ==
    ASSUME TypeInv, SlotInv, NEW c \in CPU, NEW t \in Task, PickTask(c, t)
    PROVE  SlotInv'
  <1>0. HeldOnce /\ HomeNamesHolder /\ EnqueueInv /\ LockInv /\ ReadyInv
    BY DEF SlotInv, OneOwner
  <1>1. /\ t \in ready[c] /\ UNCHANGED <<parked, inbox, frame>>
        /\ pc[c] # "poll" /\ pc'[c] = "poll" /\ cur'[c] = t
        /\ \A e \in CPU \ {c} : pc'[e] = pc[e] /\ cur'[e] = cur[e]
        /\ ready'[c] = ready[c] \ {t} /\ \A e \in CPU \ {c} : ready'[e] = ready[e]
        /\ home'[t] = c /\ \A x \in Task \ {t} : home'[x] = home[x] /\ flag'[x] = flag[x]
    BY DEF PickTask, Picking, Exec, Goto, Runnable, TypeInv, TypeOK
  <1>2. Sole(t, "ready", c)
    BY <1>0, <1>1, SoleFrom
  <1>3. Sole(t, "polled", c)'
    BY <1>1, <1>2 DEF Sole, HoldsTask, Level
  <1>4. \A x \in Task : x # t => Stays(x)
    BY <1>1 DEF Stays, HoldsTask
  <1>5. HeldOnce'
    BY <1>0, <1>3, <1>4, OnceIfMoved DEF Part
  <1>6. \A e \in CPU : /\ t \notin parked'[e] /\ t \notin ready'[e] /\ t \notin inbox'[e]
                       /\ parked[e] \subseteq Task /\ ready[e] \subseteq Task /\ inbox[e] \subseteq Task
    BY <1>3 DEF Sole, TypeInv, TypeOK
  <1>7. HomeNamesHolder'
    BY <1>0, <1>1, <1>6 DEF HomeNamesHolder
  <1>8. EnqueueInv'
    <2>1. \A e \in CPU, m \in Level :
             frame[e][m].at \in {"test", "insert"} => frame[e][m].task \in Task \ {t}
      BY <1>2 DEF Sole, HoldsTask, Level, TypeInv, CallInv
    <2> QED BY <1>0, <1>1, <2>1 DEF EnqueueInv
  <1>9. LockInv'
    BY <1>0, <1>1 DEF LockInv
  <1>10. ReadyInv'
    BY <1>0, <1>1, <1>6 DEF ReadyInv
  <1> QED BY <1>5, <1>7, <1>8, <1>9, <1>10 DEF SlotInv, OneOwner

(***************************************************************************)
(* Every step leaves every task in one place, and its home naming it.      *)
(***************************************************************************)
LEMMA InitSlots ==
    Init => SlotInv
  <1> SUFFICES ASSUME Init PROVE SlotInv
    OBVIOUS
  <1>1. ASSUME NEW t \in Task PROVE Sole(t, "ready", home[t]) /\ home[t] \in CPU
    BY DEF Init, Sole, HoldsTask, NoFrame, Level
  <1>2. HeldOnce
    BY <1>1, OnceIsSole DEF Part
  <1>3. HomeNamesHolder /\ EnqueueInv /\ LockInv /\ ReadyInv
    BY DEF Init, HomeNamesHolder, EnqueueInv, LockInv, ReadyInv, NoFrame
  <1> QED BY <1>2, <1>3 DEF SlotInv, OneOwner

\* Every step keeps one owner for each task.
LEMMA StepSlots ==
    TypeInv /\ SlotInv /\ [Next]_vars => SlotInv'
  <1> SUFFICES ASSUME TypeInv, SlotInv, [Next]_vars PROVE SlotInv'
    OBVIOUS
  <1>1. ASSUME NEW c \in CPU, NEW l \in Level, CallStep(c, l) PROVE SlotInv'
    BY <1>1, QuietCalls, QuietSlots, ActivateSlots, MigrateSlots, EnqueueOwnSlots,
       EnqueueTestSlots, ParkInsertSlots, ParkRecheckSlots DEF CallStep
  <1>2. ASSUME NEW c \in CPU, ExecutorStep(c) PROVE SlotInv'
    BY <1>2, QuietExecutor, QuietSlots, TakeParkedSlots, DrainInboxSlots, PickTaskSlots,
       PollPendingSlots, StealSlots DEF ExecutorStep
  <1>3. ASSUME NEW c \in CPU,
               TakeIpi(c) \/ \E t \in Task : IrqWakes(c, t) \/ IrqDefers(c, t)
        PROVE  SlotInv'
    BY <1>3, QuietExecutor, QuietSlots
  <1>4. CASE UNCHANGED vars
    <2>1. NoTaskMoves
      BY <1>4 DEF vars, cellVars, slotVars, execVars, NoTaskMoves
    <2> QED BY <2>1, QuietSlots
  <1> QED BY <1>1, <1>2, <1>3, <1>4 DEF Next, CpuStep

----------------------------------------------------------------------------
(* The one place of a node. *)

\* The only part that holds the node of task t is part k of CPU c; none has it.
SoleNode(t, k, c) ==
    \A d \in CPU :
        /\ t \in nodes[d] <=> k = "staged" /\ d = c
        /\ t \in Batch(d) <=> k = "batch" /\ d = c
        /\ \A l \in Level : HoldsClaim(frame[d][l]) /\ frame[d][l].task = t <=> k = l /\ d = c
NoNode(t) ==
    \A d \in CPU :
        /\ t \notin nodes[d] /\ t \notin Batch(d)
        /\ \A l \in Level : ~(HoldsClaim(frame[d][l]) /\ frame[d][l].task = t)
NodeOK(t) == IF queued[t] THEN \E k \in NodePart, c \in CPU : SoleNode(t, k, c) ELSE NoNode(t)

\* Who holds a wake node, place by place.
LEMMA NodeHeldIs ==
    ASSUME NEW c, NEW t \in Task
    PROVE  /\ t \in NodeHeld("staged", c) <=> t \in nodes[c]
           /\ t \in NodeHeld("batch", c) <=> t \in Batch(c)
           /\ \A l \in Level :
                 t \in NodeHeld(l, c) <=> HoldsClaim(frame[c][l]) /\ frame[c][l].task = t
  BY DEF NodeHeld, Level

\* The same after a step.
LEMMA NodeHeldIsNext ==
    ASSUME NEW c, NEW t \in Task
    PROVE  /\ t \in NodeHeld("staged", c)' <=> t \in nodes'[c]
           /\ t \in NodeHeld("batch", c)' <=> t \in Batch(c)'
           /\ \A l \in Level :
                 t \in NodeHeld(l, c)' <=> HoldsClaim(frame[c][l])' /\ frame'[c][l].task = t
  BY DEF NodeHeld, Level

\* NodeQueuedOnce, task by task.
LEMMA NodesAreOK ==
    /\ NodeQueuedOnce <=> \A t \in Task : NodeOK(t)
    /\ NodeQueuedOnce' <=> \A t \in Task : NodeOK(t)'
  <1>1. ASSUME NEW t \in Task, NEW k \in NodePart, NEW c \in CPU
        PROVE  SoleNode(t, k, c)
                  <=> \A j \in NodePart, d \in CPU : t \in NodeHeld(j, d) <=> j = k /\ d = c
    BY NodeHeldIs DEF SoleNode, NodePart, Level
  <1>2. ASSUME NEW t \in Task, NEW k \in NodePart, NEW c \in CPU
        PROVE  SoleNode(t, k, c)'
                  <=> \A j \in NodePart, d \in CPU : t \in NodeHeld(j, d)' <=> j = k /\ d = c
    BY NodeHeldIsNext DEF SoleNode, NodePart, Level
  <1>3. ASSUME NEW t \in Task
        PROVE  NoNode(t) <=> \A j \in NodePart, d \in CPU : t \notin NodeHeld(j, d)
    BY NodeHeldIs DEF NoNode, NodePart, Level
  <1>4. ASSUME NEW t \in Task
        PROVE  NoNode(t)' <=> \A j \in NodePart, d \in CPU : t \notin NodeHeld(j, d)'
    BY NodeHeldIsNext DEF NoNode, NodePart, Level
  <1>5. NodeQueuedOnce <=> \A t \in Task : NodeOK(t)
    <2>1. ASSUME NEW t \in Task
          PROVE  (\E k \in NodePart, c \in CPU : SoleNode(t, k, c)) <=>
                 \E k \in NodePart, c \in CPU :
                    \A j \in NodePart, d \in CPU : t \in NodeHeld(j, d) <=> j = k /\ d = c
      <3> DEFINE Only(k, c) ==
                   \A j \in NodePart, d \in CPU : t \in NodeHeld(j, d) <=> j = k /\ d = c
      <3>1. \A k \in NodePart, c \in CPU : SoleNode(t, k, c) <=> Only(k, c)
        BY <1>1
      <3> HIDE DEF Only
      <3>2. (\E k \in NodePart, c \in CPU : SoleNode(t, k, c)) <=>
            \E k \in NodePart, c \in CPU : Only(k, c)
        BY <3>1
      <3> QED BY <3>2 DEF Only
    <2>2. ASSUME NEW t \in Task
          PROVE  NodeOK(t) <=>
                 IF queued[t]
                 THEN \E k \in NodePart, c \in CPU :
                         \A j \in NodePart, d \in CPU : t \in NodeHeld(j, d) <=> j = k /\ d = c
                 ELSE \A j \in NodePart, d \in CPU : t \notin NodeHeld(j, d)
      BY <1>3, <2>1 DEF NodeOK
    <2> QED BY <2>2 DEF NodeQueuedOnce
  <1>6. NodeQueuedOnce' <=> \A t \in Task : NodeOK(t)'
    <2>1. ASSUME NEW t \in Task
          PROVE  (\E k \in NodePart, c \in CPU : SoleNode(t, k, c)') <=>
                 \E k \in NodePart, c \in CPU :
                    \A j \in NodePart, d \in CPU : t \in NodeHeld(j, d)' <=> j = k /\ d = c
      <3> DEFINE Only(k, c) ==
                   \A j \in NodePart, d \in CPU : t \in NodeHeld(j, d)' <=> j = k /\ d = c
      <3>1. \A k \in NodePart, c \in CPU : SoleNode(t, k, c)' <=> Only(k, c)
        BY <1>2
      <3> HIDE DEF Only
      <3>2. (\E k \in NodePart, c \in CPU : SoleNode(t, k, c)') <=>
            \E k \in NodePart, c \in CPU : Only(k, c)
        BY <3>1
      <3> QED BY <3>2 DEF Only
    <2>2. ASSUME NEW t \in Task
          PROVE  NodeOK(t)' <=>
                 IF queued'[t]
                 THEN \E k \in NodePart, c \in CPU :
                         \A j \in NodePart, d \in CPU : t \in NodeHeld(j, d)' <=> j = k /\ d = c
                 ELSE \A j \in NodePart, d \in CPU : t \notin NodeHeld(j, d)'
      BY <1>4, <2>1 DEF NodeOK
    <2> QED BY <2>2 DEF NodeQueuedOnce
  <1> QED BY <1>5, <1>6

(***************************************************************************)
(* A part that holds a node is the only one, and activation_queued is set. *)
(***************************************************************************)
LEMMA SoleNodeFrom ==
    ASSUME NodeQueuedOnce, NEW t \in Task, NEW c \in CPU
    PROVE  /\ t \in nodes[c] => queued[t] /\ SoleNode(t, "staged", c)
           /\ t \in Batch(c) => queued[t] /\ SoleNode(t, "batch", c)
           /\ \A l \in Level : HoldsClaim(frame[c][l]) /\ frame[c][l].task = t
                                  => queued[t] /\ SoleNode(t, l, c)
  <1>1. NodeOK(t)
    BY NodesAreOK
  <1>2. CASE ~queued[t]
    BY <1>1, <1>2 DEF NodeOK, NoNode
  <1>3. CASE queued[t]
    <2>1. PICK k \in NodePart, e \in CPU : SoleNode(t, k, e)
      BY <1>1, <1>3 DEF NodeOK
    <2>2. /\ t \in nodes[c] <=> k = "staged" /\ c = e
          /\ t \in Batch(c) <=> k = "batch" /\ c = e
          /\ \A l \in Level : HoldsClaim(frame[c][l]) /\ frame[c][l].task = t <=> k = l /\ c = e
      BY <2>1 DEF SoleNode
    <2> QED BY <1>3, <2>1, <2>2
  <1> QED BY <1>2, <1>3

\* The node of task t is where it was.
NodeStays(t) ==
    /\ queued'[t] = queued[t]
    /\ \A d \in CPU :
          /\ t \in nodes'[d] <=> t \in nodes[d]
          /\ t \in Batch(d)' <=> t \in Batch(d)
          /\ \A l \in Level : HoldsClaim(frame'[d][l]) /\ frame'[d][l].task = t
                                 <=> HoldsClaim(frame[d][l]) /\ frame[d][l].task = t

\* A node that stays is where it should be.
LEMMA StaysOK ==
    ASSUME NodeQueuedOnce, NEW t \in Task, NodeStays(t)
    PROVE  NodeOK(t)'
  <1>1. NodeOK(t)
    BY NodesAreOK
  <1>2. CASE queued[t]
    <2>1. PICK k \in NodePart, c \in CPU : SoleNode(t, k, c)
      BY <1>1, <1>2 DEF NodeOK
    <2>2. SoleNode(t, k, c)'
      BY <2>1 DEF NodeStays, SoleNode, HoldsClaim
    <2> QED BY <1>2, <2>2 DEF NodeStays, NodeOK
  <1>3. CASE ~queued[t]
    <2>1. NoNode(t)
      BY <1>1, <1>3 DEF NodeOK
    <2>2. NoNode(t)'
      BY <2>1 DEF NodeStays, NoNode, HoldsClaim
    <2> QED BY <1>3, <2>2 DEF NodeStays, NodeOK
  <1> QED BY <1>2, <1>3

(***************************************************************************)
(* Steps that move no node.                                                *)
(***************************************************************************)
SameClaim(d, m) ==
    /\ HoldsClaim(frame'[d][m]) <=> HoldsClaim(frame[d][m])
    /\ HoldsClaim(frame[d][m]) => frame'[d][m].task = frame[d][m].task

NoNodeMoves ==
    /\ UNCHANGED <<queued, nodes>> /\ \A d \in CPU : Batch(d)' = Batch(d)
    /\ \A d \in CPU, m \in Level : SameClaim(d, m)

\* Steps that move no node.
LEMMA QuietNodes ==
    ASSUME NodeQueuedOnce, NoNodeMoves
    PROVE  NodeQueuedOnce'
  <1>1. \A t \in Task : NodeStays(t)
    BY DEF NoNodeMoves, SameClaim, NodeStays
  <1> QED BY <1>1, StaysOK, NodesAreOK

\* A call that neither takes nor gives up a claim.
LEMMA SetsSameClaim ==
    ASSUME NEW c, NEW l, NEW place, NEW t, NEW d, Sets(c, l, place, t, d),
           \/ /\ place \notin {"locate", "publish", "release"}
              /\ frame[c][l].at \notin {"locate", "publish", "release"}
           \/ /\ place \in {"locate", "publish", "release"}
              /\ frame[c][l].at \in {"locate", "publish", "release"} /\ t = frame[c][l].task
    PROVE  \A e \in CPU, m \in Level : SameClaim(e, m)
  BY DEF Sets, OtherFrames, SameClaim, HoldsClaim

\* The calls' steps that move no node.
LEMMA QuietNodeCalls ==
    ASSUME TypeInv, NEW c \in CPU, NEW l \in Level,
           \/ WakeSwap(c, l) \/ ActivateLocal(c, l) \/ TokenLoad(c, l) \/ LocateNode(c, l)
           \/ RecheckFlag(c, l) \/ KickHome(c, l) \/ (\E d \in CPU : MigrateWakee(c, l, d))
           \/ KickNeed(c, l) \/ KickHalted(c, l) \/ EnqueueOwn(c, l) \/ EnqueueTest(c, l)
           \/ ParkInsert(c, l) \/ ParkRecheck(c, l)
    PROVE  NoNodeMoves
  <1>0. PICK t, d : t = frame[c][l].task /\ d = frame[c][l].cpu
    OBVIOUS
  <1>1. UNCHANGED <<queued, nodes, pc, todo>>
    BY DEF cellVars, execVars, WakeSwap, ActivateLocal, TokenLoad, LocateNode, RecheckFlag,
           KickHome, MigrateWakee, KickNeed, KickHalted, EnqueueOwn, EnqueueTest, ParkInsert,
           ParkRecheck
  <1>2. \A e \in CPU, m \in Level : SameClaim(e, m)
    <2>1. CASE LocateNode(c, l)
      <3>1. frame[c][l].at = "locate"
        BY <2>1 DEF LocateNode, At
      <3> QED BY <1>0, <2>1, <3>1, CallSets, SetsSameClaim
    <2>2. CASE ~LocateNode(c, l)
      <3>1. frame[c][l].at \notin {"locate", "publish", "release"}
        BY <2>2 DEF At, WakeSwap, ActivateLocal, TokenLoad, RecheckFlag, KickHome, MigrateWakee,
                    KickNeed, KickHalted, EnqueueOwn, EnqueueTest, ParkInsert, ParkRecheck
      <3>2. CASE WakeSwap(c, l) \/ ActivateLocal(c, l) \/ TokenLoad(c, l) \/ RecheckFlag(c, l)
        BY <1>0, <3>1, <3>2, CallSets, SetsSameClaim
      <3>3. CASE KickHome(c, l) \/ KickNeed(c, l) \/ KickHalted(c, l)
                 \/ (\E e \in CPU : MigrateWakee(c, l, e))
        BY <1>0, <3>1, <3>3, CallSets, SetsSameClaim
      <3>4. CASE EnqueueOwn(c, l) \/ EnqueueTest(c, l) \/ ParkInsert(c, l) \/ ParkRecheck(c, l)
        BY <1>0, <3>1, <3>4, CallSets, SetsSameClaim
      <3> QED BY <2>2, <3>2, <3>3, <3>4
    <2> QED BY <2>1, <2>2
  <1> QED BY <1>1, <1>2 DEF NoNodeMoves, Batch

\* The executor's steps that move no node.
LEMMA QuietNodeExecutor ==
    ASSUME TypeInv, NEW c \in CPU,
           \/ RoundTop(c) \/ WakeDeferred(c) \/ RouteNode(c) \/ TakeParked(c)
           \/ DrainPending(c) \/ EndRound(c) \/ LeaveIdle(c) \/ CommitToHalt(c) \/ CheckNeed(c)
           \/ FinalScan(c) \/ Resume(c) \/ TakeIpi(c)
           \/ (\E t \in Task : \/ DrainInbox(c, t) \/ PickTask(c, t) \/ PollWakes(c, t)
                               \/ IrqWakes(c, t) \/ IrqDefers(c, t))
           \/ (\E d \in CPU : PollPending(c, d) \/ \E t \in Task : Steal(c, d, t))
    PROVE  NoNodeMoves
  <1>0. /\ pc \in [CPU -> {"top", "wakers", "inbox", "node", "route", "take", "round", "pick",
                            "poll", "idle", "need", "scan", "hlt", "resume"}]
        /\ todo \in [CPU -> SUBSET Task] /\ ret \in [CPU -> {"round", "pick", "idle"}]
        /\ "exec" \in Level /\ "irq" \in Level
    BY DEF TypeInv, TypeOK, Level
  <1>1. UNCHANGED <<queued, nodes>>
    BY DEF cellVars, RoundTop, WakeDeferred, RouteNode, TakeParked, DrainPending, EndRound,
           LeaveIdle, CommitToHalt, CheckNeed, FinalScan, Resume, TakeIpi, DrainInbox, PickTask,
           PollWakes, IrqWakes, IrqDefers, PollPending, Steal
  <1>2. ASSUME NEW d \in CPU PROVE Batch(d)' = Batch(d)
    <2> USE <1>0 DEF Batch, Goto, Exec, Picking
    <2>1. CASE RoundTop(c) \/ WakeDeferred(c) \/ LeaveIdle(c)
      BY <2>1 DEF RoundTop, WakeDeferred, LeaveIdle
    <2>2. CASE RouteNode(c)
      BY <2>2 DEF RouteNode, NodeDone
    <2>3. CASE TakeParked(c)
      BY <2>3 DEF TakeParked, NodeDone
    <2>4. CASE DrainPending(c) \/ EndRound(c)
      BY <2>4 DEF DrainPending, EndRound
    <2>5. CASE CommitToHalt(c) \/ CheckNeed(c) \/ FinalScan(c) \/ Resume(c)
      BY <2>5 DEF CommitToHalt, CheckNeed, FinalScan, Resume
    <2>6. ASSUME NEW t \in Task, DrainInbox(c, t) \/ PickTask(c, t) \/ PollWakes(c, t)
          PROVE  Batch(d)' = Batch(d)
      BY <2>6 DEF DrainInbox, PickTask, PollWakes, execVars
    <2>7. ASSUME NEW e \in CPU, PollPending(c, e) \/ \E t \in Task : Steal(c, e, t)
          PROVE  Batch(d)' = Batch(d)
      BY <2>7 DEF PollPending, Steal
    <2>8. ASSUME NEW t \in Task, IrqWakes(c, t) \/ IrqDefers(c, t)
          PROVE  Batch(d)' = Batch(d)
      BY <2>8 DEF IrqWakes, IrqDefers, Interrupted
    <2>9. CASE TakeIpi(c)
      BY <2>9 DEF TakeIpi, Interrupted
    <2> QED BY <2>1, <2>2, <2>3, <2>4, <2>5, <2>6, <2>7, <2>8, <2>9
  <1>3. \A d \in CPU, m \in Level : SameClaim(d, m)
    <2>1. CASE frame' = frame
      BY <2>1 DEF SameClaim
    <2>2. CASE \/ WakeDeferred(c) \/ RouteNode(c) \/ TakeParked(c)
               \/ (\E t \in Task : PollWakes(c, t))
               \/ (\E d \in CPU : PollPending(c, d) \/ \E t \in Task : Steal(c, d, t))
      <3>1. frame[c]["exec"].at = "idle"
        BY <1>0, <2>2 DEF WakeDeferred, RouteNode, TakeParked, PollWakes, PollPending, Steal, Exec,
                          Executing
      <3>2. \/ frame' = frame
            \/ \E place \in {"swap", "token", "own"} : \E t, d : Sets(c, "exec", place, t, d)
        BY <2>2, NewCallSets
      <3> QED BY <2>1, <3>1, <3>2, SetsSameClaim
    <2>3. ASSUME NEW t \in Task, IrqWakes(c, t) PROVE \A d \in CPU, m \in Level : SameClaim(d, m)
      <3>1. frame[c]["irq"].at = "idle" /\ Sets(c, "irq", "swap", t, NoTask)
        BY <2>3, NewCallSets DEF IrqWakes, Unmasked
      <3> QED BY <3>1, SetsSameClaim
    <2>4. CASE \/ RoundTop(c) \/ DrainPending(c) \/ EndRound(c) \/ LeaveIdle(c) \/ CommitToHalt(c)
               \/ CheckNeed(c) \/ FinalScan(c) \/ Resume(c) \/ TakeIpi(c)
               \/ (\E t \in Task : DrainInbox(c, t) \/ PickTask(c, t) \/ IrqDefers(c, t))
      BY <2>1, <2>4 DEF RoundTop, DrainPending, EndRound, LeaveIdle, CommitToHalt, CheckNeed,
                        FinalScan, Resume, TakeIpi, DrainInbox, PickTask, IrqDefers
    <2> QED BY <2>2, <2>3, <2>4
  <1> QED BY <1>1, <1>2, <1>3 DEF NoNodeMoves

(***************************************************************************)
(* activation_queued.swap(true) gives the claim to one producer; the       *)
(* release gives it back.                                                  *)
(***************************************************************************)
LEMMA ClaimNodes ==
    ASSUME TypeInv, NodeQueuedOnce, NEW c \in CPU, NEW l \in Level, ClaimNode(c, l)
    PROVE  NodeQueuedOnce'
  <1>1. PICK t, d : t = frame[c][l].task /\ d = frame[c][l].cpu
    OBVIOUS
  <1>2. t \in Task /\ Sets(c, l, IF queued[t] THEN "home" ELSE "locate", t, d)
    BY <1>1, CallSets
  <1>3. /\ frame[c][l].at = "claim" /\ UNCHANGED <<nodes, pc, todo>>
        /\ queued'[t] = TRUE /\ \A x \in Task \ {t} : queued'[x] = queued[x]
        /\ queued[t] \in BOOLEAN
    BY <1>1, <1>2 DEF ClaimNode, At, execVars, TypeInv, TypeOK
  <1>4. /\ \A e \in CPU : Batch(e)' = Batch(e)
        /\ \A e \in CPU, m \in Level : e # c \/ m # l => frame'[e][m] = frame[e][m]
        /\ frame'[c][l].task = t
        /\ frame'[c][l].at = IF queued[t] THEN "home" ELSE "locate"
    BY <1>2, <1>3 DEF Batch, Sets, OtherFrames
  <1>5. \A x \in Task : x # t => NodeStays(x)
    BY <1>1, <1>3, <1>4 DEF NodeStays, HoldsClaim
  <1>6. NodeOK(t)'
    <2>1. CASE queued[t]
      <3>1. NodeStays(t)
        BY <1>3, <1>4, <2>1 DEF NodeStays, HoldsClaim
      <3> QED BY <1>2, <3>1, StaysOK
    <2>2. CASE ~queued[t]
      <3>1. NoNode(t)
        BY <1>2, <2>2, NodesAreOK DEF NodeOK
      <3>2. SoleNode(t, l, c)'
        BY <1>3, <1>4, <2>2, <3>1 DEF NoNode, SoleNode, HoldsClaim, Level
      <3> QED BY <1>3, <3>2 DEF NodeOK, NodePart
    <2> QED BY <2>1, <2>2
  <1> QED BY <1>5, <1>6, StaysOK, NodesAreOK

\* A claim that is given up frees its node.
LEMMA ReleaseNodes ==
    ASSUME TypeInv, NodeQueuedOnce, NEW c \in CPU, NEW l \in Level, ReleaseClaim(c, l)
    PROVE  NodeQueuedOnce'
  <1>1. PICK t, d : t = frame[c][l].task /\ d = frame[c][l].cpu
    OBVIOUS
  <1>2. t \in Task /\ Sets(c, l, "again", t, d)
    BY <1>1, CallSets
  <1>3. /\ frame[c][l].at = "release" /\ UNCHANGED <<nodes, pc, todo>>
        /\ queued'[t] = FALSE /\ \A x \in Task \ {t} : queued'[x] = queued[x]
    BY <1>1, <1>2 DEF ReleaseClaim, At, execVars, TypeInv, TypeOK
  <1>4. /\ \A e \in CPU : Batch(e)' = Batch(e)
        /\ \A e \in CPU, m \in Level : e # c \/ m # l => frame'[e][m] = frame[e][m]
        /\ frame'[c][l].at = "again"
    BY <1>2, <1>3 DEF Batch, Sets, OtherFrames
  <1>5. \A x \in Task : x # t => NodeStays(x)
    BY <1>1, <1>3, <1>4 DEF NodeStays, HoldsClaim
  <1>6. SoleNode(t, l, c)
    BY <1>1, <1>2, <1>3, SoleNodeFrom DEF HoldsClaim
  <1>7. NoNode(t)'
    BY <1>3, <1>4, <1>6 DEF NoNode, SoleNode, HoldsClaim, Level
  <1>8. NodeOK(t)'
    BY <1>3, <1>7 DEF NodeOK
  <1> QED BY <1>5, <1>8, StaysOK, NodesAreOK

(***************************************************************************)
(* The producer publishes the node it has claimed.                         *)
(***************************************************************************)
LEMMA PublishNodes ==
    ASSUME TypeInv, NodeQueuedOnce, NEW c \in CPU, NEW l \in Level, PublishNode(c, l)
    PROVE  NodeQueuedOnce'
  <1>1. PICK t, d : t = frame[c][l].task /\ d = frame[c][l].cpu
    OBVIOUS
  <1>2. /\ t \in Task /\ d \in CPU
        /\ \/ ~ParkedAt(t, d) /\ Sets(c, l, "locate", t, NoTask)
           \/ ParkedAt(t, d) /\ d # c /\ Sets(c, l, "need", t, d)
           \/ ParkedAt(t, d) /\ d = c /\ Sets(c, l, "home", t, NoTask)
    BY <1>1, PublishSets
  <1>3. /\ frame[c][l].at = "publish" /\ UNCHANGED <<queued, pc, todo>>
        /\ nodes' = IF ParkedAt(t, d) THEN [nodes EXCEPT ![d] = @ \cup {t}] ELSE nodes
    BY <1>1 DEF PublishNode, ParkedAt, At, cellVars, execVars
  <1>4. \A e \in CPU : Batch(e)' = Batch(e)
    BY <1>3 DEF Batch
  <1>5. CASE ~ParkedAt(t, d)
    <2>1. Sets(c, l, "locate", t, NoTask) /\ nodes' = nodes
      BY <1>2, <1>3, <1>5
    <2>2. NoNodeMoves
      BY <1>1, <1>3, <1>4, <2>1, SetsSameClaim DEF NoNodeMoves
    <2> QED BY <2>2, QuietNodes
  <1>6. CASE ParkedAt(t, d)
    <2>1. /\ \A e \in CPU, m \in Level : e # c \/ m # l => frame'[e][m] = frame[e][m]
          /\ frame'[c][l].at \in {"need", "home"}
      BY <1>2, <1>6 DEF Sets, OtherFrames
    <2>2. nodes'[d] = nodes[d] \cup {t} /\ \A e \in CPU \ {d} : nodes'[e] = nodes[e]
      BY <1>2, <1>3, <1>6 DEF TypeInv, TypeOK
    <2>3. \A x \in Task : x # t => NodeStays(x)
      BY <1>1, <1>2, <1>3, <1>4, <2>1, <2>2 DEF NodeStays, HoldsClaim
    <2>4. queued[t] /\ SoleNode(t, l, c)
      BY <1>1, <1>2, <1>3, SoleNodeFrom DEF HoldsClaim
    <2>5. SoleNode(t, "staged", d)'
      BY <1>2, <1>4, <2>1, <2>2, <2>4 DEF SoleNode, HoldsClaim, Level
    <2>6. NodeOK(t)'
      BY <1>2, <1>3, <2>4, <2>5 DEF NodeOK, NodePart
    <2> QED BY <2>3, <2>6, StaysOK, NodesAreOK
  <1> QED BY <1>5, <1>6

(***************************************************************************)
(* The executor detaches its inbox as one batch, and drains it node by     *)
(* node, each given back before its task is looked for.                    *)
(***************************************************************************)
LEMMA DetachBatch ==
    ASSUME TypeInv, NodeQueuedOnce, NEW c \in CPU, DetachNodes(c)
    PROVE  NodeQueuedOnce'
  <1>1. /\ UNCHANGED <<queued, frame>> /\ pc[c] = "inbox"
        /\ nodes'[c] = {} /\ \A e \in CPU \ {c} : nodes'[e] = nodes[e]
        /\ Batch(c) = {} /\ Batch(c)' = nodes[c]
        /\ \A e \in CPU \ {c} : Batch(e)' = Batch(e)
    BY DEF DetachNodes, Exec, Goto, Batch, cellVars, TypeInv, TypeOK
  <1>2. ASSUME NEW t \in Task PROVE NodeOK(t)'
    <2>1. CASE t \in nodes[c]
      <3>1. queued[t] /\ SoleNode(t, "staged", c)
        BY <2>1, SoleNodeFrom
      <3>2. SoleNode(t, "batch", c)'
        BY <1>1, <2>1, <3>1 DEF SoleNode, HoldsClaim, Level
      <3> QED BY <1>1, <3>1, <3>2 DEF NodeOK, NodePart
    <2>2. CASE t \notin nodes[c]
      <3>1. NodeStays(t)
        BY <1>1, <2>2 DEF NodeStays, HoldsClaim
      <3> QED BY <3>1, StaysOK
    <2> QED BY <2>1, <2>2
  <1> QED BY <1>2, NodesAreOK

\* A drained node leaves the batch as its claim is released.
LEMMA DrainBatch ==
    ASSUME TypeInv, NodeQueuedOnce, NEW c \in CPU, NEW t \in Task, DrainNode(c, t)
    PROVE  NodeQueuedOnce'
  <1>1. /\ UNCHANGED <<nodes, frame>> /\ t \in Batch(c)
        /\ queued'[t] = FALSE /\ \A x \in Task \ {t} : queued'[x] = queued[x]
        /\ Batch(c)' = Batch(c) \ {t} /\ \A e \in CPU \ {c} : Batch(e)' = Batch(e)
    BY DEF DrainNode, Exec, Goto, Batch, TypeInv, TypeOK
  <1>2. SoleNode(t, "batch", c)
    BY <1>1, SoleNodeFrom
  <1>3. NoNode(t)'
    BY <1>1, <1>2 DEF NoNode, SoleNode, HoldsClaim, Level
  <1>4. NodeOK(t)'
    BY <1>1, <1>3 DEF NodeOK
  <1>5. \A x \in Task : x # t => NodeStays(x)
    BY <1>1 DEF NodeStays, HoldsClaim
  <1> QED BY <1>4, <1>5, StaysOK, NodesAreOK

(***************************************************************************)
(* Every step leaves every node in one place or in none, as its            *)
(* activation_queued says.                                                 *)
(***************************************************************************)
LEMMA InitNodes ==
    Init => NodeQueuedOnce
  BY NodesAreOK DEF Init, NodeOK, NoNode, Batch, HoldsClaim, NoFrame

\* Every step keeps each node on at most one inbox.
LEMMA StepNodes ==
    TypeInv /\ NodeQueuedOnce /\ [Next]_vars => NodeQueuedOnce'
  <1> SUFFICES ASSUME TypeInv, NodeQueuedOnce, [Next]_vars PROVE NodeQueuedOnce'
    OBVIOUS
  <1>1. ASSUME NEW c \in CPU, NEW l \in Level, CallStep(c, l) PROVE NodeQueuedOnce'
    BY <1>1, QuietNodeCalls, QuietNodes, ClaimNodes, ReleaseNodes, PublishNodes DEF CallStep
  <1>2. ASSUME NEW c \in CPU, ExecutorStep(c) PROVE NodeQueuedOnce'
    BY <1>2, QuietNodeExecutor, QuietNodes, DetachBatch, DrainBatch DEF ExecutorStep
  <1>3. ASSUME NEW c \in CPU,
               TakeIpi(c) \/ \E t \in Task : IrqWakes(c, t) \/ IrqDefers(c, t)
        PROVE  NodeQueuedOnce'
    BY <1>3, QuietNodeExecutor, QuietNodes
  <1>4. CASE UNCHANGED vars
    <2>1. NoNodeMoves
      BY <1>4 DEF vars, cellVars, execVars, NoNodeMoves, SameClaim, Batch
    <2> QED BY <2>1, QuietNodes
  <1> QED BY <1>1, <1>2, <1>3, <1>4 DEF Next, CpuStep

----------------------------------------------------------------------------
(* Woken tasks are attended to. *)

CallAttends(c, l, t) ==
    frame[c][l].task = t /\ frame[c][l].at \in {"token", "claim", "again", "recheck"}
ExecAttends(c, t) == cur[c] = t /\ (pc[c] = "route" \/ (pc[c] = "take" /\ t \in parked[c]))

\* Who attends to a task's wake, place by place.
LEMMA AttendedIs ==
    ASSUME NEW t
    PROVE  /\ Attended(t) <=> \/ queued[t]
                              \/ \E c \in CPU, l \in Level : CallAttends(c, l, t)
                              \/ \E c \in CPU : ExecAttends(c, t)
           /\ Attended(t)' <=> \/ queued'[t]
                               \/ \E c \in CPU, l \in Level : CallAttends(c, l, t)'
                               \/ \E c \in CPU : ExecAttends(c, t)'
  BY DEF Attended, Frames, CallAttends, ExecAttends

\* A wake stays attended while its attendants stay.
LEMMA StillAttended ==
    ASSUME NEW t, Attended(t), queued[t] => queued'[t],
           \A c \in CPU, l \in Level : CallAttends(c, l, t) => CallAttends(c, l, t)',
           \A c \in CPU : ExecAttends(c, t) => ExecAttends(c, t)'
    PROVE  Attended(t)'
  BY AttendedIs

(***************************************************************************)
(* A step of a call changes nothing for other tasks than its own.          *)
(***************************************************************************)
CallLocal(c, l, t) ==
    /\ t = frame[c][l].task /\ OtherFrames(c, l) /\ UNCHANGED <<pc, cur>>
    /\ \A x \in Task \ {t} : /\ queued'[x] = queued[x] /\ flag'[x] = flag[x]
                             /\ \A e \in CPU : x \in parked'[e] <=> x \in parked[e]

\* A call touches its own task only.
LEMMA CallsAreLocal ==
    ASSUME TypeInv, NEW c \in CPU, NEW l \in Level, CallStep(c, l), NEW t, t = frame[c][l].task
    PROVE  CallLocal(c, l, t) /\ t \in Task
  <1>0. PICK d : d = frame[c][l].cpu
    OBVIOUS
  <1>1. t \in Task /\ OtherFrames(c, l)
    <2>1. CASE \/ WakeSwap(c, l) \/ ActivateLocal(c, l) \/ TokenLoad(c, l) \/ ClaimNode(c, l)
               \/ ReleaseClaim(c, l) \/ RecheckFlag(c, l)
      BY <1>0, <2>1, CallSets DEF Sets
    <2>2. CASE LocateNode(c, l) \/ PublishNode(c, l)
      BY <1>0, <2>2, CallSets DEF Sets
    <2>3. CASE KickHome(c, l) \/ KickNeed(c, l) \/ KickHalted(c, l)
               \/ (\E e \in CPU : MigrateWakee(c, l, e))
      BY <1>0, <2>3, CallSets DEF Sets
    <2>4. CASE EnqueueOwn(c, l) \/ EnqueueTest(c, l) \/ ParkInsert(c, l) \/ ParkRecheck(c, l)
      BY <1>0, <2>4, CallSets DEF Sets
    <2> QED BY <2>1, <2>2, <2>3, <2>4 DEF CallStep
  <1>2. UNCHANGED <<pc, cur>>
    BY DEF CallStep, WakeSwap, ActivateLocal, TokenLoad, ClaimNode, LocateNode, PublishNode,
           ReleaseClaim, RecheckFlag, KickHome, MigrateWakee, KickNeed, KickHalted, EnqueueOwn,
           EnqueueTest, ParkInsert, ParkRecheck, execVars
  <1>3. ASSUME NEW x \in Task, x # t PROVE queued'[x] = queued[x] /\ flag'[x] = flag[x]
    <2>1. queued \in [Task -> BOOLEAN] /\ flag \in [Task -> BOOLEAN]
      BY DEF TypeInv, TypeOK
    <2>2. CASE WakeSwap(c, l) \/ ClaimNode(c, l) \/ ReleaseClaim(c, l)
      BY <1>3, <2>1, <2>2 DEF WakeSwap, ClaimNode, ReleaseClaim
    <2>3. CASE ~(WakeSwap(c, l) \/ ClaimNode(c, l) \/ ReleaseClaim(c, l))
      BY <2>3 DEF CallStep, ActivateLocal, TokenLoad, LocateNode, PublishNode,
                  RecheckFlag, KickHome, MigrateWakee, KickNeed, KickHalted, EnqueueOwn,
                  EnqueueTest, ParkInsert, ParkRecheck, cellVars
    <2> QED BY <2>2, <2>3
  <1>4. ASSUME NEW x \in Task, x # t, NEW e \in CPU PROVE x \in parked'[e] <=> x \in parked[e]
    <2>1. parked \in [CPU -> SUBSET Task]
      BY DEF TypeInv, TypeOK
    <2>2. CASE ActivateLocal(c, l) \/ ParkInsert(c, l) \/ ParkRecheck(c, l)
      BY <1>4, <2>1, <2>2 DEF ActivateLocal, ParkInsert, ParkRecheck
    <2>3. ASSUME NEW d1 \in CPU, MigrateWakee(c, l, d1) PROVE x \in parked'[e] <=> x \in parked[e]
      BY <1>4, <2>1, <2>3 DEF MigrateWakee
    <2>4. CASE EnqueueTest(c, l)
      BY <2>4 DEF EnqueueTest, slotVars
    <2>5. CASE \/ WakeSwap(c, l) \/ TokenLoad(c, l) \/ ClaimNode(c, l) \/ LocateNode(c, l)
               \/ PublishNode(c, l) \/ ReleaseClaim(c, l) \/ RecheckFlag(c, l) \/ KickHome(c, l)
               \/ KickNeed(c, l) \/ KickHalted(c, l) \/ EnqueueOwn(c, l)
      BY <2>5 DEF WakeSwap, TokenLoad, ClaimNode, LocateNode, PublishNode, ReleaseClaim,
                  RecheckFlag, KickHome, KickNeed, KickHalted, EnqueueOwn, slotVars
    <2> QED BY <2>2, <2>3, <2>4, <2>5 DEF CallStep
  <1> QED BY <1>1, <1>2, <1>3, <1>4 DEF CallLocal

\* So the wakes of other tasks stay attended.
LEMMA OthersAttended ==
    ASSUME WakeNotLost, NEW c \in CPU, NEW l \in Level, NEW t, CallLocal(c, l, t),
           NEW x \in Task, x # t, NEW e \in CPU, x \in parked'[e], flag'[x]
    PROVE  Attended(x)'
  <1>1. Attended(x)
    BY DEF WakeNotLost, CallLocal
  <1>2. \A d \in CPU, m \in Level : CallAttends(d, m, x) => CallAttends(d, m, x)'
    BY DEF CallLocal, CallAttends, OtherFrames
  <1>3. \A d \in CPU : ExecAttends(d, x) => ExecAttends(d, x)'
    BY DEF CallLocal, ExecAttends
  <1> QED BY <1>1, <1>2, <1>3, StillAttended DEF CallLocal

(***************************************************************************)
(* The task of the call itself.                                            *)
(***************************************************************************)
LEMMA OwnAttended ==
    ASSUME TypeInv, SlotInv, NodeQueuedOnce, WakeNotLost, NEW c \in CPU, NEW l \in Level,
           CallStep(c, l), NEW t, t = frame[c][l].task, NEW e \in CPU, t \in parked'[e], flag'[t]
    PROVE  Attended(t)'
  <1>0. PICK d : d = frame[c][l].cpu
    OBVIOUS
  <1>1. CallLocal(c, l, t) /\ t \in Task /\ HeldOnce
    BY CallsAreLocal DEF SlotInv, OneOwner
  <1>2. \A b, a \in CPU : t \in parked[b] /\ t \in parked[a] => a = b
    BY <1>1, SoleFrom DEF Sole
  <1>3. ASSUME CallAttends(c, l, t)' PROVE Attended(t)'
    BY <1>3, AttendedIs
  <1>4. ASSUME queued'[t] PROVE Attended(t)'
    BY <1>4, AttendedIs
  <1>5. ASSUME NEW place, NEW a, Sets(c, l, place, t, a),
               place \in {"token", "claim", "again", "recheck"}
        PROVE  Attended(t)'
    BY <1>3, <1>5 DEF Sets, CallAttends
  <1>6. ASSUME t \in parked[e], flag[t], queued[t] => queued'[t], ~CallAttends(c, l, t),
               \A a \in CPU : t \in parked[a] => t \in parked'[a]
        PROVE  Attended(t)'
    <2>1. Attended(t)
      BY <1>1, <1>6 DEF WakeNotLost
    <2>2. \A b \in CPU, m \in Level : CallAttends(b, m, t) => CallAttends(b, m, t)'
      BY <1>1, <1>6 DEF CallLocal, CallAttends, OtherFrames
    <2>3. \A b \in CPU : ExecAttends(b, t) => ExecAttends(b, t)'
      BY <1>1, <1>6 DEF CallLocal, ExecAttends
    <2> QED BY <1>6, <2>1, <2>2, <2>3, StillAttended
  <1>7. CASE WakeSwap(c, l)
    <2>1. UNCHANGED <<queued, parked>> /\ ~CallAttends(c, l, t)
      BY <1>7 DEF WakeSwap, slotVars, At, CallAttends
    <2>2. CASE flag[t]
      BY <1>6, <2>1, <2>2
    <2>3. CASE ~flag[t]
      <3>1. Sets(c, l, "token", t, d)
        BY <1>0, <1>7, <2>3, CallSets
      <3> QED BY <1>5, <3>1
    <2> QED BY <2>2, <2>3
  <1>8. CASE ActivateLocal(c, l)
    <2>1. /\ t \in parked[c] /\ parked'[c] = parked[c] \ {t}
          /\ \A a \in CPU \ {c} : parked'[a] = parked[a]
      BY <1>8 DEF ActivateLocal, TypeInv, TypeOK
    <2> QED BY <1>2, <2>1
  <1>9. CASE TokenLoad(c, l)
    <2>1. Location(t) # {}
      BY <1>9 DEF TokenLoad, slotVars, Location
    <2>2. Go(c, l, "claim")
      BY <1>9, <2>1 DEF TokenLoad
    <2>3. frame \in FramesType
      BY DEF TypeInv, TypeOK, FramesType
    <2>4. Sets(c, l, "claim", t, d)
      BY <1>0, <2>2, <2>3, GoSets DEF FramePlace
    <2> QED BY <1>5, <2>4
  <1>10. CASE ClaimNode(c, l)
    <2>1. queued'[t]
      BY <1>1, <1>10 DEF ClaimNode, TypeInv, TypeOK
    <2> QED BY <1>4, <2>1
  <1>11. CASE LocateNode(c, l) \/ PublishNode(c, l)
    <2>1. queued' = queued /\ HoldsClaim(frame[c][l])
      BY <1>11 DEF LocateNode, PublishNode, cellVars, At, HoldsClaim
    <2>2. queued[t]
      BY <1>1, <2>1, SoleNodeFrom
    <2> QED BY <1>4, <2>1, <2>2
  <1>12. CASE ReleaseClaim(c, l)
    <2>1. Sets(c, l, "again", t, d)
      BY <1>0, <1>12, CallSets
    <2> QED BY <1>5, <2>1
  <1>13. CASE RecheckFlag(c, l)
    <2>1. flag[t]
      BY <1>13 DEF RecheckFlag, cellVars
    <2>2. Sets(c, l, "token", t, d)
      BY <1>0, <1>13, <2>1, CallSets
    <2> QED BY <1>5, <2>2
  <1>14. CASE KickHome(c, l) \/ KickNeed(c, l) \/ KickHalted(c, l) \/ EnqueueOwn(c, l)
              \/ EnqueueTest(c, l)
    <2>1. UNCHANGED <<flag, queued, parked>> /\ ~CallAttends(c, l, t)
      BY <1>14 DEF KickHome, KickNeed, KickHalted, EnqueueOwn, EnqueueTest, cellVars, slotVars, At,
                   CallAttends
    <2> QED BY <1>6, <2>1
  <1>15. ASSUME NEW a \in CPU, MigrateWakee(c, l, a) PROVE Attended(t)'
    <2>1. UNCHANGED <<flag, queued>> /\ ~CallAttends(c, l, t)
      BY <1>15 DEF MigrateWakee, cellVars, At, CallAttends
    <2>2. PICK h \in CPU : h = home[t]
      BY <1>1 DEF TypeInv, TypeOK
    <2>3. CASE t \in parked[h] /\ parked' = [parked EXCEPT ![h] = @ \ {t}]
      BY <1>2, <2>3 DEF TypeInv, TypeOK
    <2>4. CASE UNCHANGED parked
      BY <1>6, <2>1, <2>4
    <2> QED BY <1>15, <2>2, <2>3, <2>4 DEF MigrateWakee
  <1>16. CASE ParkInsert(c, l)
    <2>1. Sets(c, l, "recheck", t, d)
      BY <1>0, <1>16, CallSets
    <2> QED BY <1>5, <2>1
  <1>17. CASE ParkRecheck(c, l)
    <2>1. flag[t] /\ d \in CPU /\ t \in parked[d] /\ parked' = [parked EXCEPT ![d] = @ \ {t}]
      BY <1>0, <1>17 DEF ParkRecheck, At, cellVars, SlotInv, EnqueueInv, TypeInv, CallInv
    <2>2. t \notin parked'[d] /\ \A a \in CPU \ {d} : parked'[a] = parked[a]
      BY <2>1 DEF TypeInv, TypeOK
    <2> QED BY <1>2, <2>1, <2>2
  <1> QED BY <1>7, <1>8, <1>9, <1>10, <1>11, <1>12, <1>13, <1>14, <1>15, <1>16, <1>17 DEF CallStep

(***************************************************************************)
(* An executor or an interrupt leaves the attended tasks alone, except the *)
(* drain of a node.                                                        *)
(***************************************************************************)
QuietWake ==
    /\ UNCHANGED <<queued, parked>> /\ \A x \in Task : flag'[x] => flag[x]
    /\ \A d \in CPU, m \in Level : frame[d][m].at = "idle" \/ frame'[d][m] = frame[d][m]
    /\ \A d \in CPU : pc[d] \in {"route", "take"} => pc'[d] = pc[d] /\ cur'[d] = cur[d]

\* Steps that touch neither flags nor attendants.
LEMMA QuietAttended ==
    ASSUME WakeNotLost, QuietWake
    PROVE  WakeNotLost'
  <1>1. ASSUME NEW x \in Task, NEW e \in CPU, x \in parked'[e], flag'[x] PROVE Attended(x)'
    <2>1. Attended(x)
      BY <1>1 DEF WakeNotLost, QuietWake
    <2>2. \A d \in CPU, m \in Level : CallAttends(d, m, x) => CallAttends(d, m, x)'
      BY DEF QuietWake, CallAttends
    <2>3. \A d \in CPU : ExecAttends(d, x) => ExecAttends(d, x)'
      BY DEF QuietWake, ExecAttends
    <2> QED BY <2>1, <2>2, <2>3, StillAttended DEF QuietWake
  <1> QED BY <1>1 DEF WakeNotLost

\* A call that starts ends none.
LEMMA SetsFromIdle ==
    ASSUME NEW c, NEW l, NEW place, NEW t, NEW d, Sets(c, l, place, t, d), frame[c][l].at = "idle"
    PROVE  \A e \in CPU, m \in Level : frame[e][m].at = "idle" \/ frame'[e][m] = frame[e][m]
  BY DEF Sets, OtherFrames

\* The executor's steps that touch neither.
LEMMA QuietWakeExecutor ==
    ASSUME TypeInv, NEW c \in CPU,
           \/ RoundTop(c) \/ WakeDeferred(c) \/ DetachNodes(c)
           \/ DrainPending(c) \/ EndRound(c) \/ LeaveIdle(c) \/ CommitToHalt(c) \/ CheckNeed(c)
           \/ FinalScan(c) \/ Resume(c) \/ TakeIpi(c)
           \/ (\E t \in Task : \/ DrainInbox(c, t) \/ PickTask(c, t) \/ PollWakes(c, t)
                               \/ IrqWakes(c, t) \/ IrqDefers(c, t))
           \/ (\E d \in CPU : PollPending(c, d) \/ \E t \in Task : Steal(c, d, t))
    PROVE  QuietWake
  <1>0. /\ pc \in [CPU -> {"top", "wakers", "inbox", "node", "route", "take", "round", "pick",
                            "poll", "idle", "need", "scan", "hlt", "resume"}]
        /\ cur \in [CPU -> Task \cup {NoTask}] /\ flag \in [Task -> BOOLEAN]
        /\ "exec" \in Level /\ "irq" \in Level
    BY DEF TypeInv, TypeOK, Level
  <1>1. UNCHANGED <<queued, parked>>
    BY DEF cellVars, slotVars, RoundTop, WakeDeferred, DetachNodes, DrainPending, EndRound,
           LeaveIdle, CommitToHalt, CheckNeed, FinalScan, Resume, TakeIpi, DrainInbox, PickTask,
           PollWakes, IrqWakes, IrqDefers, PollPending, Steal
  <1>2. \A x \in Task : flag'[x] => flag[x]
    <2>1. ASSUME NEW t \in Task, PickTask(c, t) PROVE \A x \in Task : flag'[x] => flag[x]
      BY <1>0, <2>1 DEF PickTask
    <2>2. CASE ~\E t \in Task : PickTask(c, t)
      <3>1. flag' = flag
        BY <2>2 DEF cellVars, RoundTop, WakeDeferred, DetachNodes, DrainPending, EndRound,
           LeaveIdle, CommitToHalt, CheckNeed, FinalScan, Resume, TakeIpi, DrainInbox,
           PollWakes, IrqWakes, IrqDefers, PollPending, Steal
      <3> QED BY <3>1
    <2> QED BY <2>1, <2>2
  <1>3. \A d \in CPU, m \in Level : frame[d][m].at = "idle" \/ frame'[d][m] = frame[d][m]
    <2>1. CASE \/ WakeDeferred(c) \/ (\E t \in Task : PollWakes(c, t))
               \/ (\E d \in CPU : PollPending(c, d) \/ \E t \in Task : Steal(c, d, t))
      <3>1. frame[c]["exec"].at = "idle"
        BY <1>0, <2>1 DEF WakeDeferred, PollWakes, PollPending, Steal, Exec, Executing
      <3>2. \E place, t, d : Sets(c, "exec", place, t, d)
        BY <2>1, NewCallSets
      <3> QED BY <3>1, <3>2, SetsFromIdle
    <2>2. ASSUME NEW t \in Task, IrqWakes(c, t)
          PROVE  \A d \in CPU, m \in Level : frame[d][m].at = "idle" \/ frame'[d][m] = frame[d][m]
      <3>1. frame[c]["irq"].at = "idle" /\ Sets(c, "irq", "swap", t, NoTask)
        BY <2>2, NewCallSets DEF IrqWakes, Unmasked
      <3> QED BY <3>1, SetsFromIdle
    <2>3. CASE \/ RoundTop(c) \/ DetachNodes(c) \/ DrainPending(c) \/ EndRound(c) \/ LeaveIdle(c)
               \/ CommitToHalt(c) \/ CheckNeed(c) \/ FinalScan(c) \/ Resume(c) \/ TakeIpi(c)
               \/ (\E t \in Task : DrainInbox(c, t) \/ PickTask(c, t) \/ IrqDefers(c, t))
      BY <2>3 DEF RoundTop, DetachNodes, DrainPending, EndRound, LeaveIdle, CommitToHalt,
                  CheckNeed, FinalScan, Resume, TakeIpi, DrainInbox, PickTask, IrqDefers
    <2> QED BY <2>1, <2>2, <2>3
  <1>4. ASSUME NEW d \in CPU, pc[d] \in {"route", "take"}
        PROVE  pc'[d] = pc[d] /\ cur'[d] = cur[d]
    <2> USE <1>0, <1>4 DEF Goto, Exec, Picking
    <2>1. CASE RoundTop(c) \/ WakeDeferred(c) \/ DetachNodes(c) \/ LeaveIdle(c)
      BY <2>1 DEF RoundTop, WakeDeferred, DetachNodes, LeaveIdle
    <2>2. CASE DrainPending(c) \/ EndRound(c)
      BY <2>2 DEF DrainPending, EndRound
    <2>3. CASE CommitToHalt(c) \/ CheckNeed(c) \/ FinalScan(c) \/ Resume(c)
      BY <2>3 DEF CommitToHalt, CheckNeed, FinalScan, Resume
    <2>4. ASSUME NEW t \in Task, DrainInbox(c, t) \/ PickTask(c, t) \/ PollWakes(c, t)
          PROVE  pc'[d] = pc[d] /\ cur'[d] = cur[d]
      BY <2>4 DEF DrainInbox, PickTask, PollWakes, execVars
    <2>5. ASSUME NEW e \in CPU, PollPending(c, e) \/ \E t \in Task : Steal(c, e, t)
          PROVE  pc'[d] = pc[d] /\ cur'[d] = cur[d]
      BY <2>5 DEF PollPending, Steal
    <2>6. ASSUME NEW t \in Task, IrqWakes(c, t) \/ IrqDefers(c, t)
          PROVE  pc'[d] = pc[d] /\ cur'[d] = cur[d]
      BY <2>6 DEF IrqWakes, IrqDefers, Interrupted
    <2>7. CASE TakeIpi(c)
      BY <2>7 DEF TakeIpi, Interrupted
    <2> QED BY <2>1, <2>2, <2>3, <2>4, <2>5, <2>6, <2>7
  <1> QED BY <1>1, <1>2, <1>3, <1>4 DEF QuietWake

(***************************************************************************)
(* The drain of a node: the executor that has the task in hand attends to  *)
(* it until it has handed it on, and nothing changes for the other tasks.  *)
(***************************************************************************)
DrainLocal(c, t) ==
    /\ flag' = flag /\ \A x \in Task \ {t} : queued'[x] = queued[x]
    /\ \A d \in CPU, m \in Level : frame[d][m].at = "idle" \/ frame'[d][m] = frame[d][m]
    /\ \A d \in CPU \ {c} : pc'[d] = pc[d] /\ cur'[d] = cur[d]
    /\ pc[c] = "node" \/ cur[c] = t
    /\ \A x \in Task \ {t}, e \in CPU : x \in parked'[e] <=> x \in parked[e]

\* A drain touches one task only.
LEMMA DrainsLeaveOthers ==
    ASSUME WakeNotLost, NEW c \in CPU, NEW t, DrainLocal(c, t),
           NEW x \in Task, x # t, NEW e \in CPU, x \in parked'[e], flag'[x]
    PROVE  Attended(x)'
  <1>1. Attended(x)
    BY DEF WakeNotLost, DrainLocal
  <1>2. \A d \in CPU, m \in Level : CallAttends(d, m, x) => CallAttends(d, m, x)'
    BY DEF DrainLocal, CallAttends
  <1>3. \A d \in CPU : ExecAttends(d, x) => ExecAttends(d, x)'
    BY DEF DrainLocal, ExecAttends
  <1> QED BY <1>1, <1>2, <1>3, StillAttended DEF DrainLocal

\* The task it drains is attended by the executor from then on.
LEMMA DrainAttended ==
    ASSUME TypeInv, WakeNotLost, NEW c \in CPU, NEW t \in Task, DrainNode(c, t)
    PROVE  WakeNotLost'
  <1>1. /\ DrainLocal(c, t) /\ cur'[c] = t /\ pc'[c] = "route"
    BY DEF DrainNode, Exec, Goto, DrainLocal, slotVars, TypeInv, TypeOK
  <1>2. Attended(t)'
    BY <1>1, AttendedIs DEF ExecAttends
  <1> QED BY <1>1, <1>2, DrainsLeaveOthers DEF WakeNotLost

\* A routed task is looked at on its storage.
LEMMA RouteAttended ==
    ASSUME TypeInv, WakeNotLost, NEW c \in CPU, RouteNode(c)
    PROVE  WakeNotLost'
  <1>0. /\ pc[c] = "route" /\ UNCHANGED <<flag, queued, parked>> /\ "exec" \in Level
        /\ frame[c]["exec"].at = "idle" /\ frame \in FramesType
        /\ pc \in [CPU -> {"top", "wakers", "inbox", "node", "route", "take", "round", "pick",
                            "poll", "idle", "need", "scan", "hlt", "resume"}]
        /\ cur \in [CPU -> Task \cup {NoTask}]
    BY DEF RouteNode, Exec, Executing, cellVars, slotVars, Level, TypeInv, TypeOK, FramesType
  <1>1. PICK t \in Task : t = cur[c]
    BY <1>0 DEF TypeInv, HandInv
  <1>2. \/ Location(t) = {c} /\ pc'[c] = "take" /\ UNCHANGED <<cur, frame>>
        \/ Location(t) = {} /\ frame' = frame
        \/ Sets(c, "exec", "token", t, NoTask)
    <2>1. CASE Location(t) = {c}
      BY <1>0, <1>1, <2>1 DEF RouteNode, Goto
    <2>2. CASE Location(t) = {} /\ Location(t) # {c}
      BY <1>1, <2>2 DEF RouteNode
    <2>3. CASE Location(t) # {} /\ Location(t) # {c}
      <3>1. Call(c, [WakeFrame(t) EXCEPT !.at = "token", !.place = FALSE])
        BY <1>1, <2>3 DEF RouteNode
      <3> QED BY <1>0, <3>1, TokenSets
    <2> QED BY <2>1, <2>2, <2>3
  <1>3. \A d \in CPU \ {c} : pc'[d] = pc[d] /\ cur'[d] = cur[d]
    BY <1>0 DEF RouteNode, Goto, NodeDone
  <1>4. DrainLocal(c, t)
    BY <1>0, <1>1, <1>2, <1>3, SetsFromIdle DEF DrainLocal
  <1>5. ASSUME NEW e \in CPU, t \in parked'[e], flag'[t] PROVE Attended(t)'
    <2>1. CASE Location(t) = {c} /\ pc'[c] = "take" /\ UNCHANGED <<cur, frame>>
      <3>1. ExecAttends(c, t)'
        BY <1>0, <1>1, <2>1 DEF ExecAttends, Location
      <3> QED BY <3>1, AttendedIs
    <2>2. CASE Location(t) = {}
      BY <1>0, <1>5, <2>2 DEF Location
    <2>3. CASE Sets(c, "exec", "token", t, NoTask)
      <3>1. CallAttends(c, "exec", t)'
        BY <2>3 DEF Sets, CallAttends
      <3> QED BY <1>0, <3>1, AttendedIs
    <2> QED BY <1>2, <2>1, <2>2, <2>3
  <1> QED BY <1>4, <1>5, DrainsLeaveOthers DEF WakeNotLost

\* A task that is taken off its storage waits for no wake.
LEMMA TakeAttended ==
    ASSUME TypeInv, SlotInv, WakeNotLost, NEW c \in CPU, TakeParked(c)
    PROVE  WakeNotLost'
  <1>0. /\ pc[c] = "take" /\ UNCHANGED <<flag, queued>> /\ "exec" \in Level
        /\ frame[c]["exec"].at = "idle" /\ HeldOnce
        /\ pc \in [CPU -> {"top", "wakers", "inbox", "node", "route", "take", "round", "pick",
                            "poll", "idle", "need", "scan", "hlt", "resume"}]
        /\ cur \in [CPU -> Task \cup {NoTask}] /\ parked \in [CPU -> SUBSET Task]
    BY DEF TakeParked, Exec, Executing, cellVars, Level, TypeInv, TypeOK, SlotInv, OneOwner
  <1>1. PICK t \in Task : t = cur[c]
    BY <1>0 DEF TypeInv, HandInv
  <1>2. \A d \in CPU \ {c} : pc'[d] = pc[d] /\ cur'[d] = cur[d]
    BY <1>0 DEF TakeParked, Goto, NodeDone
  <1>3. \/ /\ t \in parked[c] /\ flag[t] /\ parked' = [parked EXCEPT ![c] = @ \ {t}]
           /\ Sets(c, "exec", "own", t, c)
        \/ ~(t \in parked[c] /\ flag[t]) /\ UNCHANGED <<parked, frame>>
    <2>1. CASE t \in parked[c] /\ flag[t]
      <3>1. Sets(c, "exec", "own", t, c)
        BY <1>1, <2>1, NewCallSets
      <3> QED BY <1>1, <2>1, <3>1 DEF TakeParked
    <2>2. CASE ~(t \in parked[c] /\ flag[t])
      BY <1>1, <2>2 DEF TakeParked
    <2> QED BY <2>1, <2>2
  <1>4. DrainLocal(c, t)
    BY <1>0, <1>1, <1>2, <1>3, SetsFromIdle DEF DrainLocal
  <1>5. ASSUME NEW e \in CPU, t \in parked'[e], flag'[t] PROVE Attended(t)'
    <2>1. CASE t \in parked[c] /\ flag[t] /\ parked' = [parked EXCEPT ![c] = @ \ {t}]
      <3>1. t \in parked[e] /\ e # c
        BY <1>0, <1>5, <2>1
      <3> QED BY <1>0, <2>1, <3>1, SoleFrom DEF Sole
    <2>2. CASE ~(t \in parked[c] /\ flag[t]) /\ UNCHANGED <<parked, frame>>
      <3>1. t \notin parked[c] /\ Attended(t)
        BY <1>0, <1>5, <2>2 DEF WakeNotLost
      <3>2. \A d \in CPU, m \in Level : CallAttends(d, m, t) => CallAttends(d, m, t)'
        BY <2>2 DEF CallAttends
      <3>3. \A d \in CPU : ExecAttends(d, t) => ExecAttends(d, t)'
        BY <1>0, <1>2, <2>2, <3>1 DEF ExecAttends
      <3> QED BY <1>0, <3>1, <3>2, <3>3, StillAttended
    <2> QED BY <1>3, <2>1, <2>2
  <1> QED BY <1>4, <1>5, DrainsLeaveOthers DEF WakeNotLost

(***************************************************************************)
(* Every step leaves every woken task attended to.                         *)
(***************************************************************************)
LEMMA InitWake ==
    Init => WakeNotLost
  BY DEF Init, WakeNotLost

\* Every step keeps every wake attended.
LEMMA StepWake ==
    TypeInv /\ SlotInv /\ NodeQueuedOnce /\ WakeNotLost /\ [Next]_vars => WakeNotLost'
  <1> SUFFICES ASSUME TypeInv, SlotInv, NodeQueuedOnce, WakeNotLost, [Next]_vars
               PROVE  WakeNotLost'
    OBVIOUS
  <1>1. ASSUME NEW c \in CPU, NEW l \in Level, CallStep(c, l) PROVE WakeNotLost'
    <2>1. PICK t : t = frame[c][l].task
      OBVIOUS
    <2>2. CallLocal(c, l, t) /\ t \in Task
      BY <1>1, <2>1, CallsAreLocal
    <2>3. \A e \in CPU : t \in parked'[e] /\ flag'[t] => Attended(t)'
      BY <1>1, <2>1, OwnAttended
    <2>4. \A x \in Task, e \in CPU : x # t /\ x \in parked'[e] /\ flag'[x] => Attended(x)'
      BY <2>2, OthersAttended
    <2> QED BY <2>3, <2>4 DEF WakeNotLost
  <1>2. ASSUME NEW c \in CPU, ExecutorStep(c) PROVE WakeNotLost'
    BY <1>2, QuietWakeExecutor, QuietAttended, DrainAttended, RouteAttended, TakeAttended
       DEF ExecutorStep
  <1>3. ASSUME NEW c \in CPU,
               TakeIpi(c) \/ \E t \in Task : IrqWakes(c, t) \/ IrqDefers(c, t)
        PROVE  WakeNotLost'
    BY <1>3, QuietWakeExecutor, QuietAttended
  <1>4. CASE UNCHANGED vars
    <2>1. QuietWake
      BY <1>4 DEF vars, cellVars, slotVars, execVars, QuietWake
    <2> QED BY <2>1, QuietAttended
  <1> QED BY <1>1, <1>2, <1>3, <1>4 DEF Next, CpuStep

----------------------------------------------------------------------------
(* No CPU halts over work. *)

Halting == {"need", "scan", "hlt"}

(***************************************************************************)
(* What a step of CPU e may do to a halt: another CPU stays as it was, and *)
(* e itself is on its way to the halt only with CPU_HALTED up and no call  *)
(* in progress.                                                            *)
(***************************************************************************)
HaltStep(e) ==
    /\ \A c \in CPU \ {e} : /\ pc'[c] = pc[c] /\ halted'[c] = halted[c]
                            /\ \A l \in Level : frame'[c][l] = frame[c][l]
    /\ pc'[e] \in Halting => halted'[e] /\ \A l \in Level : frame'[e][l].at = "idle"

\* Steps that leave the halting CPUs alone.
LEMMA HaltStays ==
    ASSUME HaltInv, NEW e \in CPU, HaltStep(e)
    PROVE  HaltInv'
  BY DEF HaltInv, HaltStep, Halting, Executing

\* No call runs on a CPU that is halting.
LEMMA CallHalts ==
    ASSUME TypeInv, HaltInv, NEW e \in CPU, NEW l \in Level, CallStep(e, l)
    PROVE  HaltStep(e) /\ pc' = pc /\ pc[e] \notin Halting
  <1>1. PICK t : t = frame[e][l].task
    OBVIOUS
  <1>2. OtherFrames(e, l)
    BY <1>1, CallsAreLocal DEF CallLocal
  <1>3. frame[e][l].at # "idle"
    BY DEF CallStep, At, Active, WakeSwap, ActivateLocal, TokenLoad, ClaimNode, LocateNode,
           PublishNode, ReleaseClaim, RecheckFlag, KickHome, MigrateWakee, KickNeed, KickHalted,
           EnqueueOwn, EnqueueTest, ParkInsert, ParkRecheck
  <1>4. UNCHANGED <<pc, halted>>
    BY DEF CallStep, WakeSwap, ActivateLocal, TokenLoad, ClaimNode, LocateNode, PublishNode,
           ReleaseClaim, RecheckFlag, KickHome, MigrateWakee, KickNeed, KickHalted, EnqueueOwn,
           EnqueueTest, ParkInsert, ParkRecheck, execVars, haltVars
  <1>5. pc[e] \notin Halting
    BY <1>3 DEF HaltInv, Halting, Executing
  <1> QED BY <1>2, <1>4, <1>5 DEF HaltStep, OtherFrames

\* A call changes on its own CPU only.
LEMMA SetsElsewhere ==
    ASSUME NEW c, NEW l, NEW place, NEW t, NEW d, Sets(c, l, place, t, d)
    PROVE  \A e \in CPU \ {c}, m \in Level : frame'[e][m] = frame[e][m]
  BY DEF Sets, OtherFrames

(***************************************************************************)
(* The steps of an executor and the interrupts; what the step of CPU e     *)
(* leaves to another CPU: no more work than it had, and the interrupt that *)
(* was on its way.                                                         *)
(***************************************************************************)
NoMoreWork(e) ==
    \A c \in CPU \ {e} : /\ inbox'[c] = inbox[c] /\ nodes'[c] = nodes[c]
                         /\ deferred'[c] = deferred[c] /\ ready'[c] \subseteq ready[c]
                         /\ ipi'[c] = ipi[c]

NewCall(e) ==
    \/ WakeDeferred(e) \/ RouteNode(e) \/ TakeParked(e)
    \/ (\E t \in Task : PollWakes(e, t) \/ IrqWakes(e, t))
    \/ (\E d \in CPU : PollPending(e, d) \/ \E t \in Task : Steal(e, d, t))

\* And so do the executor's steps.
LEMMA ExecutorElsewhere ==
    ASSUME TypeInv, NEW e \in CPU,
           \/ ExecutorStep(e) \/ TakeIpi(e)
           \/ \E t \in Task : IrqWakes(e, t) \/ IrqDefers(e, t)
    PROVE  /\ NoMoreWork(e)
           /\ \A c \in CPU \ {e} : /\ pc'[c] = pc[c] /\ halted'[c] = halted[c]
                                   /\ \A l \in Level : frame'[c][l] = frame[c][l]
           /\ \A d \in CPU, m \in Level : frame[d][m].at = "idle" \/ frame'[d][m] = frame[d][m]
  <1>0. /\ inbox \in [CPU -> SUBSET Task] /\ nodes \in [CPU -> SUBSET Task]
        /\ deferred \in [CPU -> Seq(Task)] /\ ready \in [CPU -> SUBSET Task]
        /\ ipi \in [CPU -> BOOLEAN] /\ halted \in [CPU -> BOOLEAN]
        /\ pc \in [CPU -> {"top", "wakers", "inbox", "node", "route", "take", "round", "pick",
                            "poll", "idle", "need", "scan", "hlt", "resume"}]
        /\ "exec" \in Level /\ "irq" \in Level
    BY DEF TypeInv, TypeOK, Level
  <1>1. NoMoreWork(e) /\ \A c \in CPU \ {e} : pc'[c] = pc[c] /\ halted'[c] = halted[c]
    <2> USE <1>0 DEF NoMoreWork, Goto, cellVars, slotVars, haltVars, execVars
    <2>1. CASE RoundTop(e) \/ WakeDeferred(e) \/ DetachNodes(e) \/ LeaveIdle(e)
      BY <2>1 DEF RoundTop, WakeDeferred, DetachNodes, LeaveIdle
    <2>2. CASE RouteNode(e) \/ TakeParked(e)
      BY <2>2 DEF RouteNode, TakeParked, NodeDone
    <2>3. CASE DrainPending(e) \/ EndRound(e)
      BY <2>3 DEF DrainPending, EndRound
    <2>4. CASE CommitToHalt(e) \/ CheckNeed(e) \/ FinalScan(e) \/ Resume(e)
      BY <2>4 DEF CommitToHalt, CheckNeed, FinalScan, Resume
    <2>5. CASE \E t \in Task : DrainInbox(e, t) \/ DrainNode(e, t)
      BY <2>5 DEF DrainInbox, DrainNode
    <2>6. CASE \E t \in Task : PickTask(e, t) \/ PollWakes(e, t)
      BY <2>6 DEF PickTask, PollWakes
    <2>7. CASE \E d \in CPU : PollPending(e, d) \/ \E t \in Task : Steal(e, d, t)
      <3>1. CASE \E d \in CPU : PollPending(e, d)
        BY <3>1 DEF PollPending
      <3>2. ASSUME NEW d \in CPU, NEW t \in Task, Steal(e, d, t)
            PROVE  NoMoreWork(e) /\ \A c \in CPU \ {e} : pc'[c] = pc[c] /\ halted'[c] = halted[c]
        <4>1. UNCHANGED <<inbox, nodes, deferred, ipi, halted>>
          BY <3>2 DEF Steal
        <4>2. \A c \in CPU \ {e} : pc'[c] = pc[c] /\ ready'[c] \subseteq ready[c]
          BY <3>2 DEF Steal
        <4> QED BY <4>1, <4>2
      <3> QED BY <2>7, <3>1, <3>2
    <2>8. CASE TakeIpi(e) \/ \E t \in Task : IrqWakes(e, t) \/ IrqDefers(e, t)
      BY <2>8 DEF TakeIpi, IrqWakes, IrqDefers, Interrupted
    <2> QED BY <2>1, <2>2, <2>3, <2>4, <2>5, <2>6, <2>7, <2>8 DEF ExecutorStep
  <1>2. \/ frame' = frame
        \/ /\ \E place, t, d : Sets(e, "exec", place, t, d)
           /\ frame[e]["exec"].at = "idle"
        \/ /\ \E place, t, d : Sets(e, "irq", place, t, d)
           /\ frame[e]["irq"].at = "idle"
    <2>1. CASE \/ WakeDeferred(e) \/ RouteNode(e) \/ TakeParked(e)
               \/ (\E t \in Task : PollWakes(e, t))
               \/ (\E d \in CPU : PollPending(e, d) \/ \E t \in Task : Steal(e, d, t))
      <3>1. frame[e]["exec"].at = "idle"
        BY <1>0, <2>1 DEF WakeDeferred, RouteNode, TakeParked, PollWakes, PollPending, Steal, Exec,
                          Executing
      <3>2. frame' = frame \/ \E place, t, d : Sets(e, "exec", place, t, d)
        BY <2>1, NewCallSets
      <3> QED BY <3>1, <3>2
    <2>2. ASSUME NEW t \in Task, IrqWakes(e, t)
          PROVE  frame[e]["irq"].at = "idle" /\ Sets(e, "irq", "swap", t, NoTask)
      BY <2>2, NewCallSets DEF IrqWakes, Unmasked
    <2>3. CASE ~NewCall(e)
      BY <2>3 DEF NewCall, ExecutorStep, RoundTop, DetachNodes, DrainPending, EndRound, LeaveIdle,
                  CommitToHalt, CheckNeed, FinalScan, Resume, TakeIpi, DrainInbox, DrainNode,
                  PickTask, IrqDefers
    <2> QED BY <2>1, <2>2, <2>3 DEF NewCall
  <1>3. \A d \in CPU, m \in Level : frame[d][m].at = "idle" \/ frame'[d][m] = frame[d][m]
    BY <1>2, SetsFromIdle
  <1>4. \A c \in CPU \ {e}, l \in Level : frame'[c][l] = frame[c][l]
    BY <1>2, SetsElsewhere
  <1> QED BY <1>1, <1>3, <1>4

\* The work that CPU c would halt over.
Work(c) == inbox[c] # {} \/ nodes[c] # {} \/ ready[c] # {} \/ deferred[c] # <<>>

\* The executor halts with no call under way.
LEMMA ExecutorHalts ==
    ASSUME TypeInv, HaltInv, NEW e \in CPU,
           \/ ExecutorStep(e) \/ TakeIpi(e)
           \/ \E t \in Task : IrqWakes(e, t) \/ IrqDefers(e, t)
    PROVE  /\ pc'[e] \in Halting => halted'[e] /\ \A l \in Level : frame'[e][l].at = "idle"
           /\ pc'[e] = "hlt" => ~Pending(e) /\ Runnable(e) = {} /\ deferred[e] = <<>>
                                /\ UNCHANGED <<flag, ready, inbox, nodes, deferred>>
  <1>0. /\ halted \in [CPU -> BOOLEAN] /\ ret \in [CPU -> {"round", "pick", "idle"}]
        /\ pc \in [CPU -> {"top", "wakers", "inbox", "node", "route", "take", "round", "pick",
                            "poll", "idle", "need", "scan", "hlt", "resume"}]
    BY DEF TypeInv, TypeOK
  <1>1. CASE CommitToHalt(e) \/ CheckNeed(e) \/ FinalScan(e)
    <2>1. Executing(e) /\ frame' = frame /\ (pc[e] \in Halting => halted[e])
      BY <1>1 DEF CommitToHalt, CheckNeed, FinalScan, Exec, HaltInv, Halting
    <2>2. halted'[e]
      BY <1>0, <1>1, <2>1 DEF CommitToHalt, CheckNeed, FinalScan, Exec, Halting, haltVars
    <2>3. pc'[e] = "hlt" => FinalScan(e)
      BY <1>0, <1>1 DEF CommitToHalt, CheckNeed, Goto
    <2>4. pc'[e] = "hlt" /\ FinalScan(e) => ~Pending(e) /\ Runnable(e) = {} /\ deferred[e] = <<>>
      BY <1>0 DEF FinalScan, Goto
    <2>5. FinalScan(e) => UNCHANGED <<flag, ready, inbox, nodes, deferred>>
      BY DEF FinalScan, cellVars, slotVars
    <2> QED BY <2>1, <2>2, <2>3, <2>4, <2>5 DEF Executing
  <1>2. CASE ~(CommitToHalt(e) \/ CheckNeed(e) \/ FinalScan(e))
    <2>1. pc'[e] \notin Halting
      <3> USE <1>0, <1>2 DEF Goto, Halting, Exec, Picking
      <3>1. CASE RoundTop(e) \/ WakeDeferred(e) \/ DetachNodes(e) \/ LeaveIdle(e)
        BY <3>1 DEF RoundTop, WakeDeferred, DetachNodes, LeaveIdle
      <3>2. CASE RouteNode(e) \/ TakeParked(e)
        BY <3>2 DEF RouteNode, TakeParked, NodeDone
      <3>3. CASE DrainPending(e) \/ EndRound(e) \/ Resume(e)
        BY <3>3 DEF DrainPending, EndRound, Resume
      <3>4. CASE \E t \in Task : DrainInbox(e, t) \/ DrainNode(e, t)
        BY <3>4 DEF DrainInbox, DrainNode, execVars
      <3>5. CASE \E t \in Task : PickTask(e, t) \/ PollWakes(e, t)
        BY <3>5 DEF PickTask, PollWakes, execVars
      <3>6. CASE \E d \in CPU : PollPending(e, d) \/ \E t \in Task : Steal(e, d, t)
        BY <3>6 DEF PollPending, Steal
      <3>7. CASE TakeIpi(e) \/ \E t \in Task : IrqWakes(e, t) \/ IrqDefers(e, t)
        BY <3>7 DEF TakeIpi, IrqWakes, IrqDefers, Interrupted, Unmasked
      <3> QED BY <1>2, <3>1, <3>2, <3>3, <3>4, <3>5, <3>6, <3>7 DEF ExecutorStep
    <2> QED BY <2>1 DEF Halting
  <1> QED BY <1>1, <1>2

(***************************************************************************)
(* The work of a halted CPU, and the interrupt on its way to it.           *)
(***************************************************************************)
Alarms(d, l, c) == frame[d][l].cpu = c /\ frame[d][l].at \in {"need", "halted"}
Alarmed(c) == ipi[c] \/ \E d \in CPU, l \in Level : Alarms(d, l, c)

\* NoSleepOverWork, in terms of work and alarms.
LEMMA SleepIs ==
    /\ ReadyInv => (NoSleepOverWork <=> \A c \in CPU : pc[c] = "hlt" /\ Work(c) => Alarmed(c))
    /\ ReadyInv' =>
          (NoSleepOverWork' <=> \A c \in CPU : pc'[c] = "hlt" /\ Work(c)' => Alarmed(c)')
  <1>1. ReadyInv => \A c \in CPU : Runnable(c) = ready[c]
    BY DEF ReadyInv, Runnable
  <1>2. ReadyInv' => \A c \in CPU : Runnable(c)' = ready'[c]
    BY DEF ReadyInv, Runnable
  <1>3. \A c \in CPU : Alarmed(c) <=>
           ipi[c] \/ \E f \in Frames : f.cpu = c /\ f.at \in {"need", "halted"}
    BY DEF Alarmed, Alarms, Frames
  <1>4. \A c \in CPU : Alarmed(c)' <=>
           ipi'[c] \/ \E f \in Frames' : f.cpu = c /\ f.at \in {"need", "halted"}
    BY DEF Alarmed, Alarms, Frames
  <1>5. ReadyInv => (NoSleepOverWork <=> \A c \in CPU : pc[c] = "hlt" /\ Work(c) => Alarmed(c))
    BY <1>1, <1>3 DEF NoSleepOverWork, Work, Pending
  <1>6. ReadyInv' =>
          (NoSleepOverWork' <=> \A c \in CPU : pc'[c] = "hlt" /\ Work(c)' => Alarmed(c)')
    BY <1>2, <1>4 DEF NoSleepOverWork, Work, Pending
  <1> QED BY <1>5, <1>6

\* The executor goes to sleep only after it has looked again.
LEMMA ExecutorSleep ==
    ASSUME TypeInv, ReadyInv, ReadyInv', SleepInv, NEW e \in CPU,
           \/ ExecutorStep(e) \/ TakeIpi(e)
           \/ \E t \in Task : IrqWakes(e, t) \/ IrqDefers(e, t)
    PROVE  SleepInv'
  <1>1. HaltInv /\ \A c \in CPU : pc[c] = "hlt" /\ Work(c) => Alarmed(c)
    BY SleepIs DEF SleepInv
  <1>2. HaltInv'
    <2>1. HaltStep(e)
      BY <1>1, ExecutorElsewhere, ExecutorHalts DEF HaltStep
    <2> QED BY <1>1, <2>1, HaltStays
  <1>3. ASSUME NEW c \in CPU, c # e, pc'[c] = "hlt", Work(c)' PROVE Alarmed(c)'
    <2>1. pc[c] = "hlt" /\ Work(c) /\ ipi'[c] = ipi[c]
      BY <1>3, ExecutorElsewhere DEF NoMoreWork, Work
    <2>2. \A d \in CPU, m \in Level : Alarms(d, m, c) => Alarms(d, m, c)'
      BY ExecutorElsewhere DEF Alarms
    <2> QED BY <1>1, <2>1, <2>2 DEF Alarmed
  <1>4. pc'[e] = "hlt" => ~Work(e)'
    <2>1. Runnable(e) = ready[e]
      BY DEF ReadyInv, Runnable
    <2>2. pc'[e] = "hlt" => ~Pending(e) /\ Runnable(e) = {} /\ deferred[e] = <<>>
                            /\ UNCHANGED <<flag, ready, inbox, nodes, deferred>>
      BY <1>1, ExecutorHalts
    <2> QED BY <2>1, <2>2 DEF Work, Pending
  <1> QED BY <1>2, <1>3, <1>4, SleepIs DEF SleepInv

(***************************************************************************)
(* The calls: a producer that gives work to another CPU kicks it.          *)
(***************************************************************************)
LEMMA CallSleep ==
    ASSUME TypeInv, SlotInv, SleepInv, NEW e \in CPU, NEW l \in Level, CallStep(e, l),
           NEW c \in CPU, c # e, pc[c] = "hlt", Work(c)'
    PROVE  Alarmed(c)'
  <1>0. PICK t, d : t = frame[e][l].task /\ d = frame[e][l].cpu
    OBVIOUS
  <1>1. /\ OtherFrames(e, l) /\ t \in Task /\ halted[c]
        /\ Work(c) => Alarmed(c)
    BY <1>0, CallsAreLocal, SleepIs DEF CallLocal, SlotInv, SleepInv, HaltInv
  <1>2. ASSUME Work(c), ipi[c] => ipi'[c], Alarms(e, l, c) => Alarms(e, l, c)'
        PROVE  Alarmed(c)'
    <2>1. \A b \in CPU, m \in Level : Alarms(b, m, c) => Alarms(b, m, c)'
      BY <1>1, <1>2 DEF Alarms, OtherFrames
    <2> QED BY <1>1, <1>2, <2>1 DEF Alarmed
  <1>3. ASSUME Sets(e, l, "need", t, c) PROVE Alarmed(c)'
    BY <1>3 DEF Sets, Alarmed, Alarms
  <1>4. CASE \/ WakeSwap(e, l) \/ TokenLoad(e, l) \/ ClaimNode(e, l) \/ LocateNode(e, l)
             \/ ReleaseClaim(e, l) \/ RecheckFlag(e, l) \/ KickHome(e, l) \/ EnqueueOwn(e, l)
             \/ ParkInsert(e, l) \/ ParkRecheck(e, l)
    <2>1. UNCHANGED <<ready, inbox, nodes, deferred, ipi>> /\ ~Alarms(e, l, c)
      BY <1>4 DEF WakeSwap, TokenLoad, ClaimNode, LocateNode, ReleaseClaim, RecheckFlag, KickHome,
                  EnqueueOwn, ParkInsert, ParkRecheck, slotVars, haltVars, At, Alarms
    <2> QED BY <1>2, <2>1 DEF Work
  <1>5. CASE ActivateLocal(e, l)
    <2>1. /\ UNCHANGED <<inbox, nodes, deferred, ipi>> /\ ~Alarms(e, l, c)
          /\ ready'[c] = ready[c]
      BY <1>5 DEF ActivateLocal, haltVars, At, Alarms, TypeInv, TypeOK
    <2> QED BY <1>2, <2>1 DEF Work
  <1>6. CASE PublishNode(e, l)
    <2>1. /\ UNCHANGED <<ready, inbox, deferred, ipi>> /\ ~Alarms(e, l, c)
          /\ nodes' = IF ParkedAt(t, d) THEN [nodes EXCEPT ![d] = @ \cup {t}] ELSE nodes
      BY <1>0, <1>6 DEF PublishNode, ParkedAt, slotVars, haltVars, At, Alarms
    <2>2. CASE ParkedAt(t, d) /\ d = c
      <3>1. Sets(e, l, "need", t, c)
        <4>1. \/ ~ParkedAt(t, d) /\ Sets(e, l, "locate", t, NoTask)
              \/ ParkedAt(t, d) /\ d # e /\ Sets(e, l, "need", t, d)
              \/ ParkedAt(t, d) /\ d = e /\ Sets(e, l, "home", t, NoTask)
          BY <1>0, <1>6, PublishSets
        <4> QED BY <2>2, <4>1
      <3> QED BY <1>3, <3>1
    <2>3. CASE ~(ParkedAt(t, d) /\ d = c)
      <3>1. nodes'[c] = nodes[c]
        BY <2>1, <2>3 DEF TypeInv, TypeOK
      <3> QED BY <1>2, <2>1, <3>1 DEF Work
    <2> QED BY <2>2, <2>3
  <1>7. ASSUME NEW b \in CPU, MigrateWakee(e, l, b) PROVE Alarmed(c)'
    <2>1. /\ UNCHANGED <<inbox, nodes, deferred, ipi>> /\ ~Alarms(e, l, c)
          /\ ready'[c] \subseteq ready[c]
      <3>1. UNCHANGED <<inbox, nodes, deferred, ipi>> /\ ~Alarms(e, l, c)
        BY <1>7 DEF MigrateWakee, haltVars, At, Alarms
      <3>2. ready \in [CPU -> SUBSET Task]
        BY DEF TypeInv, TypeOK
      <3>3. ready'[c] \subseteq ready[c]
        BY <1>7, <3>2 DEF MigrateWakee
      <3> QED BY <3>1, <3>3
    <2> QED BY <1>2, <2>1 DEF Work
  <1>8. CASE KickNeed(e, l)
    <2>1. UNCHANGED <<ready, inbox, nodes, deferred, ipi>>
      BY <1>8 DEF KickNeed, slotVars
    <2>2. Sets(e, l, "halted", t, d)
      BY <1>0, <1>8, CallSets
    <2>3. Alarms(e, l, c) => Alarms(e, l, c)'
      BY <1>0, <2>2 DEF Sets, Alarms
    <2> QED BY <1>2, <2>1, <2>3 DEF Work
  <1>9. CASE KickHalted(e, l)
    <2>1. /\ UNCHANGED <<ready, inbox, nodes, deferred>> /\ d \in CPU
          /\ ipi' = [ipi EXCEPT ![d] = @ \/ halted[d] \/ frame[e][l].then = "force"]
      BY <1>0, <1>9 DEF KickHalted, slotVars, At, TypeInv, CallInv
    <2>2. CASE d = c
      <3>1. ipi'[c]
        BY <1>1, <2>1, <2>2 DEF TypeInv, TypeOK
      <3> QED BY <3>1 DEF Alarmed
    <2>3. CASE d # c
      <3>1. ipi'[c] = ipi[c] /\ ~Alarms(e, l, c)
        BY <1>0, <2>1, <2>3 DEF TypeInv, TypeOK, Alarms
      <3> QED BY <1>2, <2>1, <3>1 DEF Work
    <2> QED BY <2>2, <2>3
  <1>10. CASE EnqueueTest(e, l)
    <2>1. UNCHANGED <<nodes, deferred, ipi>> /\ d \in CPU /\ ~Alarms(e, l, c)
      BY <1>0, <1>10 DEF EnqueueTest, haltVars, At, TypeInv, CallInv, Alarms
    <2>2. CASE flag[t] /\ d # e /\ d = c
      <3>1. \/ ~flag[t] /\ Sets(e, l, "insert", t, d)
            \/ flag[t] /\ d # e /\ Sets(e, l, "need", t, d)
            \/ flag[t] /\ d = e /\ Sets(e, l, "idle", NoTask, NoTask)
        BY <1>0, <1>10, CallSets
      <3>2. Sets(e, l, "need", t, c)
        BY <2>2, <3>1
      <3> QED BY <1>3, <3>2
    <2>3. CASE ~(flag[t] /\ d # e /\ d = c)
      <3>1. inbox'[c] = inbox[c] /\ ready'[c] = ready[c]
        BY <1>0, <1>10, <2>1, <2>3 DEF EnqueueTest, slotVars, TypeInv, TypeOK
      <3> QED BY <1>2, <2>1, <3>1 DEF Work
    <2> QED BY <2>2, <2>3
  <1> QED BY <1>4, <1>5, <1>6, <1>7, <1>8, <1>9, <1>10 DEF CallStep

(***************************************************************************)
(* Every step leaves every halted CPU without work or with an interrupt on *)
(* its way.                                                                *)
(***************************************************************************)
LEMMA InitSleep ==
    Init => SleepInv
  BY DEF Init, SleepInv, HaltInv, NoSleepOverWork

\* Every step keeps a sleeping CPU free of work, or alarmed.
LEMMA StepSleep ==
    TypeInv /\ SlotInv /\ SlotInv' /\ SleepInv /\ [Next]_vars => SleepInv'
  <1> SUFFICES ASSUME TypeInv, SlotInv, SlotInv', SleepInv, [Next]_vars PROVE SleepInv'
    OBVIOUS
  <1>0. ReadyInv /\ ReadyInv' /\ HaltInv
    BY DEF SlotInv, SleepInv
  <1>1. ASSUME NEW e \in CPU, NEW l \in Level, CallStep(e, l) PROVE SleepInv'
    <2>1. HaltStep(e) /\ pc' = pc /\ pc[e] \notin Halting
      BY <1>0, <1>1, CallHalts
    <2>2. HaltInv'
      BY <1>0, <2>1, HaltStays
    <2>3. \A c \in CPU : pc'[c] = "hlt" /\ Work(c)' => Alarmed(c)'
      BY <1>1, <2>1, CallSleep DEF Halting
    <2> QED BY <1>0, <2>2, <2>3, SleepIs DEF SleepInv
  <1>2. ASSUME NEW e \in CPU,
               \/ ExecutorStep(e) \/ TakeIpi(e)
               \/ \E t \in Task : IrqWakes(e, t) \/ IrqDefers(e, t)
        PROVE  SleepInv'
    BY <1>0, <1>2, ExecutorSleep
  <1>3. CASE UNCHANGED vars
    BY <1>3 DEF vars, cellVars, slotVars, haltVars, execVars, SleepInv, HaltInv, NoSleepOverWork,
                Executing, Pending, Runnable, Frames
  <1> QED BY <1>1, <1>2, <1>3 DEF Next, CpuStep

----------------------------------------------------------------------------
(***************************************************************************)
(* The strengthened invariant, and with it what the runs check on small    *)
(* instances.                                                              *)
(***************************************************************************)
THEOREM Invariance == Spec => []SchedInv
  <1>1. Init => SchedInv
    BY InitType, InitSlots, InitNodes, InitWake, InitSleep DEF SchedInv
  <1>2. SchedInv /\ [Next]_vars => SchedInv'
    <2> SUFFICES ASSUME SchedInv, [Next]_vars PROVE SchedInv'
      OBVIOUS
    <2>1. TypeInv /\ SlotInv /\ NodeQueuedOnce /\ WakeNotLost /\ SleepInv
      BY DEF SchedInv
    <2>2. TypeInv' /\ SlotInv' /\ NodeQueuedOnce' /\ WakeNotLost'
      BY <2>1, StepType, StepSlots, StepNodes, StepWake
    <2>3. SleepInv'
      BY <2>1, <2>2, StepSleep
    <2> QED BY <2>2, <2>3 DEF SchedInv
  <1> QED BY <1>1, <1>2, PTL DEF Spec

\* Every variable keeps its type; a call in progress stays within FrameType.
THEOREM TypeCorrect == Spec => []TypeOK
  <1>1. SchedInv => TypeOK
    BY DEF SchedInv, TypeInv
  <1> QED BY <1>1, Invariance, PTL

\* Through every wake, migration, steal and park a task is held in one place,
\* and the CPU whose queue or parked storage holds it is the one its wake cell
\* names.
THEOREM OneOwnerHolds == Spec => []OneOwner
  <1>1. SchedInv => OneOwner
    BY DEF SchedInv, SlotInv
  <1> QED BY <1>1, Invariance, PTL

\* The activation node of a task is in one inbox, one batch or one producer's
\* hands while activation_queued is set, and nowhere otherwise.
THEOREM NodeQueuedOnceHolds == Spec => []NodeQueuedOnce
  <1>1. SchedInv => NodeQueuedOnce
    BY DEF SchedInv
  <1> QED BY <1>1, Invariance, PTL

\* A task that is parked with its wake flag set has someone still to act on it.
THEOREM WakeNotLostHolds == Spec => []WakeNotLost
  <1>1. SchedInv => WakeNotLost
    BY DEF SchedInv
  <1> QED BY <1>1, Invariance, PTL

\* A CPU halted over staged, runnable or deferred work has an interrupt on its
\* way: the halt handshake needs no timer to rescue it.
THEOREM NoSleepOverWorkHolds == Spec => []NoSleepOverWork
  <1>1. SchedInv => NoSleepOverWork
    BY DEF SchedInv, SleepInv
  <1> QED BY <1>1, Invariance, PTL

=============================================================================
