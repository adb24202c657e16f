--------------------------- MODULE FairQueueProofs ---------------------------
(***************************************************************************)
(* The safety properties of FairQueue for any number of flows, any MTU and  *)
(* weight, and a clock of any width.                                       *)
(*                                                                         *)
(* The inductive invariant ties the states of the interfaces to the jobs    *)
(* that are pending and to the queue: a job is never left behind, set twice *)
(* or run for a flow in another state.                                     *)
(***************************************************************************)
EXTENDS FairQueue, SequenceLemmas

Fields == {"flows", "queued", "busy_handler", "sending", "previous", "time", "len",
           "input", "output", "jobs", "freeing", "ok"}

(* t differs from s in the fields F at most.                               *)
Keeps(t, s, F) == \A f \in Fields \ F : t[f] = s[f]

Pending(jobs)  == {jobs[i] : i \in 1..Len(jobs)}
Distinct(jobs) == \A i, j \in 1..Len(jobs) : jobs[i] = jobs[j] => i = j

Shape(s) ==
    /\ s \in FairType /\ s.queued \subseteq s.flows
    /\ s.sending \in s.flows \cup {None} /\ s.previous \in s.flows \cup {None}
    /\ \A f \in Flow \ s.flows : s.input[f] = "none"

Order(s) == s.sending # None => \A f \in s.queued : s.time[s.sending] <= s.time[f]

(* The state of a flow's interface, and where the flow is.                  *)
InputOK(s) ==
    \A f \in Flow :
       /\ <<"operation", f>> \in Pending(s.jobs) <=> s.input[f] = "operation_pending"
       /\ <<"done", f>> \in Pending(s.jobs) <=> s.input[f] = "done_pending"
       /\ f \in s.queued \cup {s.sending} <=> s.input[f] = "busy"

OutputOK(s) ==
    /\ <<"operation", None>> \in Pending(s.jobs) <=> s.output = "operation_pending"
    /\ <<"output done", None>> \in Pending(s.jobs) <=> s.output = "done_pending"
    /\ s.sending = None <=> s.output = "none"

(* The schedule job is pending exactly while a packet may be chosen.        *)
TurnOK(s) ==
    /\ s.sending \notin s.queued
    /\ <<"schedule", None>> \in Pending(s.jobs) => s.sending = None
    /\ s.previous # None => <<"schedule", None>> \in Pending(s.jobs)
    /\ s.queued # {} => s.sending # None \/ <<"schedule", None>> \in Pending(s.jobs)

Linked(s) == Distinct(s.jobs) /\ InputOK(s) /\ OutputOK(s) /\ TurnOK(s)

Inv(s) ==
    Shape(s) /\ s.ok /\ Order(s) /\ Distinct(s.jobs) /\ (~s.freeing => Linked(s))

-----------------------------------------------------------------------------
(* The job list.                                                           *)
LEMMA UnsetJob ==
    ASSUME NEW jobs \in Seq(Job), Distinct(jobs), NEW job
    PROVE  /\ Unset(jobs, job) \in Seq(Job) /\ Distinct(Unset(jobs, job))
           /\ Pending(Unset(jobs, job)) = Pending(jobs) \ {job}
<1>1. CASE ~IsSet(jobs, job)
    BY <1>1 DEF IsSet, Unset, Pending
<1>2. CASE IsSet(jobs, job)
    <2> DEFINE i == CHOOSE n \in 1..Len(jobs) : jobs[n] = job
               u == Unset(jobs, job)
    <2>1. i \in 1..Len(jobs) /\ jobs[i] = job
        BY <1>2 DEF IsSet
    <2>2. u = SubSeq(jobs, 1, i - 1) \o SubSeq(jobs, i + 1, Len(jobs))
        BY <1>2 DEF Unset
    <2> HIDE DEF i, u
    <2>3. /\ u \in Seq(Job) /\ Len(u) = Len(jobs) - 1
          /\ \A j \in 1..Len(u) : u[j] = IF j < i THEN jobs[j] ELSE jobs[j + 1]
        BY <2>1, <2>2, SubSeqIndex
    <2>4. Len(jobs) \in Nat
        OBVIOUS
    <2>5. Distinct(u)
        <3>1. ASSUME NEW j \in 1..Len(u), NEW k \in 1..Len(u), u[j] = u[k], j < k
              PROVE  FALSE
            BY <2>1, <2>3, <2>4, <3>1 DEF Distinct
        <3> QED
            BY <2>3, <2>4, <3>1 DEF Distinct
    <2>6. ASSUME NEW x \in Pending(u) PROVE x \in Pending(jobs) \ {job}
        <3>1. PICK j \in 1..Len(u) : x = u[j]
            BY DEF Pending
        <3>2. CASE j < i
            BY <2>1, <2>3, <2>4, <3>1, <3>2 DEF Distinct, Pending
        <3>3. CASE ~(j < i)
            <4>1. j + 1 \in 1..Len(jobs) /\ x = jobs[j + 1] /\ j + 1 # i
                BY <2>1, <2>3, <2>4, <3>1, <3>3
            <4> QED
                BY <2>1, <4>1 DEF Distinct, Pending
        <3> QED
            BY <3>2, <3>3
    <2>7. ASSUME NEW x \in Pending(jobs), x # job PROVE x \in Pending(u)
        <3>1. PICK j \in 1..Len(jobs) : x = jobs[j]
            BY DEF Pending
        <3>2. CASE j < i
            BY <2>1, <2>3, <2>4, <3>1, <3>2 DEF Pending
        <3>3. CASE j > i
            <4>1. j - 1 \in 1..Len(u) /\ u[j - 1] = jobs[(j - 1) + 1]
                BY <2>1, <2>3, <2>4, <3>1, <3>3
            <4>2. u[j - 1] = x
                BY <3>1, <4>1
            <4> QED
                BY <4>1, <4>2 DEF Pending
        <3> QED
            BY <2>1, <2>7, <3>1, <3>2, <3>3
    <2> QED
        BY <2>3, <2>5, <2>6, <2>7 DEF u
<1> QED
    BY <1>1, <1>2

LEMMA SetJob ==
    ASSUME NEW jobs \in Seq(Job), Distinct(jobs), NEW job \in Job
    PROVE  /\ Set(jobs, job) \in Seq(Job) /\ Distinct(Set(jobs, job))
           /\ Pending(Set(jobs, job)) = Pending(jobs) \cup {job}
<1> DEFINE u == Unset(jobs, job)
           t == <<job>> \o u
<1>1. /\ u \in Seq(Job) /\ Distinct(u) /\ Pending(u) = Pending(jobs) \ {job}
    BY UnsetJob
<1> HIDE DEF u
<1>2. t \in Seq(Job) /\ Len(t) = 1 + Len(u) /\ Len(u) \in Nat
    BY <1>1
<1>3. \A j \in 1..Len(t) : t[j] = IF j = 1 THEN job ELSE u[j - 1]
    BY <1>1
<1> HIDE DEF t
<1>4. Distinct(t)
    <2>1. ASSUME NEW j \in 1..Len(t), NEW k \in 1..Len(t), t[j] = t[k], j < k
          PROVE  FALSE
        <3>1. k - 1 \in 1..Len(u) /\ t[k] = u[k - 1]
            BY <1>2, <1>3, <2>1
        <3>2. CASE j = 1
            <4>1. u[k - 1] = job
                BY <1>3, <2>1, <3>1, <3>2
            <4>2. u[k - 1] \in Pending(u)
                BY <3>1 DEF Pending
            <4> QED
                BY <1>1, <4>1, <4>2
        <3>3. CASE j # 1
            <4>1. j - 1 \in 1..Len(u) /\ t[j] = u[j - 1]
                BY <1>2, <1>3, <2>1, <3>3
            <4> QED
                BY <1>1, <2>1, <3>1, <4>1 DEF Distinct
        <3> QED
            BY <3>2, <3>3
    <2> QED
        BY <1>2, <2>1 DEF Distinct
<1>5. ASSUME NEW x \in Pending(t) PROVE x \in Pending(jobs) \cup {job}
    <2>1. PICK j \in 1..Len(t) : x = t[j]
        BY DEF Pending
    <2>2. CASE j # 1
        <3>1. j - 1 \in 1..Len(u) /\ t[j] = u[j - 1]
            BY <1>2, <1>3, <2>2
        <3> QED
            BY <1>1, <2>1, <3>1 DEF Pending
    <2> QED
        BY <1>3, <2>1, <2>2
<1>6. job \in Pending(t)
    BY <1>2, <1>3 DEF Pending
<1>7. ASSUME NEW x \in Pending(u) PROVE x \in Pending(t)
    <2>1. PICK j \in 1..Len(u) : x = u[j]
        BY DEF Pending
    <2>2. j + 1 \in 1..Len(t) /\ t[j + 1] = u[(j + 1) - 1]
        BY <1>2, <1>3
    <2>3. t[j + 1] = x
        BY <2>1, <2>2
    <2> QED
        BY <2>2, <2>3 DEF Pending
<1>8. Pending(t) = Pending(jobs) \cup {job}
    BY <1>1, <1>5, <1>6, <1>7
<1> QED
    BY <1>2, <1>4, <1>8 DEF Set, t, u

LEMMA TakeJob ==
    ASSUME NEW jobs \in Seq(Job), Distinct(jobs), jobs # <<>>
    PROVE  /\ Tail(jobs) \in Seq(Job) /\ Distinct(Tail(jobs))
           /\ Head(jobs) \in Pending(jobs)
           /\ Pending(Tail(jobs)) = Pending(jobs) \ {Head(jobs)}
<1> DEFINE t == Tail(jobs)
<1>1. /\ t \in Seq(Job) /\ Len(t) = Len(jobs) - 1 /\ Len(jobs) \in Nat
      /\ Len(jobs) > 0 /\ Head(jobs) = jobs[1]
    OBVIOUS
<1>2. \A j \in 1..Len(t) : t[j] = jobs[j + 1]
    OBVIOUS
<1> HIDE DEF t
<1>3. Distinct(t)
    <2>1. ASSUME NEW j \in 1..Len(t), NEW k \in 1..Len(t), t[j] = t[k] PROVE j = k
        <3>1. j + 1 \in 1..Len(jobs) /\ k + 1 \in 1..Len(jobs)
            BY <1>1
        <3> QED
            BY <1>2, <2>1, <3>1 DEF Distinct
    <2> QED
        BY <2>1 DEF Distinct
<1>4. Head(jobs) \in Pending(jobs)
    BY <1>1 DEF Pending
<1>5. ASSUME NEW x \in Pending(t) PROVE x \in Pending(jobs) \ {Head(jobs)}
    <2>1. PICK j \in 1..Len(t) : x = t[j]
        BY DEF Pending
    <2>2. j + 1 \in 1..Len(jobs) /\ j + 1 # 1
        BY <1>1
    <2> QED
        BY <1>1, <1>2, <2>1, <2>2 DEF Distinct, Pending
<1>6. ASSUME NEW x \in Pending(jobs), x # Head(jobs) PROVE x \in Pending(t)
    <2>1. PICK j \in 1..Len(jobs) : x = jobs[j]
        BY DEF Pending
    <2>2. j - 1 \in 1..Len(t)
        BY <1>1, <1>6, <2>1
    <2>3. t[j - 1] = x
        BY <1>2, <2>1, <2>2
    <2> QED
        BY <2>2, <2>3 DEF Pending
<1> QED
    BY <1>1, <1>3, <1>4, <1>5, <1>6 DEF t

-----------------------------------------------------------------------------
(* Times.                                                                  *)
LEMMA LeastExists ==
    ASSUME NEW F, F # {}, NEW g, \A f \in F : g[f] \in Nat
    PROVE  \E f \in F : \A h \in F : g[f] <= g[h]
<1> DEFINE T == {g[f] : f \in F}
           R == OpToRel(<, Nat)
<1>1. T \subseteq Nat /\ T # {}
    OBVIOUS
<1>2. PICK x \in T : \A y \in T : ~(<<y, x>> \in R)
    <2> HIDE DEF T, R
    <2>1. IsWellFoundedOn(R, Nat)
        BY NatLessThanWellFounded DEF R
    <2> QED
        BY <1>1, <2>1, WFMin
<1>3. \A y \in T : ~(y < x)
    BY <1>1, <1>2 DEF OpToRel
<1>5. \E f \in F : x = g[f]
    OBVIOUS
<1>6. PICK f \in F : x = g[f]
    BY <1>5
<1>7. \A h \in F : g[h] \in T
    OBVIOUS
<1> HIDE DEF T
<1>4. \A y \in T : x <= y
    BY <1>1, <1>3
<1>8. \A h \in F : g[f] <= g[h]
    BY <1>4, <1>6, <1>7
<1> QED
    BY <1>8

LEMMA FirstIsLeast ==
    ASSUME NEW s \in FairType, s.queued # {}
    PROVE  /\ GetFirst(s) \in s.queued
           /\ \A g \in s.queued : s.time[GetFirst(s)] <= s.time[g]
<1>1. \A f \in s.queued : s.time[f] \in Nat
    BY FairQueueAssumption DEF FairType, Time
<1>2. \E f \in s.queued : \A g \in s.queued : s.time[f] <= s.time[g]
    BY <1>1, LeastExists, Zenon
<1> QED
    BY <1>2, Zenon DEF GetFirst

LEMMA CurrentTime ==
    ASSUME NEW s \in FairType
    PROVE  /\ get_current_time(s) \in Time
           /\ s.sending # None => get_current_time(s) = s.time[s.sending]
<1> DEFINE waiting == s.queued \cup ({s.previous} \ {None})
<1>1. CASE s.sending # None
    BY <1>1, FairQueueAssumption DEF get_current_time, FairType
<1>2. CASE s.sending = None /\ waiting = {}
    BY <1>2, FairQueueAssumption DEF get_current_time, Time
<1>3. CASE s.sending = None /\ waiting # {}
    <2>1. waiting \subseteq Flow /\ \A f \in waiting : s.time[f] \in Time
        BY DEF FairType
    <2>2. \A f \in waiting : s.time[f] \in Nat
        BY <2>1, FairQueueAssumption DEF Time
    <2>3. \E f \in waiting : \A g \in waiting : s.time[f] <= s.time[g]
        <3> HIDE DEF waiting
        <3> QED
            BY <1>3, <2>2, LeastExists, Zenon
    <2>4. \E t \in {s.time[f] : f \in waiting} : \A f \in waiting : t <= s.time[f]
        BY <2>3
    <2> DEFINE t == CHOOSE u \in {s.time[f] : f \in waiting} :
                          \A f \in waiting : u <= s.time[f]
    <2>5. t \in {s.time[f] : f \in waiting}
        BY <2>4
    <2>6. get_current_time(s) = t
        BY <1>3 DEF get_current_time
    <2> HIDE DEF t
    <2> QED
        BY <1>3, <2>1, <2>5, <2>6
<1> QED
    BY <1>1, <1>2, <1>3

LEMMA Wrap ==
    ASSUME NEW n \in Int, NEW M \in Nat
    PROVE  /\ n \in 0..M => n % (M + 1) = n
           /\ n < 0 /\ n >= -M => n % (M + 1) = n + M + 1
           /\ n > M /\ n <= 2 * M + 1 => n % (M + 1) = n - M - 1
<1>1. n \in 0..M => n % (M + 1) = n
    OBVIOUS
<1>2. n < 0 /\ n >= -M => n % (M + 1) = n + M + 1
    OBVIOUS
<1>3. n > M /\ n <= 2 * M + 1 => n % (M + 1) = n - M - 1
    OBVIOUS
<1> QED
    BY <1>1, <1>2, <1>3

(* Below zero and back again: the time comes out right.                     *)
LEMMA ThroughTheWord ==
    ASSUME NEW M \in Nat, NEW t \in 0..M, NEW subtract \in 0..M, NEW amount \in 0..M,
           t + amount - subtract \in 0..M
    PROVE  (((t - subtract) % (M + 1)) + amount) % (M + 1) = t + amount - subtract
<1>1. CASE t >= subtract
    <2>1. (t - subtract) % (M + 1) = t - subtract
        BY <1>1, Wrap
    <2>2. (t - subtract) + amount = t + amount - subtract
        OBVIOUS
    <2> QED
        BY <2>1, <2>2, Wrap
<1>2. CASE t < subtract
    <2>1. (t - subtract) % (M + 1) = t - subtract + M + 1
        BY <1>2, Wrap
    <2> DEFINE n == t - subtract + M + 1 + amount
    <2>2. n \in Int /\ n > M /\ n <= 2 * M + 1 /\ n - M - 1 = t + amount - subtract
        OBVIOUS
    <2>3. n % (M + 1) = n - M - 1
        <3> HIDE DEF n
        <3> QED
            BY <2>2, Wrap
    <2> QED
        BY <2>1, <2>2, <2>3
<1> QED
    BY <1>1, <1>2

(* What a sent packet does to the times: the flow's grows by its amount and *)
(* every queued one is kept, all less the same subtrahend.                  *)
LEMMA Increment ==
    ASSUME NEW s \in FairType, s.ok, NEW flow \in Flow, NEW amount \in Nat,
           amount <= MTU + packet_weight,
           s.sending = None, flow \notin s.queued,
           \A f \in s.queued : s.time[flow] <= s.time[f],
           NEW t, t = increment_sent_flow(s, flow, amount)
    PROVE  /\ t.time \in [Flow -> Time]
           /\ t \in FairType /\ Keeps(t, s, {"time"})
           /\ \E subtract \in Time :
                 /\ t.time[flow] = s.time[flow] + amount - subtract
                 /\ \A f \in s.queued \cap s.flows : t.time[f] = s.time[f] - subtract
<1> DEFINE M == FAIRQUEUE_MAX_TIME
           overflow == amount > M - s.time[flow]
           subtract == IF ~overflow THEN 0
                       ELSE IF s.queued = {} THEN s.time[flow]
                       ELSE s.time[GetFirst(s)]
           lowered(f) == IF subtract > s.time[f] THEN 0 ELSE s.time[f] - subtract
           word(n) == n % (M + 1)
           time(f) == IF f = flow THEN word(word(s.time[f] - subtract) + amount)
                      ELSE IF f \in s.flows THEN lowered(f) ELSE s.time[f]
           holds == /\ amount <= FAIRQUEUE_MAX_TIME
                    /\ flow \notin s.queued /\ s.sending = None
                    /\ \A f \in s.flows \ {flow} :
                          subtract > s.time[f] => f \notin s.queued
<1>1. t = [s EXCEPT !.time = [f \in Flow |-> time(f)], !.ok = @ /\ holds]
    BY DEF increment_sent_flow
<1>2. /\ M \in Nat /\ amount \in 0..M /\ \A f \in Flow : s.time[f] \in 0..M
      /\ s.queued \subseteq Flow
    BY FairQueueAssumption DEF FairType, Time
<1>3. /\ subtract \in 0..M /\ \A f \in s.queued : subtract <= s.time[f]
      /\ s.time[flow] + amount - subtract \in 0..M
    <2>1. CASE ~overflow
        BY <1>2, <2>1
    <2>2. CASE overflow /\ s.queued = {}
        BY <1>2, <2>2
    <2>3. CASE overflow /\ s.queued # {}
        <3>1. /\ GetFirst(s) \in s.queued
              /\ \A g \in s.queued : s.time[GetFirst(s)] <= s.time[g]
            BY <2>3, FirstIsLeast
        <3>2. subtract = s.time[GetFirst(s)]
            BY <2>3
        <3>3. s.time[flow] <= subtract
            BY <3>1, <3>2
        <3> HIDE DEF subtract
        <3> QED
            BY <1>2, <2>3, <3>1, <3>2, <3>3
    <2> QED
        BY <2>1, <2>2, <2>3
<1> HIDE DEF subtract
<1>4. time(flow) = s.time[flow] + amount - subtract
    BY <1>2, <1>3, ThroughTheWord
<1>5. \A f \in s.queued \cap s.flows : time(f) = s.time[f] - subtract
    BY <1>2, <1>3
<1>6. \A f \in Flow : time(f) \in Time
    BY <1>2, <1>3, <1>4 DEF Time
<1>7. holds
    BY <1>2, <1>3
<1> DEFINE newtime == [f \in Flow |-> time(f)]
<1>13. newtime \in [Flow -> Time]
    BY <1>6
<1>14. \A f \in Flow : newtime[f] = time(f)
    OBVIOUS
<1> HIDE DEF time, holds, newtime
<1>15. t = [s EXCEPT !.time = newtime, !.ok = s.ok]
    BY <1>1, <1>7 DEF newtime
<1>16. t \in FairType
    BY <1>13, <1>15 DEF FairType
<1>8. t.time = newtime /\ Keeps(t, s, {"time"})
    BY <1>15 DEF FairType, Keeps, Fields
<1>9. t.time \in [Flow -> Time]
    BY <1>8, <1>13
<1>10. t.time[flow] = s.time[flow] + amount - subtract
    BY <1>4, <1>8, <1>14
<1>11. \A f \in s.queued \cap s.flows : t.time[f] = s.time[f] - subtract
    BY <1>2, <1>5, <1>8, <1>14
<1>12. subtract \in Time
    BY <1>3 DEF Time
<1> QED
    BY <1>8, <1>9, <1>10, <1>11, <1>12, <1>16

-----------------------------------------------------------------------------
(* The functions of the queue.  Each lemma assumes what its caller has       *)
(* established, and gives the invariant of what the function returns.      *)

(* A packet may be chosen: nothing is being sent and no flow was just done. *)
LEMMA ScheduleInv ==
    ASSUME NEW s, Shape(s), s.ok, ~s.freeing, Distinct(s.jobs), InputOK(s),
           s.sending = None, s.previous = None, s.output = "none", OutputOK(s),
           <<"schedule", None>> \notin Pending(s.jobs), s.queued # {}
    PROVE  /\ Inv(schedule(s)) /\ ~schedule(s).freeing
           /\ schedule(s).time = s.time
<1> DEFINE f == GetFirst(s)
           job == <<"operation", None>>
           t == schedule(s)
<1>1. s \in FairType /\ s.jobs \in Seq(Job)
    BY DEF Shape, FairType
<1>2. f \in s.queued /\ \A g \in s.queued : s.time[f] <= s.time[g]
    BY <1>1, FirstIsLeast
<1>3. f \in Flow /\ f \in s.flows /\ f # None
    BY <1>1, <1>2, FairQueueAssumption DEF FairType, Shape
<1> HIDE DEF f
<1>4. job \in Job
    BY DEF Job
<1>5. /\ Set(s.jobs, job) \in Seq(Job) /\ Distinct(Set(s.jobs, job))
      /\ Pending(Set(s.jobs, job)) = Pending(s.jobs) \cup {job}
    BY <1>1, <1>4, SetJob
<1>12. t = [s EXCEPT !.queued = s.queued \ {f}, !.sending = f,
                    !.output = "operation_pending", !.jobs = Set(s.jobs, job),
                    !.ok = TRUE]
    BY <1>1 DEF schedule, SendOutput, FairType, f
<1> HIDE DEF t
<1>6. /\ Set(s.jobs, job) \in Seq(Job) /\ s.queued \ {f} \in SUBSET Flow
      /\ "operation_pending" \in State
    BY <1>1, <1>5 DEF FairType, State
<1>7. /\ t.queued = s.queued \ {f} /\ t.sending = f /\ t.output = "operation_pending"
      /\ t.jobs = Set(s.jobs, job) /\ t.flows = s.flows /\ t.previous = s.previous
      /\ t.time = s.time /\ t.input = s.input /\ t.freeing = s.freeing /\ t.ok = s.ok
    BY <1>1, <1>12 DEF FairType
<1>8. Shape(t)
    <2>1. t \in FairType
        BY <1>1, <1>3, <1>6, <1>12 DEF FairType
    <2> QED
        BY <1>3, <1>7, <2>1 DEF Shape
<1>9. Order(t)
    BY <1>2, <1>7 DEF Order
<1>10. InputOK(t)
    <2> SUFFICES ASSUME NEW g \in Flow
                 PROVE  /\ <<"operation", g>> \in Pending(t.jobs)
                              <=> t.input[g] = "operation_pending"
                        /\ <<"done", g>> \in Pending(t.jobs)
                              <=> t.input[g] = "done_pending"
                        /\ g \in t.queued \cup {t.sending} <=> t.input[g] = "busy"
        BY DEF InputOK
    <2>1. g # None
        BY FairQueueAssumption
    <2>2. <<"operation", g>> # job /\ <<"done", g>> # job
        BY <2>1
    <2>3. /\ <<"operation", g>> \in Pending(s.jobs) <=> s.input[g] = "operation_pending"
          /\ <<"done", g>> \in Pending(s.jobs) <=> s.input[g] = "done_pending"
          /\ g \in s.queued \cup {s.sending} <=> s.input[g] = "busy"
        BY DEF InputOK
    <2>4. g \in t.queued \cup {t.sending} <=> g \in s.queued \cup {s.sending}
        BY <1>2, <1>7, <2>1
    <2> HIDE DEF job
    <2> QED
        BY <1>5, <1>7, <2>2, <2>3, <2>4
<1>11. OutputOK(t) /\ TurnOK(t)
    <2>1. <<"output done", None>> # job /\ <<"schedule", None>> # job
        OBVIOUS
    <2>2. t.previous = None /\ t.sending \notin t.queued /\ t.sending # None
        BY <1>3, <1>7
    <2>3. job \in Pending(t.jobs) /\ <<"output done", None>> \notin Pending(t.jobs)
          /\ <<"schedule", None>> \notin Pending(t.jobs)
        <3>1. <<"output done", None>> \notin Pending(s.jobs)
            BY DEF OutputOK
        <3> QED
            BY <1>5, <1>7, <2>1, <3>1
    <2>4. OutputOK(t)
        BY <1>7, <2>2, <2>3 DEF OutputOK
    <2>5. TurnOK(t)
        BY <2>2, <2>3 DEF TurnOK
    <2> QED
        BY <2>4, <2>5
<1> QED
    BY <1>5, <1>7, <1>8, <1>9, <1>10, <1>11 DEF Inv, Linked, t

-----------------------------------------------------------------------------
(* The steps.                                                              *)
IInv == Inv(q)

LEMMA Fact ==
    ASSUME IInv
    PROVE  /\ q \in FairType /\ q.jobs \in Seq(Job) /\ Shape(q) /\ q.ok = TRUE
           /\ \A f \in q.flows : f \in Flow /\ f # None
           /\ ~q.freeing => Linked(q)
BY FairQueueAssumption DEF IInv, Inv, Shape, FairType

(* A job is taken from the list.                                           *)
LEMMA Take ==
    ASSUME IInv, NEW job, Runs(job)
    PROVE  /\ Tail(q.jobs) \in Seq(Job) /\ Distinct(Tail(q.jobs))
           /\ job \in Pending(q.jobs)
           /\ Pending(Tail(q.jobs)) = Pending(q.jobs) \ {job}
           /\ ~q.freeing /\ Linked(q)
<1>1. /\ ~q.freeing /\ q.jobs # <<>> /\ Head(q.jobs) = job
      /\ q.jobs \in Seq(Job) /\ Distinct(q.jobs) /\ Linked(q)
    BY Fact DEF Runs, Linked
<1> QED
    BY <1>1, TakeJob

LEMMA RunInputInv ==
    ASSUME IInv, NEW f \in Flow, RunInput(f)
    PROVE  /\ Inv(q')
           /\ \A g \in Flow : g \in Backlogged(q) => q'.time[g] = q.time[g]
<1> DEFINE job == <<"operation", f>>
           sched == <<"schedule", None>>
           s == [Taken EXCEPT !.input[f] = "busy",
                              !.ok = @ /\ f \in q.flows
                                       /\ q.input[f] = "operation_pending"]
           current == get_current_time(s)
           newtime == [q.time EXCEPT ![f] = IF f # q.previous /\ @ < current
                                            THEN current ELSE @]
           newinput == [q.input EXCEPT ![f] = "busy"]
           newprevious == IF q.previous = f THEN None ELSE q.previous
           t == [s EXCEPT !.previous = newprevious, !.time = newtime,
                          !.queued = q.queued \cup {f}, !.ok = TRUE]
<1>1. /\ q \in FairType /\ Shape(q) /\ q.ok = TRUE /\ f # None
    BY Fact, FairQueueAssumption
<1>2. /\ Tail(q.jobs) \in Seq(Job) /\ Distinct(Tail(q.jobs))
      /\ job \in Pending(q.jobs)
      /\ Pending(Tail(q.jobs)) = Pending(q.jobs) \ {job}
      /\ ~q.freeing /\ InputOK(q) /\ OutputOK(q) /\ TurnOK(q)
    BY Take DEF RunInput, Linked
<1>3. q.input[f] = "operation_pending" /\ f \notin q.queued /\ f # q.sending
    BY <1>2 DEF InputOK
<1>4. f \in q.flows
    BY <1>1, <1>3 DEF Shape
<1>5. s = [q EXCEPT !.jobs = Tail(q.jobs), !.input = newinput, !.ok = TRUE]
    BY <1>1, <1>3, <1>4 DEF Taken, FairType
<1>6. newinput \in [Flow -> State] /\ \A g \in Flow : newinput[g] = IF g = f THEN "busy" ELSE q.input[g]
    BY <1>1 DEF FairType, State
<1> HIDE DEF s, newinput
<1>7. s \in FairType
    BY <1>1, <1>2, <1>5, <1>6 DEF FairType
<1>8. /\ s.sending = q.sending /\ s.previous = q.previous /\ s.queued = q.queued
      /\ s.time = q.time /\ s.jobs = Tail(q.jobs) /\ s.freeing = FALSE /\ s.ok = TRUE
    BY <1>1, <1>2, <1>5 DEF FairType
<1>9. current \in Time /\ (q.sending # None => current = q.time[q.sending])
    BY <1>7, <1>8, CurrentTime
<1> HIDE DEF current
<1>10. /\ newtime \in [Flow -> Time]
       /\ \A g \in Flow \ {f} : newtime[g] = q.time[g]
       /\ f # q.previous => newtime[f] >= current
    BY <1>1, <1>9, FairQueueAssumption DEF FairType, Time
<1> HIDE DEF newtime
<1>11. newprevious \in Flow \cup {None} /\ newprevious \in q.flows \cup {None}
    BY <1>1 DEF Shape, FairType
<1>12. t \in FairType
    BY <1>1, <1>7, <1>8, <1>10, <1>11 DEF FairType
<1>13. /\ t.sending = q.sending /\ t.previous = newprevious
       /\ t.queued = q.queued \cup {f} /\ t.flows = q.flows /\ t.output = q.output
       /\ t.time = newtime /\ t.jobs = Tail(q.jobs) /\ t.freeing = FALSE /\ t.ok = TRUE
       /\ t.input = newinput
    BY <1>1, <1>2, <1>5 DEF FairType
<1>14. input_handler_send(s, f) =
          IF q.sending = None /\ ~IsSet(t.jobs, sched) THEN schedule(t) ELSE t
    <2>1. s.time = q.time /\ s.queued = q.queued /\ f # s.sending
          /\ f \notin s.queued /\ ~s.freeing /\ s.previous = q.previous
        BY <1>3, <1>8
    <2>2. t = [s EXCEPT
                 !.previous = IF @ = f THEN None ELSE @,
                 !.time[f] = IF f # s.previous /\ @ < current THEN current ELSE @,
                 !.queued = @ \cup {f},
                 !.ok = @ /\ f # s.sending /\ f \notin s.queued /\ ~s.freeing]
        BY <1>7, <1>8, <2>1 DEF FairType, newtime
    <2> HIDE DEF t
    <2> QED
        BY <1>8, <1>13, <2>2 DEF input_handler_send, current
<1>15. q' = input_handler_send(s, f)
    BY DEF RunInput, s
<1> HIDE DEF t
<1>16. Shape(t)
    BY <1>1, <1>4, <1>6, <1>11, <1>12, <1>13 DEF Shape
<1>17. Order(t)
    <2> SUFFICES ASSUME q.sending # None, NEW g \in t.queued
                 PROVE  newtime[q.sending] <= newtime[g]
        BY <1>13 DEF Order
    <2>1. q.previous = None
        BY <1>2 DEF TurnOK
    <2>2. Order(q) /\ q.sending \in Flow /\ q.queued \subseteq Flow
        BY <1>1 DEF IInv, Inv, Shape, FairType
    <2> QED
        BY <1>1, <1>3, <1>9, <1>10, <1>13, <2>1, <2>2 DEF Order
<1>18. InputOK(t)
    <2> SUFFICES ASSUME NEW g \in Flow
                 PROVE  /\ <<"operation", g>> \in Pending(t.jobs)
                              <=> t.input[g] = "operation_pending"
                        /\ <<"done", g>> \in Pending(t.jobs)
                              <=> t.input[g] = "done_pending"
                        /\ g \in t.queued \cup {t.sending} <=> t.input[g] = "busy"
        BY DEF InputOK
    <2>1. /\ <<"operation", g>> \in Pending(q.jobs) <=> q.input[g] = "operation_pending"
          /\ <<"done", g>> \in Pending(q.jobs) <=> q.input[g] = "done_pending"
          /\ g \in q.queued \cup {q.sending} <=> q.input[g] = "busy"
        BY <1>2 DEF InputOK
    <2>2. <<"done", g>> # job /\ (g # f => <<"operation", g>> # job)
        OBVIOUS
    <2>3. CASE g = f
        BY <1>2, <1>3, <1>6, <1>13, <2>1, <2>2, <2>3
    <2>4. CASE g # f
        <3> HIDE DEF job
        <3> QED
            BY <1>2, <1>6, <1>13, <2>1, <2>2, <2>4
    <2> QED
        BY <2>3, <2>4
<1>19. sched # job /\ <<"operation", None>> # job /\ <<"output done", None>> # job
    BY <1>1
<1>20. OutputOK(t)
    <2> HIDE DEF job
    <2> QED
        BY <1>2, <1>13, <1>19 DEF OutputOK
<1>21. /\ sched \in Pending(t.jobs) => t.sending = None
       /\ t.previous # None => sched \in Pending(t.jobs)
       /\ t.sending \notin t.queued
    <2> HIDE DEF job
    <2> QED
        BY <1>1, <1>2, <1>3, <1>13, <1>19 DEF TurnOK
<1>22. IsSet(t.jobs, sched) <=> sched \in Pending(t.jobs)
    BY DEF IsSet, Pending
<1>23. \A g \in Flow : g \in Backlogged(q) => newtime[g] = q.time[g]
    <2>1. f = q.previous => newtime[f] = q.time[f]
        BY <1>1 DEF FairType, newtime
    <2> QED
        BY <1>3, <1>10, <2>1 DEF Backlogged
<1>24. CASE q.sending = None /\ ~IsSet(t.jobs, sched)
    <2>1. t.previous = None /\ t.output = "none" /\ t.queued # {} /\ ~t.freeing /\ t.ok
        BY <1>13, <1>20, <1>21, <1>22, <1>24 DEF OutputOK
    <2>2. Inv(schedule(t)) /\ schedule(t).time = t.time
        BY <1>2, <1>13, <1>16, <1>18, <1>20, <1>22, <1>24, <2>1, ScheduleInv
    <2> QED
        BY <1>13, <1>14, <1>15, <1>23, <1>24, <2>2
<1>25. CASE ~(q.sending = None /\ ~IsSet(t.jobs, sched))
    <2>1. TurnOK(t)
        BY <1>13, <1>21, <1>22, <1>25 DEF TurnOK
    <2>2. Inv(t)
        BY <1>2, <1>13, <1>16, <1>17, <1>18, <1>20, <2>1 DEF Inv, Linked
    <2> QED
        BY <1>13, <1>14, <1>15, <1>23, <1>25, <2>2
<1> QED
    BY <1>24, <1>25

(* A flow's own jobs: none of them is one of the queue's.                   *)
LEMMA OtherJobs ==
    ASSUME NEW f \in Flow
    PROVE  \A kind : /\ <<kind, f>> # <<"operation", None>>
                     /\ <<kind, f>> # <<"output done", None>>
                     /\ <<kind, f>> # <<"schedule", None>>
BY FairQueueAssumption

LEMMA RunDoneInv ==
    ASSUME IInv, NEW f \in Flow, RunDone(f)
    PROVE  Inv(q') /\ q'.time = q.time
<1> DEFINE job == <<"done", f>>
           newinput == [q.input EXCEPT ![f] = "none"]
<1>1. q \in FairType /\ Shape(q) /\ q.ok = TRUE
    BY Fact
<1>2. /\ Tail(q.jobs) \in Seq(Job) /\ Distinct(Tail(q.jobs))
      /\ job \in Pending(q.jobs)
      /\ Pending(Tail(q.jobs)) = Pending(q.jobs) \ {job}
      /\ ~q.freeing /\ InputOK(q) /\ OutputOK(q) /\ TurnOK(q)
    BY Take DEF RunDone, Linked
<1>3. q.input[f] = "done_pending" /\ f \notin q.queued /\ f # q.sending
    BY <1>2 DEF InputOK
<1>4. f \in q.flows
    BY <1>1, <1>3 DEF Shape
<1>5. /\ newinput \in [Flow -> State]
      /\ \A g \in Flow : newinput[g] = IF g = f THEN "none" ELSE q.input[g]
    BY <1>1 DEF FairType, State
<1>6. q' = [q EXCEPT !.jobs = Tail(q.jobs), !.input = newinput, !.ok = TRUE]
    BY <1>1, <1>3, <1>4 DEF RunDone, Taken, FairType
<1> HIDE DEF newinput
<1>7. q' \in FairType
    BY <1>1, <1>2, <1>5, <1>6 DEF FairType
<1>8. /\ q'.sending = q.sending /\ q'.previous = q.previous /\ q'.queued = q.queued
      /\ q'.flows = q.flows /\ q'.output = q.output /\ q'.time = q.time
      /\ q'.jobs = Tail(q.jobs) /\ q'.freeing = q.freeing /\ q'.ok = TRUE
      /\ q'.input = newinput
    BY <1>1, <1>6 DEF FairType
<1>9. Shape(q') /\ Order(q')
    BY <1>1, <1>5, <1>7, <1>8 DEF Shape, Order, IInv, Inv
<1>10. InputOK(q')
    <2> SUFFICES ASSUME NEW g \in Flow
                 PROVE  /\ <<"operation", g>> \in Pending(q'.jobs)
                              <=> q'.input[g] = "operation_pending"
                        /\ <<"done", g>> \in Pending(q'.jobs)
                              <=> q'.input[g] = "done_pending"
                        /\ g \in q'.queued \cup {q'.sending} <=> q'.input[g] = "busy"
        BY DEF InputOK
    <2>1. /\ <<"operation", g>> \in Pending(q.jobs) <=> q.input[g] = "operation_pending"
          /\ <<"done", g>> \in Pending(q.jobs) <=> q.input[g] = "done_pending"
          /\ g \in q.queued \cup {q.sending} <=> q.input[g] = "busy"
        BY <1>2 DEF InputOK
    <2>2. <<"operation", g>> # job /\ (g # f => <<"done", g>> # job)
        OBVIOUS
    <2>3. CASE g = f
        BY <1>2, <1>3, <1>5, <1>8, <2>1, <2>2, <2>3
    <2>4. CASE g # f
        <3> HIDE DEF job
        <3> QED
            BY <1>2, <1>5, <1>8, <2>1, <2>2, <2>4
    <2> QED
        BY <2>3, <2>4
<1>11. OutputOK(q') /\ TurnOK(q')
    <2>1. /\ <<"operation", None>> # job /\ <<"output done", None>> # job
          /\ <<"schedule", None>> # job
        BY OtherJobs
    <2> HIDE DEF job
    <2>2. OutputOK(q')
        BY <1>2, <1>8, <2>1 DEF OutputOK
    <2>3. TurnOK(q')
        BY <1>2, <1>8, <2>1 DEF TurnOK
    <2> QED
        BY <2>2, <2>3
<1> QED
    BY <1>2, <1>8, <1>9, <1>10, <1>11 DEF Inv, Linked

(* Other jobs than a flow's: its interface is as it was.                    *)
LEMMA InputKept ==
    ASSUME NEW s, InputOK(s), NEW t, t.input = s.input,
           t.queued \cup {t.sending} = s.queued \cup {s.sending},
           \A f \in Flow, kind \in {"operation", "done"} :
              <<kind, f>> \in Pending(t.jobs) <=> <<kind, f>> \in Pending(s.jobs)
    PROVE  InputOK(t)
BY DEF InputOK

LEMMA RunScheduleInv ==
    ASSUME IInv, RunSchedule
    PROVE  Inv(q') /\ q'.time = q.time
<1> DEFINE job == <<"schedule", None>>
           t == [q EXCEPT !.jobs = Tail(q.jobs), !.previous = None, !.ok = TRUE]
<1>1. q \in FairType /\ Shape(q) /\ q.ok = TRUE
    BY Fact
<1>2. /\ Tail(q.jobs) \in Seq(Job) /\ Distinct(Tail(q.jobs))
      /\ job \in Pending(q.jobs)
      /\ Pending(Tail(q.jobs)) = Pending(q.jobs) \ {job}
      /\ ~q.freeing /\ InputOK(q) /\ OutputOK(q) /\ TurnOK(q)
    BY Take DEF RunSchedule, Linked
<1>3. q.sending = None /\ q.output = "none"
    BY <1>2 DEF TurnOK, OutputOK
<1>4. q' = IF t.queued = {} THEN t ELSE schedule(t)
    BY <1>1, <1>2, <1>3 DEF RunSchedule, schedule_job_handler, Taken, FairType
<1>5. t \in FairType
    BY <1>1, <1>2 DEF FairType
<1>6. /\ t.sending = None /\ t.previous = None /\ t.queued = q.queued
      /\ t.flows = q.flows /\ t.output = "none" /\ t.time = q.time
      /\ t.jobs = Tail(q.jobs) /\ t.freeing = q.freeing /\ t.ok = TRUE
      /\ t.input = q.input
    BY <1>1, <1>3 DEF FairType
<1> HIDE DEF t
<1>7. Shape(t) /\ Order(t)
    BY <1>1, <1>5, <1>6 DEF Shape, Order
<1>8. InputOK(t) /\ OutputOK(t)
    <2>1. /\ <<"operation", None>> # job /\ <<"output done", None>> # job
          /\ \A f \in Flow, kind \in {"operation", "done"} : <<kind, f>> # job
        OBVIOUS
    <2> HIDE DEF job
    <2>2. InputOK(t)
        BY <1>2, <1>3, <1>6, <2>1, InputKept
    <2>3. OutputOK(t)
        BY <1>2, <1>3, <1>6, <2>1 DEF OutputOK
    <2> QED
        BY <2>2, <2>3
<1>9. CASE t.queued = {}
    <2>1. TurnOK(t)
        BY <1>2, <1>6, <1>9 DEF TurnOK
    <2> QED
        BY <1>2, <1>4, <1>6, <1>7, <1>8, <1>9, <2>1 DEF Inv, Linked
<1>10. CASE t.queued # {}
    <2>1. job \notin Pending(t.jobs) /\ Distinct(t.jobs) /\ ~t.freeing
        BY <1>2, <1>6
    <2>2. Inv(schedule(t)) /\ schedule(t).time = t.time
        BY <1>6, <1>7, <1>8, <1>10, <2>1, ScheduleInv
    <2> QED
        BY <1>4, <1>6, <1>10, <2>2
<1> QED
    BY <1>9, <1>10

LEMMA RunOutputInv ==
    ASSUME IInv, RunOutput
    PROVE  Inv(q') /\ q'.time = q.time
<1> DEFINE job == <<"operation", None>>
<1>1. q \in FairType /\ Shape(q) /\ q.ok = TRUE
    BY Fact
<1>2. /\ Tail(q.jobs) \in Seq(Job) /\ Distinct(Tail(q.jobs))
      /\ job \in Pending(q.jobs)
      /\ Pending(Tail(q.jobs)) = Pending(q.jobs) \ {job}
      /\ ~q.freeing /\ InputOK(q) /\ OutputOK(q) /\ TurnOK(q)
    BY Take DEF RunOutput, Linked
<1>3. q' = [q EXCEPT !.jobs = Tail(q.jobs), !.output = "busy"]
    BY <1>1 DEF RunOutput, Taken, FairType
<1>4. q' \in FairType
    BY <1>1, <1>2, <1>3 DEF FairType, State
<1>5. /\ q'.sending = q.sending /\ q'.previous = q.previous /\ q'.queued = q.queued
      /\ q'.flows = q.flows /\ q'.output = "busy" /\ q'.time = q.time
      /\ q'.jobs = Tail(q.jobs) /\ q'.freeing = q.freeing /\ q'.ok = TRUE
      /\ q'.input = q.input
    BY <1>1, <1>3 DEF FairType
<1>6. Shape(q') /\ Order(q')
    BY <1>1, <1>4, <1>5 DEF Shape, Order, IInv, Inv
<1>7. q.output = "operation_pending" /\ q.sending # None
    BY <1>2 DEF OutputOK
<1>8. /\ <<"output done", None>> # job /\ <<"schedule", None>> # job
      /\ \A f \in Flow, kind \in {"operation", "done"} : <<kind, f>> # job
    BY FairQueueAssumption
<1> HIDE DEF job
<1>9. InputOK(q')
    BY <1>2, <1>5, <1>8, InputKept
<1>10. OutputOK(q')
    BY <1>2, <1>5, <1>7, <1>8 DEF OutputOK, job
<1>11. TurnOK(q')
    BY <1>2, <1>5, <1>8 DEF TurnOK
<1> QED
    BY <1>2, <1>5, <1>6, <1>9, <1>10, <1>11 DEF Inv, Linked

LEMMA OutputDoneInv ==
    ASSUME IInv, OutputDone
    PROVE  Inv(q') /\ q'.time = q.time
<1> DEFINE job == <<"output done", None>>
<1>1. q \in FairType /\ Shape(q) /\ q.ok = TRUE /\ q.jobs \in Seq(Job)
      /\ ~q.freeing /\ Distinct(q.jobs) /\ InputOK(q) /\ OutputOK(q) /\ TurnOK(q)
    BY Fact DEF OutputDone, Linked
<1>12. job \in Job
    BY DEF Job
<1>2. /\ Set(q.jobs, job) \in Seq(Job) /\ Distinct(Set(q.jobs, job))
      /\ Pending(Set(q.jobs, job)) = Pending(q.jobs) \cup {job}
    BY <1>1, <1>12, SetJob
<1>3. q' = [q EXCEPT !.jobs = Set(q.jobs, job), !.output = "done_pending"]
    BY <1>1 DEF OutputDone, FairType
<1>4. q' \in FairType
    BY <1>1, <1>2, <1>3 DEF FairType, State
<1>5. /\ q'.sending = q.sending /\ q'.previous = q.previous /\ q'.queued = q.queued
      /\ q'.flows = q.flows /\ q'.output = "done_pending" /\ q'.time = q.time
      /\ q'.jobs = Set(q.jobs, job) /\ q'.freeing = q.freeing /\ q'.ok = TRUE
      /\ q'.input = q.input
    BY <1>1, <1>3 DEF FairType
<1>6. Shape(q') /\ Order(q')
    BY <1>1, <1>4, <1>5 DEF Shape, Order, IInv, Inv
<1>7. q.output = "busy" /\ q.sending # None
    BY <1>1 DEF OutputOK, OutputDone
<1>8. /\ <<"operation", None>> # job /\ <<"schedule", None>> # job
      /\ \A f \in Flow, kind \in {"operation", "done"} : <<kind, f>> # job
    BY FairQueueAssumption
<1> HIDE DEF job
<1>9. InputOK(q')
    BY <1>1, <1>2, <1>5, <1>8, InputKept
<1>10. OutputOK(q')
    BY <1>1, <1>2, <1>5, <1>7, <1>8 DEF OutputOK, job
<1>11. TurnOK(q')
    BY <1>1, <1>2, <1>5, <1>8 DEF TurnOK
<1> QED
    BY <1>1, <1>2, <1>5, <1>6, <1>9, <1>10, <1>11 DEF Inv, Linked

(* A flow is freed: its jobs go with it, and so does its turn.              *)
LEMMA FlowFreeInv ==
    ASSUME NEW s, Inv(s), NEW flow \in s.flows, s.freeing \/ flow # s.sending,
           NEW t, t = Flow_Free(s, flow)
    PROVE  /\ Inv(t) /\ t.freeing = s.freeing
           /\ flow \notin Backlogged(t) /\ Backlogged(t) \subseteq Backlogged(s)
           /\ \A f \in Flow \ {flow} : t.time[f] = s.time[f]
<1> DEFINE op == <<"operation", flow>>
           done == <<"done", flow>>
           u == Unset(s.jobs, op)
           jobs == Unset(u, done)
           newinput == [s.input EXCEPT ![flow] = "none"]
           newtime == [s.time EXCEPT ![flow] = 0]
           newlen == [s.len EXCEPT ![flow] = 0]
           newsending == IF s.sending = flow THEN None ELSE s.sending
           newprevious == IF s.previous = flow THEN None ELSE s.previous
<1>1. /\ s \in FairType /\ Shape(s) /\ s.ok = TRUE /\ Order(s) /\ flow \in Flow
      /\ flow # None /\ s.jobs \in Seq(Job) /\ Distinct(s.jobs)
      /\ ~s.freeing => InputOK(s) /\ OutputOK(s) /\ TurnOK(s)
    BY FairQueueAssumption DEF Inv, Shape, FairType, Linked
<1>2. /\ jobs \in Seq(Job) /\ Distinct(jobs)
      /\ Pending(jobs) = (Pending(s.jobs) \ {op}) \ {done}
    <2>1. u \in Seq(Job) /\ Distinct(u) /\ Pending(u) = Pending(s.jobs) \ {op}
        BY <1>1, UnsetJob
    <2> HIDE DEF u
    <2> QED
        BY <2>1, UnsetJob
<1>3. /\ newinput \in [Flow -> State]
      /\ \A g \in Flow : newinput[g] = IF g = flow THEN "none" ELSE s.input[g]
    BY <1>1 DEF FairType, State
<1>4. /\ newtime \in [Flow -> Time] /\ newlen \in [Flow -> 0..MTU]
      /\ \A g \in Flow \ {flow} : newtime[g] = s.time[g]
    BY <1>1, FairQueueAssumption DEF FairType, Time
<1>5. t = [s EXCEPT !.flows = s.flows \ {flow}, !.queued = s.queued \ {flow},
              !.sending = newsending, !.previous = newprevious, !.time = newtime,
              !.len = newlen, !.input = newinput,
              !.busy_handler = s.busy_handler \ {flow}, !.jobs = jobs, !.ok = TRUE]
    BY <1>1 DEF Flow_Free, FairType
<1>12. newsending \in Flow \cup {None} /\ newprevious \in Flow \cup {None}
       /\ s.flows \ {flow} \in SUBSET Flow /\ s.queued \ {flow} \in SUBSET Flow
       /\ s.busy_handler \ {flow} \in SUBSET Flow
    BY <1>1 DEF FairType
<1> HIDE DEF newinput, newtime, newlen, jobs
<1>6. t \in FairType
    <2> DEFINE t1 == [s EXCEPT !.flows = s.flows \ {flow}, !.queued = s.queued \ {flow},
                               !.sending = newsending, !.previous = newprevious,
                               !.busy_handler = s.busy_handler \ {flow}]
    <2>1. t1 \in FairType
        <3> HIDE DEF newsending, newprevious
        <3> QED
            BY <1>1, <1>12 DEF FairType
    <2>2. t = [t1 EXCEPT !.time = newtime, !.len = newlen, !.input = newinput,
                         !.jobs = jobs, !.ok = TRUE]
        BY <1>1, <1>5 DEF FairType
    <2> HIDE DEF t1
    <2> QED
        BY <1>2, <1>3, <1>4, <2>1, <2>2, ZenonT(60) DEF FairType
<1>7. /\ t.flows = s.flows \ {flow} /\ t.queued = s.queued \ {flow}
      /\ t.sending = newsending /\ t.previous = newprevious /\ t.time = newtime
      /\ t.input = newinput /\ t.jobs = jobs /\ t.ok = TRUE
      /\ t.freeing = s.freeing /\ t.output = s.output
    BY <1>1, <1>5 DEF FairType
<1>8. Shape(t)
    BY <1>1, <1>3, <1>6, <1>7 DEF Shape
<1>9. Order(t)
    <2> SUFFICES ASSUME newsending # None, NEW f \in s.queued \ {flow}
                 PROVE  newtime[newsending] <= newtime[f]
        BY <1>7 DEF Order
    <2>1. newsending = s.sending /\ s.sending # flow /\ s.sending \in Flow /\ f \in Flow
        BY <1>1 DEF FairType
    <2> QED
        BY <1>1, <1>4, <2>1 DEF Order
<1>10. ASSUME ~s.freeing PROVE Linked(t)
    <2>1. flow # s.sending /\ newsending = s.sending
        BY <1>10
    <2>2. InputOK(t)
        <3> SUFFICES ASSUME NEW g \in Flow
                     PROVE  /\ <<"operation", g>> \in Pending(t.jobs)
                                  <=> t.input[g] = "operation_pending"
                            /\ <<"done", g>> \in Pending(t.jobs)
                                  <=> t.input[g] = "done_pending"
                            /\ g \in t.queued \cup {t.sending} <=> t.input[g] = "busy"
            BY DEF InputOK
        <3>1. /\ <<"operation", g>> \in Pending(s.jobs) <=> s.input[g] = "operation_pending"
              /\ <<"done", g>> \in Pending(s.jobs) <=> s.input[g] = "done_pending"
              /\ g \in s.queued \cup {s.sending} <=> s.input[g] = "busy"
            BY <1>1, <1>10 DEF InputOK
        <3>2. g # flow => /\ <<"operation", g>> # op /\ <<"operation", g>> # done
                          /\ <<"done", g>> # op /\ <<"done", g>> # done
            OBVIOUS
        <3>3. CASE g = flow
            BY <1>2, <1>3, <1>7, <2>1, <3>3
        <3>4. CASE g # flow
            <4> HIDE DEF op, done
            <4> QED
                BY <1>2, <1>3, <1>7, <2>1, <3>1, <3>2, <3>4
        <3> QED
            BY <3>3, <3>4
    <2>3. \A kind : <<kind, None>> # op /\ <<kind, None>> # done
        BY <1>1
    <2> HIDE DEF op, done
    <2>4. OutputOK(t)
        BY <1>1, <1>2, <1>7, <1>10, <2>1, <2>3 DEF OutputOK
    <2>5. TurnOK(t)
        BY <1>1, <1>2, <1>7, <1>10, <2>1, <2>3 DEF TurnOK
    <2> QED
        BY <1>2, <1>7, <2>2, <2>4, <2>5 DEF Linked
<1>11. flow \notin Backlogged(t) /\ Backlogged(t) \subseteq Backlogged(s)
    BY <1>1, <1>7 DEF Backlogged
<1> QED
    BY <1>2, <1>4, <1>7, <1>8, <1>9, <1>10, <1>11 DEF Inv

LEMMA FreeFlowInv ==
    ASSUME IInv, FreeFlow
    PROVE  /\ Inv(q') /\ Backlogged(q') \subseteq Backlogged(q)
           /\ \A f \in Flow : f \in Backlogged(q') => q'.time[f] = q.time[f]
<1>1. PICK flow \in q.flows : (q.freeing \/ ~IsBusy(q, flow)) /\ q' = Flow_Free(q, flow)
    BY DEF FreeFlow
<1>2. q.freeing \/ flow # q.sending
    BY <1>1 DEF IsBusy
<1> QED
    BY <1>1, <1>2, FlowFreeInv DEF IInv

(* The packet is sent: its flow pays, is told, and remembered until the     *)
(* schedule job has run.                                                   *)
LEMMA RunOutputDoneInv ==
    ASSUME IInv, RunOutputDone
    PROVE  /\ Inv(q') /\ q.sending \in Flow /\ q'.sending # q.sending
           /\ Backlogged(q') \subseteq Backlogged(q)
           /\ \E subtract \in Time :
                 \A f \in Flow : f \in Backlogged(q') =>
                    q'.time[f] = q.time[f] - subtract
                       + IF f = q.sending THEN packet_weight + q.len[f] ELSE 0
<1> DEFINE job == <<"output done", None>>
           sched == <<"schedule", None>>
           flow == q.sending
           done == <<"done", flow>>
           amount == packet_weight + q.len[flow]
           s == [Taken EXCEPT !.output = "none"]
           r == [q EXCEPT !.jobs = Tail(q.jobs), !.output = "none",
                          !.sending = None, !.previous = flow, !.ok = TRUE]
           c == increment_sent_flow(r, flow, amount)
           j == Set(c.jobs, sched)
           newinput == [q.input EXCEPT ![flow] = "done_pending"]
           t == [c EXCEPT !.jobs = Set(j, done), !.input = newinput, !.ok = TRUE]
<1>1. /\ q \in FairType /\ Shape(q) /\ q.ok = TRUE /\ Order(q)
    BY Fact DEF IInv, Inv
<1>2. /\ Tail(q.jobs) \in Seq(Job) /\ Distinct(Tail(q.jobs))
      /\ job \in Pending(q.jobs)
      /\ Pending(Tail(q.jobs)) = Pending(q.jobs) \ {job}
      /\ ~q.freeing /\ InputOK(q) /\ OutputOK(q) /\ TurnOK(q)
    BY Take DEF RunOutputDone, Linked
<1>3. /\ flow # None /\ flow \in Flow /\ flow \in q.flows /\ flow \notin q.queued
      /\ q.previous = None /\ sched \notin Pending(q.jobs) /\ q.input[flow] = "busy"
    <2>1. flow # None
        BY <1>2 DEF OutputOK
    <2>2. flow \in Flow /\ flow \in q.flows
        BY <1>1, <2>1 DEF FairType, Shape
    <2>3. flow \notin q.queued /\ q.previous = None /\ sched \notin Pending(q.jobs)
        BY <1>2, <2>1 DEF TurnOK
    <2> QED
        BY <1>2, <2>1, <2>2, <2>3 DEF InputOK
<1> HIDE DEF flow
<1>4. r \in FairType
    BY <1>1, <1>2, <1>3 DEF FairType, State
<1>5. /\ r.sending = None /\ r.previous = flow /\ r.queued = q.queued /\ r.len = q.len
      /\ r.flows = q.flows /\ r.output = "none" /\ r.time = q.time /\ r.ok = TRUE
      /\ r.jobs = Tail(q.jobs) /\ r.freeing = FALSE /\ r.input = q.input
      /\ r.busy_handler = q.busy_handler
    BY <1>1, <1>2 DEF FairType
<1>6. /\ amount \in Nat /\ amount <= MTU + packet_weight
      /\ \A f \in q.queued : q.time[flow] <= q.time[f]
    BY <1>1, <1>3, FairQueueAssumption DEF FairType, Order, flow
<1> HIDE DEF amount, r
<1>7. /\ c \in FairType /\ Keeps(c, r, {"time"})
      /\ \E subtract \in Time :
            /\ c.time[flow] = r.time[flow] + amount - subtract
            /\ \A f \in r.queued \cap r.flows : c.time[f] = r.time[f] - subtract
    BY <1>3, <1>4, <1>5, <1>6, Increment
<1> HIDE DEF c
<1>8. /\ c.sending = None /\ c.previous = flow /\ c.queued = q.queued
      /\ c.flows = q.flows /\ c.output = "none" /\ c.ok = TRUE
      /\ c.jobs = Tail(q.jobs) /\ c.freeing = FALSE /\ c.input = q.input
      /\ c.busy_handler = q.busy_handler
    BY <1>5, <1>7 DEF Keeps, Fields
<1>9. sched \in Job /\ done \in Job
    BY <1>3 DEF Job
<1>10. /\ Set(j, done) \in Seq(Job) /\ Distinct(Set(j, done))
       /\ Pending(Set(j, done)) = (Pending(q.jobs) \ {job}) \cup {sched, done}
    <2>1. j \in Seq(Job) /\ Distinct(j) /\ Pending(j) = (Pending(q.jobs) \ {job}) \cup {sched}
        BY <1>2, <1>8, <1>9, SetJob
    <2> HIDE DEF j
    <2>2. /\ Set(j, done) \in Seq(Job) /\ Distinct(Set(j, done))
          /\ Pending(Set(j, done)) = Pending(j) \cup {done}
        BY <1>9, <2>1, SetJob
    <2> QED
        BY <2>1, <2>2
<1>11. /\ newinput \in [Flow -> State]
       /\ \A g \in Flow : newinput[g] = IF g = flow THEN "done_pending" ELSE q.input[g]
    BY <1>1 DEF FairType, State
<1>12. output_handler_done(s) = IF flow \in q.busy_handler THEN Flow_Free(t, flow) ELSE t
    <2>1. /\ s.sending = flow /\ s.len = q.len /\ s.queued = q.queued /\ s.freeing = FALSE
          /\ s.jobs = Tail(q.jobs) /\ s.previous = None /\ s.ok = TRUE
          /\ s.busy_handler = q.busy_handler
        BY <1>1, <1>2, <1>3 DEF FairType, Taken, flow
    <2>2. ~IsSet(s.jobs, sched)
        <3>1. sched \notin Pending(s.jobs)
            BY <1>2, <1>3, <2>1
        <3> QED
            BY <3>1 DEF IsSet, Pending
    <2> DEFINE before == [s EXCEPT !.sending = None, !.previous = flow,
                                   !.ok = @ /\ flow # None /\ s.previous = None
                                            /\ ~IsSet(s.jobs, sched)
                                            /\ ~s.freeing /\ flow \notin s.queued]
               told == DoneInput([c EXCEPT !.jobs = Set(@, sched)], flow)
    <2>3. before = r
        BY <1>1, <1>3, <2>1, <2>2 DEF r, Taken, FairType
    <2>4. told = t
        BY <1>3, <1>7, <1>8 DEF DoneInput, FairType
    <2>5. output_handler_done(s) =
             IF flow \in s.busy_handler THEN Flow_Free(told, flow) ELSE told
        <3>1. packet_weight + s.len[flow] = amount
            BY <2>1 DEF amount
        <3> HIDE DEF s
        <3> QED
            BY <2>1, <2>3, <3>1 DEF output_handler_done, c
    <2> QED
        BY <2>1, <2>4, <2>5
<1>13. q' = output_handler_done(s)
    BY DEF RunOutputDone
<1> HIDE DEF newinput, s
<1>14. t \in FairType
    BY <1>7, <1>8, <1>10, <1>11 DEF FairType
<1>15. /\ t.sending = None /\ t.previous = flow /\ t.queued = q.queued
       /\ t.flows = q.flows /\ t.output = "none" /\ t.time = c.time
       /\ t.jobs = Set(j, done) /\ t.freeing = FALSE /\ t.ok = TRUE
       /\ t.input = newinput
    BY <1>7, <1>8 DEF FairType
<1> HIDE DEF t, j
<1>16. Inv(t)
    <2>1. Shape(t) /\ Order(t)
        BY <1>1, <1>3, <1>11, <1>14, <1>15 DEF Shape, Order
    <2>2. /\ <<"operation", None>> \notin {job, sched, done} /\ job \notin {sched, done}
          /\ \A g \in Flow : /\ <<"operation", g>> \notin {job, sched, done}
                              /\ <<"done", g>> \notin {job, sched}
                              /\ g # flow => <<"done", g>> # done
        BY <1>3, FairQueueAssumption
    <2>3. InputOK(t)
        <3> SUFFICES ASSUME NEW g \in Flow
                     PROVE  /\ <<"operation", g>> \in Pending(t.jobs)
                                  <=> t.input[g] = "operation_pending"
                            /\ <<"done", g>> \in Pending(t.jobs)
                                  <=> t.input[g] = "done_pending"
                            /\ g \in t.queued \cup {t.sending} <=> t.input[g] = "busy"
            BY DEF InputOK
        <3>1. /\ <<"operation", g>> \in Pending(q.jobs) <=> q.input[g] = "operation_pending"
              /\ <<"done", g>> \in Pending(q.jobs) <=> q.input[g] = "done_pending"
              /\ g \in q.queued \cup {flow} <=> q.input[g] = "busy"
            BY <1>2 DEF InputOK, flow
        <3>2. g # None
            BY FairQueueAssumption
        <3>3. CASE g = flow
            <4>1. done \in Pending(t.jobs) /\ done = <<"done", g>>
                BY <1>10, <1>15, <3>3
            <4>2. t.input[g] = "done_pending" /\ q.input[g] = "busy"
                BY <1>3, <1>11, <1>15, <3>3
            <4>5. <<"operation", g>> \notin {job, sched, done}
                BY <2>2, Zenon
            <4>3. <<"operation", g>> \notin Pending(t.jobs)
                <5> HIDE DEF job, sched, done
                <5> QED
                    BY <1>10, <1>15, <3>1, <4>2, <4>5
            <4>4. g \notin t.queued \cup {t.sending}
                BY <1>3, <1>15, <3>2, <3>3
            <4> QED
                BY <4>1, <4>2, <4>3, <4>4
        <3>4. CASE g # flow
            <4>1. /\ <<"operation", g>> \notin {job, sched, done}
                  /\ <<"done", g>> \notin {job, sched, done}
                BY <2>2, <3>4
            <4> HIDE DEF job, sched, done
            <4>2. t.input[g] = q.input[g]
                BY <1>11, <1>15, <3>4
            <4>3. g \in t.queued \cup {t.sending} <=> g \in q.queued \cup {flow}
                BY <1>15, <3>2, <3>4
            <4> QED
                BY <1>10, <1>15, <3>1, <4>1, <4>2, <4>3
        <3> QED
            BY <3>3, <3>4
    <2>4. q.output = "done_pending"
        BY <1>2 DEF OutputOK
    <2>5. OutputOK(t)
        <3>1. <<"operation", None>> \notin Pending(t.jobs) /\ job \notin Pending(t.jobs)
            BY <1>2, <1>10, <1>15, <2>2, <2>4 DEF OutputOK
        <3> QED
            BY <1>15, <3>1 DEF OutputOK
    <2>6. TurnOK(t)
        BY <1>1, <1>10, <1>15, FairQueueAssumption DEF TurnOK, FairType
    <2> QED
        BY <1>10, <1>15, <2>1, <2>3, <2>5, <2>6 DEF Inv, Linked
<1>17. PICK subtract \in Time :
          /\ c.time[flow] = q.time[flow] + amount - subtract
          /\ \A f \in q.queued \cap q.flows : c.time[f] = q.time[f] - subtract
    BY <1>5, <1>7
<1>18. /\ Backlogged(t) = q.queued \cup {flow} /\ Backlogged(q) = q.queued \cup {flow}
       /\ q.queued \subseteq q.flows
    BY <1>1, <1>3, <1>15 DEF Backlogged, Shape, flow
<1>19. \A f \in Backlogged(t) :
          c.time[f] = q.time[f] - subtract + IF f = flow THEN amount ELSE 0
    <2>1. subtract \in Int /\ amount \in Int /\ \A f \in Flow : q.time[f] \in Int
        BY <1>1, <1>6, FairQueueAssumption DEF FairType, Time
    <2>2. q.queued \subseteq Flow
        BY <1>1 DEF FairType
    <2>3. \A f \in q.queued : f # flow /\ c.time[f] = q.time[f] - subtract
        BY <1>3, <1>17, <1>18
    <2>4. c.time[flow] = q.time[flow] - subtract + amount
        BY <1>3, <1>17, <2>1
    <2> QED
        BY <1>18, <2>1, <2>2, <2>3, <2>4
<1>20. CASE flow \in q.busy_handler
    <2>1. q' = Flow_Free(t, flow)
        BY <1>12, <1>13, <1>20
    <2>2. flow \in t.flows /\ flow # t.sending
        BY <1>3, <1>15
    <2>3. /\ Inv(q') /\ flow \notin Backlogged(q') /\ Backlogged(q') \subseteq Backlogged(t)
          /\ \A f \in Flow \ {flow} : q'.time[f] = t.time[f]
        BY <1>16, <2>1, <2>2, FlowFreeInv
    <2>4. q'.sending # flow
        BY <1>3, <2>3 DEF Backlogged
    <2>5. \A f \in Flow : f \in Backlogged(q') =>
            q'.time[f] = q.time[f] - subtract + IF f = flow THEN amount ELSE 0
        BY <1>15, <1>19, <2>3
    <2> QED
        BY <1>3, <1>18, <2>3, <2>4, <2>5 DEF amount, flow
<1>21. CASE flow \notin q.busy_handler
    <2>1. q' = t
        BY <1>12, <1>13, <1>21
    <2>2. \A f \in Flow : f \in Backlogged(q') =>
            q'.time[f] = q.time[f] - subtract + IF f = flow THEN amount ELSE 0
        BY <1>15, <1>19, <2>1
    <2>3. q'.sending # flow
        BY <1>3, <1>15, <2>1
    <2> QED
        BY <1>3, <1>16, <1>18, <2>1, <2>2, <2>3 DEF amount, flow
<1> QED
    BY <1>20, <1>21

(* The steps of the users, between the jobs.                               *)
LEMMA NewFlowInv ==
    ASSUME IInv, NewFlow
    PROVE  Inv(q') /\ \A f \in Backlogged(q) : q'.time[f] = q.time[f]
<1>1. PICK f \in Flow \ q.flows : ~q.freeing /\ q' = Flow_Init(q, f)
    BY DEF NewFlow
<1> DEFINE newtime == [q.time EXCEPT ![f] = 0]
           newinput == [q.input EXCEPT ![f] = "none"]
<1>2. /\ q \in FairType /\ Shape(q) /\ q.ok = TRUE /\ Order(q) /\ Distinct(q.jobs)
      /\ InputOK(q) /\ OutputOK(q) /\ TurnOK(q)
    BY <1>1, Fact DEF IInv, Inv, Linked
<1>3. newinput = q.input
    BY <1>1, <1>2 DEF Shape, FairType
<1>4. newtime \in [Flow -> Time] /\ \A g \in Flow \ {f} : newtime[g] = q.time[g]
    BY <1>2, FairQueueAssumption DEF FairType, Time
<1>5. q' = [q EXCEPT !.flows = q.flows \cup {f}, !.time = newtime, !.ok = TRUE]
    BY <1>1, <1>2, <1>3 DEF Flow_Init, FairType
<1> HIDE DEF newtime, newinput
<1>6. q' \in FairType
    BY <1>2, <1>4, <1>5 DEF FairType
<1>7. /\ q'.flows = q.flows \cup {f} /\ q'.time = newtime /\ q'.sending = q.sending
      /\ q'.previous = q.previous /\ q'.queued = q.queued /\ q'.jobs = q.jobs
      /\ q'.input = q.input /\ q'.output = q.output /\ q'.freeing = q.freeing
      /\ q'.ok = TRUE
    BY <1>2, <1>5 DEF FairType
<1>8. Backlogged(q) \subseteq Flow /\ f \notin Backlogged(q)
    BY <1>1, <1>2, FairQueueAssumption DEF Backlogged, Shape, FairType
<1>9. \A g \in Backlogged(q) : q'.time[g] = q.time[g]
    BY <1>4, <1>7, <1>8
<1>10. Shape(q')
    BY <1>2, <1>6, <1>7 DEF Shape
<1>11. Order(q')
    BY <1>2, <1>7, <1>9 DEF Order, Backlogged
<1>12. InputOK(q')
    BY <1>2, <1>7, InputKept, Zenon
<1>13. OutputOK(q') /\ TurnOK(q')
    <2>1. OutputOK(q')
        BY <1>2, <1>7, Zenon DEF OutputOK
    <2>2. TurnOK(q')
        BY <1>2, <1>7, Zenon DEF TurnOK
    <2> QED
        BY <2>1, <2>2
<1> QED
    BY <1>2, <1>7, <1>9, <1>10, <1>11, <1>12, <1>13 DEF Inv, Linked

LEMMA SendInv ==
    ASSUME IInv, Send
    PROVE  Inv(q') /\ q'.time = q.time
<1>1. PICK f \in q.flows, length \in 0..MTU :
         ~q.freeing /\ q.input[f] = "none" /\ q' = SendInput(q, f, length)
    BY DEF Send
<1> DEFINE job == <<"operation", f>>
           newlen == [q.len EXCEPT ![f] = length]
           newinput == [q.input EXCEPT ![f] = "operation_pending"]
<1>2. /\ q \in FairType /\ Shape(q) /\ q.ok = TRUE /\ Order(q) /\ Distinct(q.jobs)
      /\ InputOK(q) /\ OutputOK(q) /\ TurnOK(q) /\ q.jobs \in Seq(Job)
    BY <1>1, Fact DEF IInv, Inv, Linked
<1>3. f \in Flow /\ f # None /\ job \in Job
    <2>1. f \in Flow /\ f # None
        BY Fact
    <2> QED
        BY <2>1 DEF Job
<1>4. /\ Set(q.jobs, job) \in Seq(Job) /\ Distinct(Set(q.jobs, job))
      /\ Pending(Set(q.jobs, job)) = Pending(q.jobs) \cup {job}
    BY <1>2, <1>3, SetJob
<1>5. /\ newlen \in [Flow -> 0..MTU] /\ newinput \in [Flow -> State]
      /\ \A g \in Flow : newinput[g] = IF g = f THEN "operation_pending" ELSE q.input[g]
    BY <1>2 DEF FairType, State
<1>6. q' = [q EXCEPT !.input = newinput, !.len = newlen,
                    !.jobs = Set(q.jobs, job), !.ok = TRUE]
    BY <1>1, <1>2 DEF SendInput, FairType
<1> HIDE DEF newlen, newinput
<1>7. q' \in FairType
    BY <1>2, <1>4, <1>5, <1>6 DEF FairType
<1>8. /\ q'.flows = q.flows /\ q'.time = q.time /\ q'.sending = q.sending
      /\ q'.previous = q.previous /\ q'.queued = q.queued
      /\ q'.jobs = Set(q.jobs, job) /\ q'.input = newinput /\ q'.output = q.output
      /\ q'.freeing = q.freeing /\ q'.ok = TRUE
    BY <1>2, <1>6 DEF FairType
<1>9. Shape(q') /\ Order(q')
    BY <1>2, <1>5, <1>7, <1>8 DEF Shape, Order
<1>10. InputOK(q')
    <2> SUFFICES ASSUME NEW g \in Flow
                 PROVE  /\ <<"operation", g>> \in Pending(q'.jobs)
                              <=> q'.input[g] = "operation_pending"
                        /\ <<"done", g>> \in Pending(q'.jobs)
                              <=> q'.input[g] = "done_pending"
                        /\ g \in q'.queued \cup {q'.sending} <=> q'.input[g] = "busy"
        BY DEF InputOK
    <2>1. /\ <<"operation", g>> \in Pending(q.jobs) <=> q.input[g] = "operation_pending"
          /\ <<"done", g>> \in Pending(q.jobs) <=> q.input[g] = "done_pending"
          /\ g \in q.queued \cup {q.sending} <=> q.input[g] = "busy"
        BY <1>2 DEF InputOK
    <2>2. <<"done", g>> # job /\ (g # f => <<"operation", g>> # job)
        OBVIOUS
    <2>3. CASE g = f
        BY <1>1, <1>4, <1>5, <1>8, <2>1, <2>2, <2>3
    <2>4. CASE g # f
        <3> HIDE DEF job
        <3> QED
            BY <1>4, <1>5, <1>8, <2>1, <2>2, <2>4
    <2> QED
        BY <2>3, <2>4
<1>11. OutputOK(q') /\ TurnOK(q')
    <2>1. \A kind : <<kind, None>> # job
        BY <1>3
    <2> HIDE DEF job
    <2>2. OutputOK(q')
        BY <1>2, <1>4, <1>8, <2>1 DEF OutputOK
    <2>3. TurnOK(q')
        BY <1>2, <1>4, <1>8, <2>1 DEF TurnOK
    <2> QED
        BY <2>2, <2>3
<1> QED
    BY <1>4, <1>8, <1>9, <1>10, <1>11 DEF Inv, Linked

LEMMA SetBusyHandlerInv ==
    ASSUME IInv, SetBusyHandler
    PROVE  Inv(q') /\ q'.time = q.time
<1>1. PICK f \in q.flows :
         ~q.freeing /\ q' = [q EXCEPT !.busy_handler = q.busy_handler \cup {f}]
    BY DEF SetBusyHandler
<1>2. /\ q \in FairType /\ Shape(q) /\ q.ok = TRUE /\ Order(q) /\ Distinct(q.jobs)
      /\ InputOK(q) /\ OutputOK(q) /\ TurnOK(q) /\ f \in Flow
    BY <1>1, Fact DEF IInv, Inv, Linked
<1>3. q' \in FairType
    BY <1>1, <1>2 DEF FairType
<1>4. /\ q'.flows = q.flows /\ q'.time = q.time /\ q'.sending = q.sending
      /\ q'.previous = q.previous /\ q'.queued = q.queued /\ q'.jobs = q.jobs
      /\ q'.input = q.input /\ q'.output = q.output /\ q'.freeing = q.freeing
      /\ q'.ok = TRUE
    BY <1>1, <1>2 DEF FairType
<1>5. Shape(q') /\ Order(q')
    BY <1>2, <1>3, <1>4 DEF Shape, Order
<1>6. InputOK(q')
    BY <1>2, <1>4, InputKept, Zenon
<1>7. OutputOK(q') /\ TurnOK(q')
    <2>1. OutputOK(q')
        BY <1>2, <1>4, Zenon DEF OutputOK
    <2>2. TurnOK(q')
        BY <1>2, <1>4, Zenon DEF TurnOK
    <2> QED
        BY <2>1, <2>2
<1> QED
    BY <1>2, <1>4, <1>5, <1>6, <1>7 DEF Inv, Linked

LEMMA PrepareFreeInv ==
    ASSUME IInv, PrepareFree
    PROVE  Inv(q') /\ q'.time = q.time
<1>1. q \in FairType /\ Shape(q) /\ q.ok = TRUE /\ Order(q) /\ Distinct(q.jobs)
    BY Fact DEF IInv, Inv
<1>2. /\ q' \in FairType /\ q'.flows = q.flows /\ q'.time = q.time
      /\ q'.sending = q.sending /\ q'.previous = q.previous /\ q'.queued = q.queued
      /\ q'.jobs = q.jobs /\ q'.input = q.input /\ q'.freeing = TRUE /\ q'.ok = TRUE
    BY <1>1 DEF PrepareFree, FairType
<1> QED
    BY <1>1, <1>2 DEF Inv, Shape, Order

LEMMA FreeInv ==
    ASSUME IInv, Free
    PROVE  Inv(q') /\ Backlogged(q') = {}
<1>1. /\ q \in FairType /\ Shape(q) /\ q.ok = TRUE /\ q.flows = {} /\ q.queued = {}
      /\ q.sending = None /\ q.previous = None
    BY Fact DEF Free, Shape
<1>2. <<>> \in Seq(Job) /\ Pending(<<>>) = {} /\ Distinct(<<>>)
    BY DEF Pending, Distinct
<1>3. q' = [q EXCEPT !.freeing = FALSE, !.jobs = <<>>, !.output = "none", !.ok = TRUE]
    BY <1>1 DEF Free, FairType
<1>4. /\ q' \in FairType /\ q'.flows = {} /\ q'.sending = None /\ q'.previous = None
      /\ q'.queued = {} /\ q'.jobs = <<>> /\ q'.input = q.input /\ q'.output = "none"
      /\ q'.ok = TRUE
    BY <1>1, <1>2, <1>3 DEF FairType, State
<1>5. \A f \in Flow : q'.input[f] = "none" /\ f # None
    BY <1>1, <1>4, FairQueueAssumption DEF Shape
<1>6. Shape(q') /\ Order(q')
    BY <1>4, <1>5 DEF Shape, Order
<1>7. InputOK(q')
    BY <1>2, <1>4, <1>5 DEF InputOK
<1>8. OutputOK(q') /\ TurnOK(q')
    BY <1>2, <1>4 DEF OutputOK, TurnOK
<1> QED
    BY <1>2, <1>4, <1>6, <1>7, <1>8 DEF Inv, Linked, Backlogged

LEMMA InitInv == Init => IInv
<1> SUFFICES ASSUME Init PROVE IInv
    OBVIOUS
<1>1. <<>> \in Seq(Job) /\ Pending(<<>>) = {} /\ Distinct(<<>>)
    BY DEF Pending, Distinct
<1>2. 0 \in Time /\ 0 \in 0..MTU
    BY FairQueueAssumption DEF Time
<1>3. /\ q \in FairType /\ q.flows = {} /\ q.sending = None /\ q.previous = None
      /\ q.queued = {} /\ q.jobs = <<>> /\ q.output = "none" /\ q.ok = TRUE
      /\ \A f \in Flow : q.input[f] = "none" /\ f # None
    BY <1>1, <1>2, FairQueueAssumption DEF Init, FairType, State
<1>4. Shape(q) /\ Order(q)
    BY <1>3 DEF Shape, Order
<1>5. InputOK(q)
    BY <1>1, <1>3 DEF InputOK
<1>6. OutputOK(q) /\ TurnOK(q)
    BY <1>1, <1>3 DEF OutputOK, TurnOK
<1> QED
    BY <1>1, <1>3, <1>4, <1>5, <1>6 DEF IInv, Inv, Linked

-----------------------------------------------------------------------------
(* What a step does to the balance of two flows that wait or send.          *)
Charge == \A f, g \in Backlogged(q) \cap Backlogged(q') :
             (q'.time[f] - Sent(f)) - (q'.time[g] - Sent(g)) = q.time[f] - q.time[g]

LEMMA NothingSent ==
    ASSUME IInv, Inv(q'),
           \A f \in Backlogged(q) \cap Backlogged(q') :
              q'.time[f] = q.time[f] /\ (q.sending = f => q'.sending = f)
    PROVE  Charge
<1> SUFFICES ASSUME NEW f \in Backlogged(q) \cap Backlogged(q'),
                    NEW g \in Backlogged(q) \cap Backlogged(q')
             PROVE  (q'.time[f] - Sent(f)) - (q'.time[g] - Sent(g)) = q.time[f] - q.time[g]
    BY DEF Charge
<1>1. f \in Flow /\ g \in Flow
    BY Fact DEF Backlogged, FairType
<1>2. q.time[f] \in Int /\ q.time[g] \in Int
    BY <1>1, Fact, FairQueueAssumption DEF FairType, Time
<1>3. Sent(f) = 0 /\ Sent(g) = 0
    BY DEF Sent
<1> QED
    BY <1>2, <1>3

(* A step other than the end of a packet leaves the flow being sent alone,  *)
(* unless the flow is freed.                                               *)
LEMMA SendingKept ==
    ASSUME IInv, Next, ~RunOutputDone, q.sending # None
    PROVE  q'.sending = q.sending \/ q.sending \notin q'.flows
<1>1. q \in FairType /\ Shape(q)
    BY Fact
<1>2. CASE NewFlow
    BY <1>1, <1>2 DEF NewFlow, Flow_Init, FairType
<1>3. CASE Send
    BY <1>1, <1>3 DEF Send, SendInput, FairType
<1>4. CASE FreeFlow
    <2>1. PICK f \in q.flows : q' = Flow_Free(q, f)
        BY <1>4 DEF FreeFlow
    <2>2. /\ q'.flows = q.flows \ {f}
          /\ q'.sending = IF q.sending = f THEN None ELSE q.sending
        BY <1>1, <2>1 DEF Flow_Free, FairType
    <2> QED
        BY <2>2
<1>5. CASE SetBusyHandler
    BY <1>1, <1>5 DEF SetBusyHandler, FairType
<1>6. CASE PrepareFree
    BY <1>1, <1>6 DEF PrepareFree, FairType
<1>7. CASE Free
    BY <1>1, <1>7 DEF Free, Shape
<1>8. CASE OutputDone
    BY <1>1, <1>8 DEF OutputDone, FairType
<1>9. CASE RunSchedule
    <2>1. <<"schedule", None>> \in Pending(q.jobs) /\ TurnOK(q)
        BY <1>9, Take DEF RunSchedule, Linked
    <2> QED
        BY <2>1 DEF TurnOK
<1>10. CASE RunOutput
    BY <1>1, <1>10 DEF RunOutput, Taken, FairType
<1>11. ASSUME NEW f \in Flow, RunInput(f) PROVE q'.sending = q.sending
    <2> DEFINE s == [Taken EXCEPT !.input[f] = "busy",
                                  !.ok = @ /\ f \in q.flows
                                           /\ q.input[f] = "operation_pending"]
    <2>1. q' = input_handler_send(s, f) /\ s.sending = q.sending
        BY <1>1, <1>11 DEF RunInput, Taken, FairType
    <2>2. DOMAIN s = DOMAIN q /\ "sending" \in DOMAIN s
        BY <1>1 DEF Taken, FairType
    <2> HIDE DEF s
    <2> QED
        BY <2>1, <2>2 DEF input_handler_send
<1>12. ASSUME NEW f \in Flow, RunDone(f) PROVE q'.sending = q.sending
    BY <1>1, <1>12 DEF RunDone, Taken, FairType
<1> QED
    BY <1>2, <1>3, <1>4, <1>5, <1>6, <1>7, <1>8, <1>9, <1>10, <1>11, <1>12 DEF Next, RunJob

LEMMA NextInv ==
    ASSUME IInv, Next
    PROVE  Inv(q') /\ Charge
<1>1. CASE RunOutputDone
    <2>1. /\ Inv(q') /\ q.sending \in Flow /\ q'.sending # q.sending
          /\ Backlogged(q') \subseteq Backlogged(q)
        BY <1>1, RunOutputDoneInv
    <2>2. PICK subtract \in Time :
             \A f \in Flow : f \in Backlogged(q') =>
                q'.time[f] = q.time[f] - subtract
                   + IF f = q.sending THEN packet_weight + q.len[f] ELSE 0
        BY <1>1, RunOutputDoneInv
    <2>3. q \in FairType /\ subtract \in Int
        BY Fact, FairQueueAssumption DEF Time
    <2>4. ASSUME NEW f \in Backlogged(q) \cap Backlogged(q')
          PROVE  /\ q.time[f] \in Int /\ Sent(f) \in Int
                 /\ q'.time[f] = q.time[f] - subtract + Sent(f)
        <3>1. f \in Flow
            BY <2>3 DEF Backlogged, FairType
        <3>2. Sent(f) = IF f = q.sending THEN packet_weight + q.len[f] ELSE 0
            BY <2>1 DEF Sent
        <3>3. q.time[f] \in Int /\ q.len[f] \in Int /\ packet_weight \in Int
            BY <2>3, <3>1, FairQueueAssumption DEF FairType, Time
        <3> QED
            BY <2>2, <2>4, <3>1, <3>2, <3>3
    <2>5. ASSUME NEW f \in Backlogged(q) \cap Backlogged(q'),
                 NEW g \in Backlogged(q) \cap Backlogged(q')
          PROVE  (q'.time[f] - Sent(f)) - (q'.time[g] - Sent(g)) = q.time[f] - q.time[g]
        <3>1. /\ q.time[f] \in Int /\ Sent(f) \in Int
              /\ q'.time[f] = q.time[f] - subtract + Sent(f)
            BY <2>4
        <3>2. /\ q.time[g] \in Int /\ Sent(g) \in Int
              /\ q'.time[g] = q.time[g] - subtract + Sent(g)
            BY <2>4
        <3> QED
            BY <2>3, <3>1, <3>2
    <2> QED
        BY <2>1, <2>5 DEF Charge
<1>2. CASE ~RunOutputDone
    <2>1. Backlogged(q) \subseteq Flow
        BY Fact DEF Backlogged, FairType
    <2>2. Inv(q') /\ \A f \in Backlogged(q) \cap Backlogged(q') : q'.time[f] = q.time[f]
        <3>1. CASE NewFlow
            BY <3>1, NewFlowInv
        <3>2. CASE Send
            BY <3>2, SendInv
        <3>3. CASE FreeFlow
            BY <2>1, <3>3, FreeFlowInv
        <3>4. CASE SetBusyHandler
            BY <3>4, SetBusyHandlerInv
        <3>5. CASE PrepareFree
            BY <3>5, PrepareFreeInv
        <3>6. CASE Free
            BY <3>6, FreeInv
        <3>7. CASE OutputDone
            BY <3>7, OutputDoneInv
        <3>8. CASE RunSchedule
            BY <3>8, RunScheduleInv
        <3>9. CASE RunOutput
            BY <3>9, RunOutputInv
        <3>10. ASSUME NEW f \in Flow, RunInput(f)
               PROVE  Inv(q') /\ \A g \in Backlogged(q) : q'.time[g] = q.time[g]
            BY <2>1, <3>10, RunInputInv
        <3>11. ASSUME NEW f \in Flow, RunDone(f)
               PROVE  Inv(q') /\ q'.time = q.time
            BY <3>11, RunDoneInv
        <3> QED
            BY <1>2, <3>1, <3>2, <3>3, <3>4, <3>5, <3>6, <3>7, <3>8, <3>9, <3>10, <3>11
               DEF Next, RunJob
    <2>3. \A f \in Backlogged(q) \cap Backlogged(q') :
             q.sending = f => q'.sending = f
        <3>1. Backlogged(q') \subseteq q'.flows
            BY <2>2 DEF Inv, Shape, Backlogged
        <3>2. None \notin Backlogged(q)
            BY <2>1, FairQueueAssumption
        <3> QED
            BY <1>2, <3>1, <3>2, SendingKept
    <2> QED
        BY <2>2, <2>3, NothingSent
<1> QED
    BY <1>1, <1>2

-----------------------------------------------------------------------------
(* IInv holds in every reachable state.                                    *)
THEOREM Invariance == Spec => []IInv
<1>1. IInv /\ [Next]_q => IInv'
    <2> SUFFICES ASSUME IInv, [Next]_q PROVE IInv'
        OBVIOUS
    <2>1. CASE Next
        BY <2>1, NextInv DEF IInv
    <2>2. CASE UNCHANGED q
        BY <2>2 DEF IInv
    <2> QED
        BY <2>1, <2>2
<1> QED
    BY <1>1, InitInv, PTL DEF Spec

(* Every reachable queue is well formed, and no time leaves its word.       *)
THEOREM FairTypeCorrect == Spec => []FairTypeOK
<1>1. IInv => FairTypeOK
    BY DEF IInv, Inv, Shape, FairTypeOK
<1> QED
    BY <1>1, Invariance, PTL

(* No ASSERT of the queue and of its interfaces ever fails, whatever the    *)
(* flows do between the jobs.                                              *)
THEOREM FairAssertsHold == Spec => []FairAsserts
<1>1. IInv => FairAsserts
    BY DEF IInv, Inv, FairAsserts
<1> QED
    BY <1>1, Invariance, PTL

(* No queued flow has paid less than the one whose packet is being sent.    *)
THEOREM LeastFirst == Spec => []LeastIsSent
<1>1. IInv => LeastIsSent
    BY DEF IInv, Inv, Order, LeastIsSent
<1> QED
    BY <1>1, Invariance, PTL

(* A step changes the balance of two backlogged flows by what is sent of    *)
(* them and nothing else, at any width of the clock.                       *)
THEOREM Charged == Spec => ChargedExactly
<1>1. IInv /\ [Next]_q =>
        [\A f, g \in Backlogged(q) \cap Backlogged(q') :
            (q'.time[f] - Sent(f)) - (q'.time[g] - Sent(g)) = q.time[f] - q.time[g]]_q
    BY NextInv DEF Charge
<1> QED
    BY <1>1, Invariance, PTL DEF Spec, ChargedExactly

(* The balance of two flows moves against one only by a packet of its own,   *)
(* and that is sent while the other has paid at least as much; whatever the *)
(* lengths and the weight, it is then ahead by that packet at most.         *)
THEOREM LagIsBounded == Spec => LagBounded
<1> DEFINE Lag == \A f, g \in Backlogged(q) \cap Backlogged(q') :
                     q'.time[f] - q'.time[g] <=
                        Largest(q.time[f] - q.time[g], packet_weight + MTU)
<1>1. ASSUME IInv, Next PROVE Lag
    <2> SUFFICES ASSUME NEW f \in Backlogged(q) \cap Backlogged(q'),
                        NEW g \in Backlogged(q) \cap Backlogged(q')
                 PROVE  q'.time[f] - q'.time[g] <=
                           Largest(q.time[f] - q.time[g], packet_weight + MTU)
        OBVIOUS
    <2>1. /\ Inv(q') /\ Charge /\ q \in FairType /\ q' \in FairType
          /\ f \in Flow /\ g \in Flow
        BY <1>1, NextInv, Fact DEF Inv, Shape, Backlogged, FairType
    <2>2. /\ q.time[f] \in Int /\ q.time[g] \in Int
          /\ q'.time[f] \in Int /\ q'.time[g] \in Int
        BY <2>1, FairQueueAssumption DEF FairType, Time
    <2>3. (q'.time[f] - Sent(f)) - (q'.time[g] - Sent(g)) = q.time[f] - q.time[g]
        BY <2>1 DEF Charge
    <2>4. /\ q.len[f] \in 0..MTU /\ q.len[g] \in 0..MTU
          /\ packet_weight \in Nat /\ MTU \in Nat
        BY <2>1, FairQueueAssumption DEF FairType
    <2>5. Sent(f) \in 0..(packet_weight + MTU) /\ Sent(g) \in 0..(packet_weight + MTU)
        BY <2>4 DEF Sent
    <2>6. CASE Sent(f) = 0
        BY <2>2, <2>3, <2>4, <2>5, <2>6 DEF Largest
    <2>7. CASE f = g
        BY <2>2, <2>4, <2>7 DEF Largest
    <2>8. CASE Sent(f) # 0 /\ f # g
        <3>1. q.sending = f /\ q'.sending # f /\ f # None
            BY <2>1, <2>8, FairQueueAssumption DEF Sent
        <3>2. Sent(g) = 0
            BY <2>8, <3>1 DEF Sent
        <3>3. RunOutputDone
            <4>1. f \in q'.flows
                BY <2>1 DEF Inv, Shape, Backlogged
            <4> QED
                BY <1>1, <3>1, <4>1, SendingKept
        <3>4. ~q.freeing
            BY <3>3 DEF RunOutputDone, Runs
        <3>5. g \in q.queued
            <4>1. TurnOK(q)
                BY <1>1, <3>4 DEF IInv, Inv, Linked
            <4>2. q.previous = None
                BY <3>1, <4>1 DEF TurnOK
            <4> QED
                BY <2>8, <3>1, <4>2 DEF Backlogged
        <3>6. q.time[f] <= q.time[g]
            BY <1>1, <3>1, <3>5 DEF IInv, Inv, Order
        <3> QED
            BY <2>2, <2>3, <2>4, <2>5, <3>2, <3>6 DEF Largest
    <2> QED
        BY <2>6, <2>7, <2>8
<1>2. IInv /\ [Next]_q => [Lag]_q
    BY <1>1
<1> QED
    BY <1>2, Invariance, PTL DEF Spec, LagBounded

(* Something always follows while packets wait: a lost job would stop every  *)
(* flow for good, since nothing but a job takes the next packet.           *)
THEOREM NothingIsForgotten == Spec => []NothingForgotten
<1>1. IInv => NothingForgotten
    <2> SUFFICES ASSUME IInv, ~q.freeing PROVE NothingForgotten
        BY DEF NothingForgotten
    <2>1. /\ InputOK(q) /\ OutputOK(q) /\ TurnOK(q)
          /\ q \in FairType /\ q.flows \subseteq Flow
        BY DEF IInv, Inv, Shape, Linked, FairType
    <2>2. \A job : job \in Pending(q.jobs) => Has(job)
        BY DEF Pending, Has, IsSet
    <2>3. q.queued # {} => q.sending # None \/ Has(<<"schedule", None>>)
        BY <2>1, <2>2 DEF TurnOK
    <2>4. q.sending # None => \/ q.output = "busy"
                              \/ Has(<<"operation", None>>)
                              \/ Has(<<"output done", None>>)
        BY <2>1, <2>2 DEF OutputOK, FairType, State
    <2>5. ASSUME NEW f \in q.flows, q.input[f] # "none"
          PROVE  \/ f \in q.queued \cup {q.sending}
                 \/ Has(<<"operation", f>>) \/ Has(<<"done", f>>)
        <3>1. f \in Flow /\ q.input[f] \in State
            BY <2>1 DEF FairType
        <3> QED
            BY <2>1, <2>2, <2>5, <3>1 DEF InputOK, State
    <2> QED
        BY <2>3, <2>4, <2>5 DEF NothingForgotten
<1> QED
    BY <1>1, Invariance, PTL
-----------------------------------------------------------------------------
(* The order of the jobs: a flow's done job is in front of the schedule job. *)
ScheduleJob == <<"schedule", None>>
DoneFirst(jobs) ==
    \A i \in 1..Len(jobs), f \in Flow : jobs[i] = <<"done", f>> =>
        \E j \in 1..Len(jobs) : j > i /\ jobs[j] = ScheduleJob

LEMMA UnsetFirst ==
    ASSUME NEW jobs \in Seq(Job), NEW job, job # ScheduleJob, DoneFirst(jobs)
    PROVE  DoneFirst(Unset(jobs, job))
<1>1. CASE ~IsSet(jobs, job)
    BY <1>1 DEF Unset
<1>2. CASE IsSet(jobs, job)
    <2> DEFINE i == CHOOSE n \in 1..Len(jobs) : jobs[n] = job
               u == Unset(jobs, job)
    <2>1. i \in 1..Len(jobs) /\ jobs[i] = job /\ Len(jobs) \in Nat
        BY <1>2 DEF IsSet
    <2>2. u = SubSeq(jobs, 1, i - 1) \o SubSeq(jobs, i + 1, Len(jobs))
        BY <1>2 DEF Unset
    <2> HIDE DEF i, u
    <2>3. /\ Len(u) = Len(jobs) - 1
          /\ \A j \in 1..Len(u) : u[j] = IF j < i THEN jobs[j] ELSE jobs[j + 1]
        BY <2>1, <2>2, SubSeqIndex
    <2>4. ASSUME NEW k \in 1..Len(u), NEW f \in Flow, u[k] = <<"done", f>>
          PROVE  \E j \in 1..Len(u) : j > k /\ u[j] = ScheduleJob
        <3>1. PICK k0 \in 1..Len(jobs) : jobs[k0] = u[k] /\ k0 = IF k < i THEN k ELSE k + 1
            BY <2>1, <2>3
        <3>2. PICK j0 \in 1..Len(jobs) : j0 > k0 /\ jobs[j0] = ScheduleJob
            BY <2>4, <3>1 DEF DoneFirst
        <3>3. j0 # i
            BY <2>1, <3>2
        <3>4. CASE j0 < i
            <4>1. j0 \in 1..Len(u) /\ j0 > k
                BY <2>1, <2>3, <3>1, <3>2, <3>4
            <4> QED
                BY <2>3, <3>2, <3>4, <4>1
        <3>5. CASE j0 > i
            <4>1. /\ j0 - 1 \in 1..Len(u) /\ j0 - 1 > k /\ ~(j0 - 1 < i)
                  /\ (j0 - 1) + 1 = j0
                BY <2>1, <2>3, <3>1, <3>2, <3>5
            <4>2. u[j0 - 1] = ScheduleJob
                BY <2>3, <3>2, <4>1
            <4> QED
                BY <4>1, <4>2
        <3> QED
            BY <2>1, <3>3, <3>4, <3>5
    <2> QED
        BY <2>4 DEF DoneFirst, u
<1> QED
    BY <1>1, <1>2

(* A job is put in front; for that of a flow that is done, the schedule job  *)
(* has to be there.                                                        *)
LEMMA SetFirst ==
    ASSUME NEW jobs \in Seq(Job), Distinct(jobs), NEW job \in Job, job # ScheduleJob, DoneFirst(jobs),
           (\A f \in Flow : job # <<"done", f>>) \/ ScheduleJob \in Pending(jobs)
    PROVE  DoneFirst(Set(jobs, job))
<1> DEFINE u == Unset(jobs, job)
           t == <<job>> \o u
<1>1. u \in Seq(Job) /\ DoneFirst(u) /\ Pending(u) = Pending(jobs) \ {job}
    BY UnsetJob, UnsetFirst
<1> HIDE DEF u
<1>2. /\ Len(t) = 1 + Len(u) /\ Len(u) \in Nat
      /\ \A j \in 1..Len(t) : t[j] = IF j = 1 THEN job ELSE u[j - 1]
    BY <1>1
<1> HIDE DEF t
<1>3. ASSUME NEW k \in 1..Len(u) PROVE k + 1 \in 1..Len(t) /\ t[k + 1] = u[k]
    <2>1. k + 1 \in 1..Len(t) /\ k + 1 # 1 /\ (k + 1) - 1 = k
        BY <1>2
    <2> QED
        BY <1>2, <2>1
<1>4. ASSUME NEW i \in 1..Len(t), NEW f \in Flow, t[i] = <<"done", f>>
      PROVE  \E j \in 1..Len(t) : j > i /\ t[j] = ScheduleJob
    <2>1. CASE i = 1
        <3>1. ScheduleJob \in Pending(u)
            BY <1>1, <1>2, <1>4, <2>1
        <3>2. PICK k \in 1..Len(u) : u[k] = ScheduleJob
            BY <3>1 DEF Pending
        <3> QED
            BY <1>2, <1>3, <2>1, <3>2
    <2>2. CASE i # 1
        <3>1. i - 1 \in 1..Len(u) /\ u[i - 1] = <<"done", f>>
            BY <1>2, <1>4, <2>2
        <3>2. PICK k \in 1..Len(u) : k > i - 1 /\ u[k] = ScheduleJob
            BY <1>1, <3>1 DEF DoneFirst
        <3>3. k + 1 > i
            BY <1>2, <3>2
        <3> QED
            BY <1>3, <3>2, <3>3
    <2> QED
        BY <2>1, <2>2
<1> QED
    BY <1>4 DEF DoneFirst, Set, t, u

LEMMA TailFirst ==
    ASSUME NEW jobs \in Seq(Job), jobs # <<>>, DoneFirst(jobs)
    PROVE  DoneFirst(Tail(jobs))
<1> DEFINE t == Tail(jobs)
<1>1. /\ Len(t) = Len(jobs) - 1 /\ Len(jobs) \in Nat
      /\ \A j \in 1..Len(t) : t[j] = jobs[j + 1]
    OBVIOUS
<1> HIDE DEF t
<1>2. ASSUME NEW i \in 1..Len(t), NEW f \in Flow, t[i] = <<"done", f>>
      PROVE  \E j \in 1..Len(t) : j > i /\ t[j] = ScheduleJob
    <2>1. i + 1 \in 1..Len(jobs) /\ jobs[i + 1] = <<"done", f>>
        BY <1>1, <1>2
    <2>2. PICK j \in 1..Len(jobs) : j > i + 1 /\ jobs[j] = ScheduleJob
        BY <2>1 DEF DoneFirst
    <2>3. j - 1 \in 1..Len(t) /\ j - 1 > i /\ (j - 1) + 1 = j
        BY <1>1, <2>2
    <2>4. t[j - 1] = ScheduleJob
        BY <1>1, <2>2, <2>3
    <2> QED
        BY <2>3, <2>4
<1> QED
    BY <1>2 DEF DoneFirst, t

(* Nothing is done, so the schedule job may come in front.                  *)
LEMMA NoneFirst ==
    ASSUME NEW jobs \in Seq(Job), \A f \in Flow : <<"done", f>> \notin Pending(jobs)
    PROVE  DoneFirst(jobs)
    BY DEF DoneFirst, Pending

LEMMA NoSchedule ==
    ASSUME NEW jobs \in Seq(Job), DoneFirst(jobs), ScheduleJob \notin Pending(jobs), NEW f \in Flow
    PROVE  <<"done", f>> \notin Pending(jobs)
    BY DEF DoneFirst, Pending

(* What the functions of the queue do to the list.                          *)
LEMMA ScheduleJobs ==
    ASSUME NEW s, DOMAIN s = Fields
    PROVE  schedule(s).jobs = Set(s.jobs, <<"operation", None>>)
    BY DEF schedule, SendOutput, Fields

LEMMA FreeJobs ==
    ASSUME NEW s, DOMAIN s = Fields, NEW f
    PROVE  Flow_Free(s, f).jobs = Unset(Unset(s.jobs, <<"operation", f>>), <<"done", f>>)
    BY DEF Flow_Free, Fields

LEMMA SentJobs ==
    ASSUME NEW s, DOMAIN s = Fields, NEW f
    PROVE  \/ input_handler_send(s, f).jobs = s.jobs
           \/ input_handler_send(s, f).jobs = Set(s.jobs, <<"operation", None>>)
<1> DEFINE current == get_current_time(s)
           queued == [s EXCEPT
                     !.previous = IF @ = f THEN None ELSE @,
                     !.time[f] = IF f # s.previous /\ @ < current
                                    THEN current ELSE @,
                     !.queued = @ \cup {f},
                     !.ok = @ /\ f # s.sending /\ f \notin s.queued
                              /\ ~s.freeing]
<1>1. DOMAIN queued = Fields /\ queued.jobs = s.jobs
    BY DEF Fields
<1>2. input_handler_send(s, f) = IF s.sending = None /\ ~IsSet(s.jobs, <<"schedule", None>>)
                                 THEN schedule(queued) ELSE queued
    BY DEF input_handler_send
<1> HIDE DEF queued
<1> QED
    BY <1>1, <1>2, ScheduleJobs

LEMMA DoneJobs ==
    ASSUME NEW s, DOMAIN s = Fields
    PROVE  LET t == Set(Set(s.jobs, ScheduleJob), <<"done", s.sending>>)
           IN  \/ output_handler_done(s).jobs = t
               \/ output_handler_done(s).jobs =
                     Unset(Unset(t, <<"operation", s.sending>>), <<"done", s.sending>>)
<1> DEFINE flow == s.sending
           r == [s EXCEPT !.sending = None, !.previous = flow,
                          !.ok = @ /\ flow # None /\ s.previous = None
                                   /\ ~IsSet(s.jobs, <<"schedule", None>>)
                                   /\ ~s.freeing /\ flow \notin s.queued]
           c == increment_sent_flow(r, flow, packet_weight + s.len[flow])
           d == [c EXCEPT !.jobs = Set(@, <<"schedule", None>>)]
           told == DoneInput(d, flow)
<1>1. DOMAIN r = Fields /\ r.jobs = s.jobs
    BY DEF Fields
<1>2. output_handler_done(s) = IF flow \in s.busy_handler THEN Flow_Free(told, flow) ELSE told
    BY DEF output_handler_done
<1> HIDE DEF r
<1>3. DOMAIN c = Fields /\ c.jobs = r.jobs
    BY <1>1 DEF increment_sent_flow, Fields
<1> HIDE DEF c
<1>4. DOMAIN d = Fields /\ d.jobs = Set(s.jobs, ScheduleJob)
    BY <1>1, <1>3 DEF Fields, ScheduleJob
<1> HIDE DEF d
<1>5. DOMAIN told = Fields /\ told.jobs = Set(d.jobs, <<"done", flow>>)
    BY <1>4 DEF DoneInput, Fields
<1> HIDE DEF told
<1> QED
    BY <1>2, <1>4, <1>5, FreeJobs

LEMMA FirstInv ==
    ASSUME IInv, DoneFirst(q.jobs), Next
    PROVE  DoneFirst(q'.jobs)
<1>1. DOMAIN q = Fields /\ q.jobs \in Seq(Job) /\ Distinct(q.jobs)
    BY Fact DEF IInv, Inv, FairType, Fields
<1>2. \A f \in Flow : <<"done", f>> # ScheduleJob /\ <<"operation", f>> # ScheduleJob
    BY OtherJobs DEF ScheduleJob
<1>3. /\ <<"operation", None>> # ScheduleJob /\ <<"output done", None>> # ScheduleJob
      /\ ScheduleJob \in Job /\ <<"operation", None>> \in Job /\ <<"output done", None>> \in Job
      /\ \A f \in Flow : /\ <<"operation", None>> # <<"done", f>>
                         /\ <<"output done", None>> # <<"done", f>>
    BY DEF ScheduleJob, Job
<1>4. \A f \in Flow : <<"done", f>> \in Job /\ <<"operation", f>> \in Job
    BY DEF Job
<1>5. ASSUME NEW f \in Flow, NEW jobs \in Seq(Job), Distinct(jobs), DoneFirst(jobs)
      PROVE  DoneFirst(Unset(Unset(jobs, <<"operation", f>>), <<"done", f>>))
    BY <1>2, <1>5, UnsetJob, UnsetFirst
<1>6. ASSUME NEW jobs \in Seq(Job), Distinct(jobs), DoneFirst(jobs)
      PROVE  DoneFirst(Set(jobs, <<"operation", None>>))
    BY <1>3, <1>6, SetFirst
<1>7. ASSUME NEW job, Runs(job)
      PROVE  /\ Tail(q.jobs) \in Seq(Job) /\ Distinct(Tail(q.jobs)) /\ DoneFirst(Tail(q.jobs))
             /\ DOMAIN Taken = Fields /\ Taken.jobs = Tail(q.jobs) /\ Taken.sending = q.sending
    BY <1>1, <1>7, Take, TailFirst DEF Runs, Taken, Fields
<1>8. CASE NewFlow \/ SetBusyHandler \/ PrepareFree
    BY <1>1, <1>8 DEF NewFlow, Flow_Init, SetBusyHandler, PrepareFree, Fields
<1>9. CASE Send
    <2>1. PICK f \in q.flows, n \in 0..MTU : q' = SendInput(q, f, n)
        BY <1>9 DEF Send
    <2>2. f \in Flow /\ q'.jobs = Set(q.jobs, <<"operation", f>>)
        BY <1>1, <2>1, Fact DEF SendInput, Fields
    <2>3. \A g \in Flow : <<"operation", f>> # <<"done", g>>
        OBVIOUS
    <2> QED
        BY <1>1, <1>2, <1>4, <2>2, <2>3, SetFirst
<1>10. CASE FreeFlow
    <2>1. PICK f \in q.flows : q' = Flow_Free(q, f)
        BY <1>10 DEF FreeFlow
    <2>2. f \in Flow
        BY Fact
    <2> QED
        BY <1>1, <1>5, <2>1, <2>2, FreeJobs
<1>11. CASE Free
    BY <1>1, <1>11 DEF Free, Fields, DoneFirst
<1>12. CASE OutputDone
    <2>1. q'.jobs = Set(q.jobs, <<"output done", None>>)
        BY <1>1, <1>12 DEF OutputDone, Fields
    <2> QED
        BY <1>1, <1>3, <2>1, SetFirst
<1>13. CASE RunSchedule
    <2> DEFINE ready == [Taken EXCEPT !.previous = None,
                           !.ok = @ /\ Taken.sending = None /\ ~Taken.freeing]
    <2>1. Runs(<<"schedule", None>>) /\ q' = IF Taken.queued = {} THEN ready ELSE schedule(ready)
        BY <1>13 DEF RunSchedule, schedule_job_handler
    <2>2. DOMAIN ready = Fields /\ ready.jobs = Tail(q.jobs)
        BY <1>7, <2>1 DEF Fields
    <2> HIDE DEF ready
    <2> QED
        BY <1>6, <1>7, <2>1, <2>2, ScheduleJobs
<1>14. CASE RunOutput
    BY <1>7, <1>14 DEF RunOutput, Fields
<1>15. CASE RunOutputDone
    <2> DEFINE s == [Taken EXCEPT !.output = "none"]
               a == Set(Tail(q.jobs), ScheduleJob)
               flow == q.sending
               t == Set(a, <<"done", flow>>)
    <2>1. Runs(<<"output done", None>>) /\ q' = output_handler_done(s)
        BY <1>15 DEF RunOutputDone
    <2>2. DOMAIN s = Fields /\ s.jobs = Tail(q.jobs) /\ s.sending = flow
        BY <1>7, <2>1 DEF Fields
    <2>3. /\ q.sending \in Flow /\ ScheduleJob \notin Pending(q.jobs)
          /\ Pending(Tail(q.jobs)) \subseteq Pending(q.jobs)
        <3>1. OutputOK(q) /\ TurnOK(q) /\ <<"output done", None>> \in Pending(q.jobs)
              /\ Pending(Tail(q.jobs)) = Pending(q.jobs) \ {<<"output done", None>>}
            BY <2>1, Take DEF Linked
        <3>2. q.sending # None
            BY <3>1 DEF OutputOK
        <3> QED
            BY <3>1, <3>2, Fact DEF TurnOK, ScheduleJob, FairType
    <2>4. \A f \in Flow : <<"done", f>> \notin Pending(q.jobs)
        BY <1>1, <2>3, NoSchedule
    <2>5. a \in Seq(Job) /\ Distinct(a) /\ Pending(a) = Pending(Tail(q.jobs)) \cup {ScheduleJob}
        BY <1>3, <1>7, <2>1, SetJob
    <2> HIDE DEF a, s, flow
    <2>6. DoneFirst(a)
        BY <1>2, <2>3, <2>4, <2>5, NoneFirst
    <2>7. t \in Seq(Job) /\ Distinct(t) /\ DoneFirst(t) /\ flow \in Flow
        <3>1. flow \in Flow /\ <<"done", flow>> \in Job /\ <<"done", flow>> # ScheduleJob
            BY <1>2, <1>4, <2>3 DEF flow
        <3>2. ScheduleJob \in Pending(a)
            BY <2>5
        <3> QED
            BY <2>5, <2>6, <3>1, <3>2, SetJob, SetFirst
    <2>8. \/ q'.jobs = t
          \/ q'.jobs = Unset(Unset(t, <<"operation", flow>>), <<"done", flow>>)
        BY <2>1, <2>2, DoneJobs DEF a
    <2> HIDE DEF t
    <2> QED
        BY <1>5, <2>7, <2>8
<1>16. ASSUME NEW f \in Flow, RunInput(f) PROVE DoneFirst(q'.jobs)
    <2> DEFINE s == [Taken EXCEPT !.input[f] = "busy",
                                  !.ok = @ /\ f \in q.flows
                                           /\ q.input[f] = "operation_pending"]
    <2>1. Runs(<<"operation", f>>) /\ q' = input_handler_send(s, f)
        BY <1>16 DEF RunInput
    <2>2. DOMAIN s = Fields /\ s.jobs = Tail(q.jobs)
        BY <1>7, <2>1 DEF Fields
    <2> HIDE DEF s
    <2> QED
        BY <1>6, <1>7, <2>1, <2>2, SentJobs
<1>17. ASSUME NEW f \in Flow, RunDone(f) PROVE DoneFirst(q'.jobs)
    BY <1>7, <1>17 DEF RunDone, Fields
<1> QED
    BY <1>8, <1>9, <1>10, <1>11, <1>12, <1>13, <1>14, <1>15, <1>16, <1>17 DEF Next, RunJob

(* A flow that has sent its packet is told before the queue chooses, in any  *)
(* order of jobs: it may queue its next one without losing its turn.        *)
THEOREM ToldFirst == Spec => []ToldBeforeNext
<1>1. Init => DoneFirst(q.jobs)
    BY DEF Init, DoneFirst
<1>2. IInv /\ DoneFirst(q.jobs) /\ [Next]_q => DoneFirst(q.jobs)'
    BY FirstInv
<1>3. IInv /\ DoneFirst(q.jobs) => ToldBeforeNext
    <2> SUFFICES ASSUME IInv, DoneFirst(q.jobs), q.sending # None, ~q.freeing,
                        NEW f \in Flow, q.input[f] = "done_pending"
                 PROVE  FALSE
        BY DEF ToldBeforeNext
    <2>1. Linked(q) /\ q.jobs \in Seq(Job)
        BY Fact
    <2>2. <<"done", f>> \in Pending(q.jobs) /\ ScheduleJob \notin Pending(q.jobs)
        BY <2>1 DEF Linked, InputOK, TurnOK, ScheduleJob
    <2> QED
        BY <2>1, <2>2, NoSchedule
<1> QED
    BY <1>1, <1>2, <1>3, Invariance, PTL DEF Spec
=============================================================================
