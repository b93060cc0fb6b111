------------------------------- MODULE Timer -------------------------------
(***************************************************************************)
(* The timer wheel of kernel/time/timer.c, driven by the periodic tick and *)
(* by TIMER_SOFTIRQ of Softirq, in a build without NO_HZ.                  *)
(*                                                                         *)
(* What timer_base.lock protects is one record base, and what runs under   *)
(* the lock is an operator on it.  Times are unsigned and wrap.            *)
(***************************************************************************)
EXTENDS Softirq

CONSTANTS
  Timers,
  IrqSafe,         \* those with TIMER_IRQSAFE
  LVL_BITS, LVL_CLK_SHIFT, LVL_DEPTH,   \* 6, 3 and 9 in the code
  BITS_PER_LONG,   \* the width of jiffies
  MaxLag,          \* bound: ticks that the wheel is behind
  Uses             \* how timers and softirqs are used

VARIABLES
  use,      \* one of Uses
  jiffies,
  base,     \* timer_base, with expires and the index in flags of each timer
  call,     \* mod_timer() of a task and of a timer's function, before the lock
  armed     \* history: the expiry each timer was last armed for, and how

vars == <<softirqvars, use, jiffies, base, call, armed>>

WRAP == 2^BITS_PER_LONG
LVL_SIZE == 2^LVL_BITS
LVL_GRAN(n) == 2^(n * LVL_CLK_SHIFT)
LVL_START(n) == (LVL_SIZE - 1) * 2^((n - 1) * LVL_CLK_SHIFT)
WHEEL_TIMEOUT_CUTOFF == LVL_START(LVL_DEPTH)
WHEEL_TIMEOUT_MAX == WHEEL_TIMEOUT_CUTOFF - LVL_GRAN(LVL_DEPTH - 1)
WHEEL_SIZE == LVL_SIZE * LVL_DEPTH

(* A level is visited as a whole before it is used again, and the levels   *)
(* fit into half of the range of jiffies.                                  *)
ASSUME TimerAssumption ==
  /\ LVL_BITS >= LVL_CLK_SHIFT /\ LVL_DEPTH > 1
  /\ WRAP % (LVL_SIZE * LVL_GRAN(LVL_DEPTH - 1)) = 0
  /\ WHEEL_TIMEOUT_CUTOFF <= WRAP \div 2
  /\ \A u \in Uses : u.tasklets \subseteq Tasklets
  /\ None \notin {"collect", "fn", "irqsafe"}

(* The difference of two times, as a long. *)
Diff(a, b) == LET d == (a - b) % WRAP IN IF d < WRAP \div 2 THEN d ELSE d - WRAP
time_after(a, b) == Diff(b, a) < 0
time_after_eq(a, b) == Diff(a, b) >= 0

-----------------------------------------------------------------------------
(* Mutant: the expiry is not rounded up to the level's granularity. *)
calc_indexDown(expires, lvl) ==
  lvl * LVL_SIZE + ((expires \div LVL_GRAN(lvl)) % LVL_SIZE)

calc_index(expires, lvl) ==
  lvl * LVL_SIZE + (((expires + LVL_GRAN(lvl)) \div LVL_GRAN(lvl)) % LVL_SIZE)

calc_wheel_index(expires, clk) ==
  LET delta == (expires - clk) % WRAP
      fits == {n \in 0 .. LVL_DEPTH - 2 : delta < LVL_START(n + 1)}
  IN IF fits # {} THEN calc_index(expires, Min(fits))
     ELSE IF Diff(expires, clk) < 0 THEN clk % LVL_SIZE
     ELSE calc_index(IF expires >= WHEEL_TIMEOUT_CUTOFF THEN WHEEL_TIMEOUT_MAX ELSE expires,
                     LVL_DEPTH - 1)

(* The last level: calc_wheel_index() limits the time it expires, not the  *)
(* time that is left, so these timers go anywhere.                         *)
Obscene(expires, clk) ==
  /\ Diff(expires, clk) >= LVL_START(LVL_DEPTH - 1)
  /\ expires >= WHEEL_TIMEOUT_CUTOFF \/ Diff(expires, clk) >= WHEEL_TIMEOUT_CUTOFF

timer_pending(b, t) ==
  t \in Range(b.heads) \/ \E i \in DOMAIN b.vectors : t \in Range(b.vectors[i])

enqueue_timer(b, t, i) ==
  [b EXCEPT !.vectors[i] = <<t>> \o @, !.pending_map = @ \cup {i}, !.idx[t] = i]

(* A timer that was collected to be expired is on no vector any more. *)
detach_if_pending(b, t) ==
  [b EXCEPT !.vectors[b.idx[t]] = ListDel(@, t), !.heads = ListDel(@, t),
            !.pending_map = IF b.vectors[b.idx[t]] = <<t>> THEN @ \ {b.idx[t]} ELSE @]

(* What nobody reads of a timer that is not pending is forgotten. *)
Forget(b, t) ==
  IF \E c \in DOMAIN call : call[c].t = t THEN b
  ELSE [b EXCEPT !.expires[t] = 0, !.idx[t] = 0]

-----------------------------------------------------------------------------
(* A call of __mod_timer(), and whether it saw the timer pending. *)
NoCall == [t |-> None]

(* The part of __mod_timer() under the lock does one of these. *)
Outcome(b, m) ==
  IF m.hot /\ m.opt = "REDUCE" /\ timer_pending(b, m.t) /\ ~time_after(b.expires[m.t], m.expires)
  THEN "kept"
  ELSE IF m.hot /\ calc_wheel_index(m.expires, b.clk) = b.idx[m.t] THEN "same"
  ELSE IF m.opt = "PENDING_ONLY" /\ ~timer_pending(b, m.t) THEN "kept"
  ELSE "enqueued"

__mod_timer(b, m) ==
  LET t == m.t
      reduced == m.opt # "REDUCE" \/ time_after(b.expires[t], m.expires)
  IN CASE Outcome(b, m) = "kept" -> b
       [] Outcome(b, m) = "same" -> [b EXCEPT !.expires[t] = IF reduced THEN m.expires ELSE @]
       [] OTHER -> enqueue_timer([detach_if_pending(b, t) EXCEPT !.expires[t] = m.expires],
                                 t, calc_wheel_index(m.expires, b.clk))

(* What that means for the timer.  When the index is that of the timer,    *)
(* the code leaves the timer where it is, which need not be the wheel.     *)
Armed(b, m) ==
  LET new == __mod_timer(b, m).expires[m.t]
      how == IF Obscene(new, b.clk) THEN "obscene" ELSE "wheel"
  IN CASE Outcome(b, m) = "kept" -> armed
       [] Outcome(b, m) = "same" ->
            [armed EXCEPT ![m.t] =
              [at |-> new,
               how |-> IF m.t \in Range(b.vectors[b.idx[m.t]]) THEN how ELSE "missed"]]
       [] OTHER -> [armed EXCEPT ![m.t] = [at |-> new, how |-> how]]
NotArmed == [at |-> None, how |-> None]

(* mod_timer(), mod_timer_pending() and timer_reduce(): what they do       *)
(* without the lock.  They return at once if there is nothing to change.   *)
NothingToDo(m) ==
  /\ m.hot
  /\ \/ m.expires = base.expires[m.t]
     \/ m.opt = "REDUCE" /\ Diff(base.expires[m.t], m.expires) <= 0

Calls == {[t |-> t, expires |-> (jiffies + d) % WRAP, opt |-> o, hot |-> timer_pending(base, t),
           late |-> 0] :
            t \in use.timers, d \in use.delays, o \in use.opts}

MayCall(c) ==
  IF c = "task" THEN Free /\ bh = "on" ELSE sirq.at \in {"fn", "irqsafe"}

ModTimer(c, m) ==
  /\ c \in use.callers /\ MayCall(c) /\ call[c] = NoCall /\ ~NothingToDo(m)
  /\ call' = [call EXCEPT ![c] = m]
  /\ UNCHANGED <<softirqvars, use, jiffies, base, armed>>

ModTimerLocked(c) ==
  /\ MayCall(c) /\ call[c] # NoCall
  /\ base' = __mod_timer(base, call[c])
  /\ armed' = Armed(base, call[c])
  /\ call' = [call EXCEPT ![c] = NoCall]
  /\ UNCHANGED <<softirqvars, use, jiffies>>

(* del_timer(), which is del_timer_sync() on UP; try_to_del_timer_sync()   *)
(* does the same, or nothing if the timer is the running one.              *)
Deleted(t) ==
  /\ base' = Forget(detach_if_pending(base, t), t)
  /\ armed' = [armed EXCEPT ![t] = NotArmed]

DelTimer(c, t) ==
  /\ use.del /\ c \in use.callers /\ MayCall(c) /\ call[c] = NoCall
  /\ timer_pending(base, t)
  /\ Deleted(t)
  /\ UNCHANGED <<softirqvars, use, jiffies, call>>

(* The same in a hardirq, where nothing comes in between. *)
TimerIrq ==
  /\ IrqsOn /\ "irq" \in use.callers
  /\ \/ \E m \in Calls :
          ~NothingToDo(m) /\ base' = __mod_timer(base, m) /\ armed' = Armed(base, m)
     \/ \E t \in use.timers :
          use.del /\ timer_pending(base, t) /\ Deleted(t)
  /\ IrqExit(pending)
  /\ UNCHANGED <<bh, current, ksoftirqd, tasklet, use, jiffies, call>>

-----------------------------------------------------------------------------
(* The vectors pending after run_local_timers() at j. *)
run_local_timers(j) == IF time_after(base.clk, j) THEN pending ELSE pending \cup {"TIMER"}

(* The tick: do_timer(), and update_process_times(). *)
Tick ==
  /\ use.tick /\ IrqsOn /\ Diff(jiffies, base.clk) < MaxLag
  /\ \A c \in DOMAIN call : call[c] # NoCall => call[c].late < use.late
  /\ jiffies' = (jiffies + 1) % WRAP
  /\ IrqExit(run_local_timers(jiffies'))
  /\ call' = [c \in DOMAIN call |->
                IF call[c] = NoCall THEN NoCall ELSE [call[c] EXCEPT !.late = @ + 1]]
  /\ UNCHANGED <<bh, current, ksoftirqd, tasklet, use, base, armed>>

(* run_timer_softirq(), up to the lock in __run_timers(). *)
RunTimerSoftirq ==
  /\ sirq.vec = "TIMER" /\ sirq.at = "start"
  /\ sirq' = IF time_after_eq(jiffies, base.clk) THEN [sirq EXCEPT !.at = "collect"] ELSE Handled
  /\ UNCHANGED <<pending, bh, current, ksoftirqd, tasklet, use, jiffies, base, call, armed>>

(* The levels whose clock has just advanced. *)
Levels(clk) == {n \in 0 .. LVL_DEPTH - 1 : clk % LVL_GRAN(n) = 0}

(* collect_expired_timers() and clk++; the highest level is expired first. *)
Collect(b) ==
  LET index == [n \in Levels(b.clk) |-> n * LVL_SIZE + ((b.clk \div LVL_GRAN(n)) % LVL_SIZE)]
      due == {n \in Levels(b.clk) : index[n] \in b.pending_map}
      from == {index[n] : n \in due}
      below[n \in 0 .. LVL_DEPTH] ==
        IF n = 0 THEN <<>>
        ELSE (IF n - 1 \in due THEN b.vectors[index[n - 1]] ELSE <<>>) \o below[n - 1]
  IN [b EXCEPT !.heads = below[LVL_DEPTH],
               !.vectors = [i \in DOMAIN @ |-> IF i \in from THEN <<>> ELSE @[i]],
               !.pending_map = @ \ from,
               !.clk = (@ + 1) % WRAP]

(* An iteration of expire_timers(), up to the call of the timer's function.*)
Expire(t) ==
  /\ base' = Forget([base EXCEPT !.running = t, !.heads = Tail(@)], t)
  /\ armed' = [armed EXCEPT ![t] = NotArmed]
  /\ sirq' = [sirq EXCEPT !.at = IF t \in IrqSafe THEN "irqsafe" ELSE "fn"]

(* The loop of __run_timers(). *)
RunTimers ==
  /\ sirq.at = "collect"
  /\ IF base.heads # <<>> THEN Expire(Head(base.heads))
     ELSE IF time_after_eq(jiffies, base.clk) THEN
       base' = Collect(base) /\ UNCHANGED <<sirq, armed>>
     ELSE
       base' = [base EXCEPT !.running = None] /\ sirq' = Handled /\ UNCHANGED armed
  /\ UNCHANGED <<pending, bh, current, ksoftirqd, tasklet, use, jiffies, call>>

(* The function returns. *)
FnDone ==
  /\ sirq.at \in {"fn", "irqsafe"} /\ call["softirq"] = NoCall
  /\ sirq' = [sirq EXCEPT !.at = "collect"]
  /\ UNCHANGED <<pending, bh, current, ksoftirqd, tasklet, use, jiffies, base, call, armed>>

-----------------------------------------------------------------------------
(* jiffies starts a little before it wraps. *)
Init ==
  /\ use \in Uses
  /\ SoftirqInit
  /\ jiffies = WRAP - 3
  /\ base = [clk |-> jiffies, heads |-> <<>>, running |-> None, pending_map |-> {},
             vectors |-> [i \in 0 .. WHEEL_SIZE - 1 |-> <<>>],
             expires |-> [t \in Timers |-> 0], idx |-> [t \in Timers |-> 0]]
  /\ call = [c \in {"task", "softirq"} |-> NoCall]
  /\ armed = [t \in Timers |-> NotArmed]

TimerStep == RunTimerSoftirq \/ RunTimers \/ ModTimerLocked("softirq")

(* The task switches only outside mod_timer(). *)
Elsewhere == UNCHANGED <<use, jiffies, base, call, armed>>
Tasks ==
  \/ use.bh /\ BhDisable
  \/ TaskStep
  \/ SwitchTo /\ call["task"] = NoCall
  \/ SwitchBack
  \/ \E t \in use.tasklets :
       \/ TaskletSet("task", t) \/ TaskletSet("func", t) \/ TaskletScheduleIrq(t)
       \/ TaskletDisable(t) \/ TaskletKill(t)

Next ==
  \/ (SoftirqStep \/ KsoftirqdStep \/ Tasks) /\ Elsewhere
  \/ TimerStep \/ FnDone \/ Tick \/ TimerIrq \/ ModTimerLocked("task")
  \/ \E c \in {"task", "softirq"} :
       (\E m \in Calls : ModTimer(c, m)) \/ \E t \in use.timers : DelTimer(c, t)

Spec == Init /\ [][Next]_vars

(* Handlers, ksoftirqd and the task go on when they can, the scheduler     *)
(* lets both run, functions return, and the clock ticks.                   *)
FairSpec ==
  /\ Spec
  /\ WF_vars((SoftirqStep /\ Elsewhere) \/ TimerStep)
  /\ SF_vars(FnDone)
  /\ SF_vars(KsoftirqdStep /\ Elsewhere)
  /\ SF_vars(SwitchTo /\ Elsewhere) /\ SF_vars(SwitchBack /\ Elsewhere)
  /\ SF_vars((TaskStep /\ Elsewhere) \/ ModTimerLocked("task"))
  /\ SF_vars(Tick)
-----------------------------------------------------------------------------
(* How long until the bucket i is collected, when the wheel is at clk. *)
UntilVisit(i, clk) ==
  LET gran == LVL_GRAN(i \div LVL_SIZE)
      bucket == (i % LVL_SIZE) * gran
  IN (bucket - clk) % (LVL_SIZE * gran)

(* The timers of S that are armed are pending, and only those.  A timer on *)
(* the wheel will be collected after its expiry and no later than one      *)
(* granule of its level, or at once; one that is collected has expired.    *)
(* When an obscene timer is collected is left open.                        *)
OnTime(S) ==
  \A t \in S :
    LET i == base.idx[t]
        left == Diff(armed[t].at, base.clk)
    IN /\ timer_pending(base, t) <=> armed[t] # NotArmed
       /\ timer_pending(base, t) => base.expires[t] = armed[t].at
       /\ armed[t].how # "obscene" =>
            /\ t \in Range(base.vectors[i]) =>
                 /\ UntilVisit(i, base.clk) > left
                 /\ UntilVisit(i, base.clk) \in {0} \cup 0 .. left + LVL_GRAN(i \div LVL_SIZE)
            /\ t \in Range(base.heads) => left < -1

(* The wheel is consistent with its bitmap and not ahead of jiffies by     *)
(* more than a tick, and timers expire on time: neither early nor late by  *)
(* more than the granularity of their level, whoever modifies or deletes   *)
(* them while others expire; ModTimerArms is about those that mod_timer()  *)
(* has missed.                                                             *)
TimersOnTime ==
  /\ \A i \in DOMAIN base.vectors : i \in base.pending_map <=> base.vectors[i] # <<>>
  /\ Diff(base.clk, jiffies) <= 1
  /\ OnTime({t \in Timers : armed[t].how # "missed"})

(* mod_timer() is equivalent to del_timer() and add_timer(), as its        *)
(* comment says: whenever it is called, the timer is on time.              *)
ModTimerArms == OnTime(Timers)

(* The wheel goes on for ever.  Without a tick, each pending vector is     *)
(* handled, and the task has the CPU again and again: neither the loop of  *)
(* __do_softirq() nor ksoftirqd keeps it, whatever raises itself.          *)
SoftirqProgress ==
  /\ use.tick => []<><<base'.clk # base.clk>>_vars
  /\ ~use.tick => /\ \A v \in TaskletVecs : []<>(v \notin pending)
                  /\ []<>InTask
=============================================================================
