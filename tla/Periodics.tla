--------------------------------- MODULE Periodics ---------------------------------
(***************************************************************************)
(* The periodics of libev (src/include/ev/ev.c), which are due at wall     *)
(* clock times and follow the clock when it jumps, and the timers that     *)
(* repeat.  Pure operators on the heap of TimerHeap; periodics keep        *)
(* absolute times in `at`, and p describes them: for each its offset, its  *)
(* interval, and whether a callback reschedules it.                        *)
(***************************************************************************)
EXTENDS TimerHeap, SequencesExt

(* A reschedule callback: any function of the watcher and now that is not   *)
(* in the past; here the next multiple of 4, now included.                  *)
RescheduleCb(now) == 4 * ((now + 3) \div 4)

(* periodic_recalc: \div is ev_floor.  Mutant: a time that is now will do.  *)
PeriodicRecalc_Now(w, now) ==
  LET low == w.offset + w.interval * ((now - w.offset) \div w.interval)
  IN  IF low < now THEN low + w.interval ELSE low
PeriodicRecalc(w, now) ==
  LET low == w.offset + w.interval * ((now - w.offset) \div w.interval)
  IN  IF low <= now THEN low + w.interval ELSE low

NextTime(w, now) ==
  IF w.rescheduled THEN RescheduleCb(now)
  ELSE IF w.interval > 0 THEN PeriodicRecalc(w, now)
  ELSE w.offset

(* It comes again: a callback says when, or after its interval.             *)
ComesAgain(w) == w.rescheduled \/ w.interval > 0

PeriodicStart(h, p, t, now) ==
  IF h.active[t] # 0 THEN h ELSE Enter(h, t, NextTime(p[t], now))
PeriodicStop(h, t) == IF h.active[t] = 0 THEN h ELSE Leave(h, t)
PeriodicAgain(h, p, t, now) == PeriodicStart(PeriodicStop(h, t), p, t, now)

(* periodics_reify: one that is past is given its next time or stopped, and *)
(* is called.                                                               *)
PeriodicReified(h, p, now) ==
  LET t == Root(h)
  IN  IF ComesAgain(p[t])
      THEN DownHeap([h EXCEPT !.at[t] = NextTime(p[t], now)], 1)
      ELSE Leave(h, t)
PeriodicsReify(heap, p, now) ==
  FoldLeft(LAMBDA r, i :
             IF r.heap.slots = <<>> \/ At(r.heap, 1) >= now THEN r
             ELSE [heap |-> PeriodicReified(r.heap, p, now),
                   called |-> Append(r.called, Root(r.heap))],
           [heap |-> heap, called |-> <<>>], heap.slots)

(* reheap *)
Reheap(h) == FoldLeft(UpHeap, h, [k \in DOMAIN h.slots |-> k])

(* periodics_reschedule, after the clock has jumped: time_update.           *)
PeriodicsReschedule(h, p, now) ==
  Reheap([h EXCEPT !.at = [t \in Timers |->
            IF h.active[t] # 0 /\ ComesAgain(p[t])
            THEN NextTime(p[t], now) ELSE h.at[t]]])

--------------------------------------------------------------------------------
(* Timers that repeat; their times are relative to mn_now, as in TimerHeap. *)

(* timers_reify: behind by more than one interval, it is due now.           *)
Repeated(h, repeat) ==
  LET t == Root(h)
      next == h.at[t] + repeat
  IN  DownHeap([h EXCEPT !.at[t] = IF next < 0 THEN 0 ELSE next], 1)

(* ev_timer_again; 0 is a timer that does not repeat. *)
TimerAgain(h, t, repeat) ==
  IF h.active[t] # 0
  THEN IF repeat = 0 THEN Leave(h, t)
       ELSE AdjustHeap([h EXCEPT !.at[t] = repeat], h.active[t])
  ELSE IF repeat = 0 THEN h ELSE Enter(h, t, repeat)

(* timers_reschedule, when ev_resume or a jump of the clock asks for it.    *)
TimersReschedule(h, adjust) ==
  [h EXCEPT !.at = [t \in Timers |-> IF h.active[t] = 0 THEN @[t] ELSE @[t] + adjust]]

(* ev_suspend and ev_resume: the timers are put off by the time that went   *)
(* by, the periodics are not.                                               *)
EvResume(timers, periodics, p, slept, now) ==
  [timers |-> TimersReschedule(timers, slept),
   periodics |-> PeriodicsReschedule(periodics, p, now)]

================================================================================
