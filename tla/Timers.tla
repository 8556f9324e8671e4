------------------------------- MODULE Timers -------------------------------
(***************************************************************************)
(* sq_timer_t: a countdown that can be paused, as a start, a duration and  *)
(* a growing array of pauses.  Each function reads time(NULL), which the   *)
(* system may set forward and back.  A timer that was not started at       *)
(* once is never started: start_time stays SQ_TIMER_T_NOT_STARTED.         *)
(***************************************************************************)
EXTENDS Integers, Sequences, SequencesExt

CONSTANTS
  Durations,
  MaxTime,     (* bound on the clock, in seconds                            *)
  MaxPauses    (* bound on the pauses of one timer                          *)

ASSUME TimersAssumption ==
  /\ Durations \subseteq Nat
  /\ MaxTime \in Nat /\ MaxPauses \in Nat

NO_END == -1
NOT_STARTED == -1

VARIABLES
  now,         (* time(NULL)                                                *)
  duration, start_time,
  interrupts,  (* the pauses, interrupts_len of them                        *)
  dangling,    (* interrupts is NULL although interrupts_len is not 0       *)
  timerState   (* "live", "freed", or "crashed" through that NULL           *)

timerVars == <<now, duration, start_time, interrupts, dangling, timerState>>

Paused == interrupts # <<>> /\ Last(interrupts).end = NO_END

(* init_timer. *)
TimerInit ==
  /\ now \in 0..MaxTime
  /\ duration \in Durations
  /\ start_time \in {now, NOT_STARTED}
  /\ interrupts = <<>> /\ dangling = FALSE
  /\ timerState = "live"

-----------------------------------------------------------------------------
(* Deliberately wrong variants of definitions below, for the property named. *)

(* TimeLeftMoves: a pause that is over counts. *)
PausedForInFull(i) == IF i.end = NO_END THEN now - i.start ELSE i.end - i.start

-----------------------------------------------------------------------------
(* A pause that is over adds its end less its end. *)
PausedFor(i) == IF i.end = NO_END THEN now - i.start ELSE i.end - i.end

(* The start is taken off as the clock is. *)
time_left ==
  duration - now - start_time
    + FoldSeq(LAMBDA i, sum : sum + PausedFor(i), 0, interrupts)

ClockMoves ==
  /\ timerState = "live"
  /\ now' \in 0..MaxTime
  /\ UNCHANGED <<duration, start_time, interrupts, dangling, timerState>>

(* pause_timer; a second pause is refused. *)
pause_timer ==
  /\ timerState = "live" /\ ~dangling
  /\ ~Paused /\ Len(interrupts) < MaxPauses
  /\ interrupts' = Append(interrupts, [start |-> now, end |-> NO_END])
  /\ UNCHANGED <<now, duration, start_time, dangling, timerState>>

(* malloc or realloc gave NULL, which is kept: the pauses are lost, but for
   their number. *)
PauseFails ==
  /\ timerState = "live" /\ ~dangling
  /\ ~Paused
  /\ dangling' = (interrupts # <<>>)
  /\ UNCHANGED <<now, duration, start_time, interrupts, timerState>>

(* resume_timer; it looks for the NULL, and refuses when nothing is paused. *)
resume_timer ==
  /\ timerState = "live" /\ ~dangling
  /\ Paused
  /\ interrupts' = [interrupts EXCEPT ![Len(interrupts)].end = now]
  /\ UNCHANGED <<now, duration, start_time, dangling, timerState>>

(* The next pause_timer or time_left reads interrupts[0]. *)
ReadNull ==
  /\ timerState = "live" /\ dangling
  /\ timerState' = "crashed"
  /\ UNCHANGED <<now, duration, start_time, interrupts, dangling>>

free_timer ==
  /\ timerState = "live"
  /\ timerState' = "freed"
  /\ UNCHANGED <<now, duration, start_time, interrupts, dangling>>

TimerNext ==
  \/ ClockMoves \/ pause_timer \/ PauseFails \/ resume_timer
  \/ ReadNull \/ free_timer

TimerSpec == TimerInit /\ [][TimerNext]_timerVars

-----------------------------------------------------------------------------
Pauses == [start : Nat, end : Nat \cup {NO_END}]

TimersTypeOK ==
  /\ now \in Nat
  /\ duration \in Durations /\ start_time \in Nat \cup {NOT_STARTED}
  /\ interrupts \in Seq(Pauses)
  /\ dangling \in BOOLEAN
  /\ timerState \in {"live", "freed", "crashed"}

(* Only the last pause is still running, so that pause_timer and resume_timer,
   which look at no other, cannot be deceived; and the pauses were lost only
   when none was running: resume_timer, which then refuses, has nothing to do. *)
OnlyLastIsOpen ==
  /\ \A i \in DOMAIN interrupts : i < Len(interrupts) => interrupts[i].end # NO_END
  /\ dangling => interrupts # <<>> /\ ~Paused

(* Together they are preserved by every step. *)
TimersInv == TimersTypeOK /\ OnlyLastIsOpen

(* A timer's time stands while it is paused, whatever the clock does, falls
   with the clock while it runs, and when it is resumed falls by the whole pause
   at once: the pause was for nothing. *)
TimeLeftMoves ==
  [][timerState' = "live" /\ ~dangling' =>
       time_left' - time_left =
         IF Paused /\ Paused' THEN 0
         ELSE IF Paused THEN Last(interrupts).start - now
         ELSE now - now']_timerVars
=============================================================================
