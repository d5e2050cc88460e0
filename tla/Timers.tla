------------------------------- MODULE Timers -------------------------------
(***************************************************************************)
(* TimerQueue of an event loop: the timers of the gateway's heartbeat      *)
(* check and of its metrics, and one-shot timers (runAt, runAfter).        *)
(*                                                                         *)
(* Expirations are wall-clock times (TimeUtil::nowMs) while the timerfd    *)
(* runs on the monotonic clock.  Both are kept as what is left of them, so *)
(* that time needs no bound; 0 is "now or before".                         *)
(***************************************************************************)
EXTENDS Integers, FiniteSets

CONSTANTS
    Repeating, Once,    \* timers with and without interval
    Interval,           \* interval_ms, and the longest delay
    MaxJumps            \* bound: settings of the wall clock

ASSUME TimersAssumption == Interval \in Nat \ {0} /\ MaxJumps \in Nat

VARIABLES
    left,       \* time to the expiration of each timer in timers_, or Out
    fd,         \* time to the expiration of the timerfd, or Out when it is not armed
    jumps

timerVars == <<left, fd, jumps>>

Out == -1
AllTimers == Repeating \cup Once

TimersInit ==
    /\ left = [t \in AllTimers |-> Out]
    /\ fd = Out /\ jumps = 0

Queued(l) == {t \in DOMAIN l : l[t] # Out}
earliest(l) == CHOOSE n \in {l[t] : t \in Queued(l)} : \A t \in Queued(l) : n <= l[t]

\* resetTimerfd: at least a millisecond, as 0 would disarm it
howMuchTimeFromNow(n) == IF n < 1 THEN 1 ELSE n

\* addTimerInLoop
inserted(t, n) ==
    /\ left' = [left EXCEPT ![t] = n]
    /\ fd' = IF Queued(left) = {} \/ n < earliest(left) THEN howMuchTimeFromNow(n) ELSE fd

\* The functor of a timer that was added by another thread may run late
runEvery(t) == left[t] = Out /\ \E n \in 0 .. Interval : inserted(t, n) /\ UNCHANGED jumps
runAt(t) == left[t] = Out /\ \E n \in 0 .. Interval : inserted(t, n) /\ UNCHANGED jumps

getExpired == {t \in AllTimers : left[t] = 0}

\* Mutation: a repeating timer keeps the expiration it had
restartForgotten(t) == left[t]

restart(t) == Interval

\* reset, once the timers to repeat are inserted; an empty set leaves the timerfd
\* as reading it did
reset(l) == fd' = IF Queued(l) = {} THEN Out ELSE howMuchTimeFromNow(earliest(l))

\* handleRead: timers expire by the wall clock, so none may have; the callbacks may
\* add one-shot timers, before reset
handleTimer ==
    LET rest == [t \in AllTimers |-> IF t \notin getExpired THEN left[t]
                                     ELSE IF t \in Repeating THEN restart(t) ELSE Out]
    IN  /\ fd = 0
        /\ \/ left' = rest
           \/ \E t \in Once, n \in 0 .. Interval :
                 getExpired # {} /\ left[t] = Out /\ left' = [rest EXCEPT ![t] = n]
        /\ reset(left')
        /\ UNCHANGED jumps

Sooner(n) == IF n > 0 THEN n - 1 ELSE n

elapse ==
    /\ left' = [t \in AllTimers |-> Sooner(left[t])]
    /\ fd' = Sooner(fd)
    /\ UNCHANGED jumps

\* The wall clock is set forwards or back; the monotonic clock is not
setWallClock ==
    /\ jumps < MaxJumps /\ jumps' = jumps + 1
    /\ \/ left' = [t \in AllTimers |-> Sooner(left[t])]
       \/ left' = [t \in AllTimers |-> IF left[t] = Out THEN Out ELSE left[t] + 1]
    /\ UNCHANGED fd

TimersNext ==
    \/ \E t \in Repeating : runEvery(t)
    \/ \E t \in Once : runAt(t)
    \/ handleTimer \/ elapse \/ setWallClock

TimersSpec == TimersInit /\ [][TimersNext]_timerVars

-----------------------------------------------------------------------------
(* Properties                                                               *)

\* The timerfd is armed whenever a timer is queued, and, as long as nobody sets the
\* clock, it expires no later than the earliest of them: through insertions ahead of
\* the earliest, timers added by callbacks and repetitions (addTimerInLoop, reset)
TimerfdIsArmed ==
    Queued(left) # {} => /\ fd # Out
                         /\ jumps = 0 => fd <= howMuchTimeFromNow(earliest(left))

\* No timer stays due for ever: each is run again and again although the clock it
\* expires by is set back under a timerfd that is not (handleRead, which may find
\* nothing expired, and reset); and none is late while nobody sets the clock.
TimersRun == []TimerfdIsArmed /\ \A t \in AllTimers : []<>(left[t] \in {Out, Interval})
=============================================================================
