---------------------------- MODULE ReorderQueue ----------------------------
(***************************************************************************)
(* pkg/utilds/quickreorderqueue.go as the job manager uses it: input for   *)
(* the program on the PTY arrives by RPC, every call in a goroutine of its *)
(* own and so in any order, and processInputQueue takes it from the        *)
(* channel.  An input controller of the main server numbers its input from *)
(* 1 under a session id of its own; some of it may never arrive.           *)
(*                                                                         *)
(* Time is only compared: now - item.timestamp >= timeout.  So an item     *)
(* carries its place in the order of arrival, and expired says up to which *)
(* arrival the timeout has passed.  Sessions are first seen in different   *)
(* milliseconds, which the comment on the queue assumes.                   *)
(***************************************************************************)
EXTENDS Integers, Sequences, FiniteSets, SequencesExt

CONSTANTS
  Sessions,      (* input sessions                                          *)
  MaxSeqNum,     (* bound: items of a session                               *)
  MaxPlain,      (* bound: items without a number                           *)
  MaxItems,      (* bound: calls of QueueItem                               *)
  BufSize,       (* cap(q.outCh)                                            *)
  NoSession      (* the empty session id                                    *)

ASSUME BufSizeAssumption == BufSize \in Nat \ {0}
ASSUME NoSessionAssumption == NoSession \notin Sessions
ASSUME BoundsAssumption ==
  IsFiniteSet(Sessions) /\ {MaxSeqNum, MaxPlain, MaxItems} \subseteq Nat

VARIABLES
  seen,          (* the sessions of sessionOrder, by their time stamp; the  *)
                 (* last of them is currentSessionId                        *)
  nextSeqNum, buffer, closed,
  timers,        (* timers that run or whose callback waits for the lock    *)
  timer,         (* q.timer: one of them, or nil                            *)
  emitted,       (* everything ever put into outCh                          *)
  taken,         (* how much of it processInputQueue has taken              *)
  arrived,       (* items handed to QueueItem                               *)
  arrivals,      (* how many                                                *)
  expired        (* items that arrived up to here have timed out            *)

vars == <<seen, nextSeqNum, buffer, closed, timers, timer, emitted, taken, arrived,
          arrivals, expired>>

Numbered  == [session : Sessions, seq : 1 .. MaxSeqNum]
Plain     == [session : {NoSession}, seq : 1 .. MaxPlain]
NoTimer   == 0
TimerIds  == 1 .. Cardinality(Sessions) + 2
Reasons   == {"next", "old", "timeout", "session"}

(* QueueItem and onTimeout put items into the channel while they hold the  *)
(* lock; there is always room, so that they never block with it.           *)
NeverOverfull == Cardinality(buffer) + Len(emitted) - taken <= BufSize

TypeOK ==
  /\ NeverOverfull
  /\ seen \in Seq(Sessions) /\ IsInjective(seen)
  /\ nextSeqNum \in 1 .. MaxSeqNum + 1
  /\ buffer \subseteq [item : Numbered, at : 1 .. MaxItems]
  /\ closed \in BOOLEAN
  /\ timers \subseteq [id : TimerIds, at : 1 .. MaxItems]
  /\ timer \in TimerIds \union {NoTimer}
  /\ emitted \in Seq([item : Numbered \union Plain, at : 1 .. MaxItems,
                      when : 1 .. MaxItems, why : Reasons])
  /\ taken \in 0 .. Len(emitted)
  /\ arrived \subseteq (Numbered \union Plain)
  /\ arrivals \in 0 .. MaxItems /\ expired \in 0 .. arrivals

Init ==
  /\ seen = <<>> /\ nextSeqNum = 1 /\ buffer = {} /\ closed = FALSE
  /\ timers = {} /\ timer = NoTimer
  /\ emitted = <<>> /\ taken = 0
  /\ arrived = {} /\ arrivals = 0 /\ expired = 0

-----------------------------------------------------------------------------
Position(session) == CHOOSE i \in DOMAIN seen : seen[i] = session
Current == IF seen = <<>> THEN NoSession ELSE Last(seen)

(* cmpSessionSeq_withlock on two items of the buffer.                      *)
Before(x, y) ==
  \/ Position(x.item.session) < Position(y.item.session)
  \/ x.item.session = y.item.session /\ x.item.seq < y.item.seq

(* sortBuffer_withlock: the one order of the items in which each comes     *)
(* before the next.                                                        *)
Sorted(items) ==
  CHOOSE s \in [1 .. Cardinality(items) -> items] :
    /\ \A x \in items : \E i \in DOMAIN s : s[i] = x
    /\ \A i, j \in DOMAIN s : i < j => Before(s[i], s[j])

(* Items go into the channel; the record keeps when and why.               *)
Emission(x, when, why) == [item |-> x.item, at |-> x.at, when |-> when, why |-> why]
Emissions(xs, when, why) == [i \in DOMAIN xs |-> Emission(xs[i], when, why)]

FullAtOneMore == Cardinality(buffer) + Len(emitted) - taken > BufSize   \* a mutant
Full == Cardinality(buffer) + Len(emitted) - taken >= BufSize

FreeTimerId == CHOOSE id \in TimerIds : \A t \in timers : t.id # id

(* timer.Stop: the timer runs no more, unless its callback already waits.  *)
Stopped(id) == {t \in timers : t.id # id \/ t.at <= expired}

(* A mutant: the gaps are jumped.                                          *)
RunFromAny(seq) == {x \in buffer : x.item.seq >= seq}
(* processBuffer_withlock: the buffered items that continue from seq.      *)
RunFrom(seq) ==
  LET next == {x \in buffer : x.item.session = Current /\ x.item.seq >= seq}
  IN {x \in next : \A k \in seq .. x.item.seq : \E y \in next : y.item.seq = k}

Remaining(items) == buffer \ items

(* flushBuffer_withlock: what a new session pushes out.                    *)
Flushed == buffer

-----------------------------------------------------------------------------
(* QueueItem, by the branch it takes.  at is the arrival of this call.     *)

Arrives(item) ==
  /\ item \notin arrived /\ arrivals < MaxItems
  /\ arrived' = arrived \union {item}
  /\ arrivals' = arrivals + 1
  /\ UNCHANGED <<closed, taken, expired>>

Rejected(item) ==
  /\ Arrives(item)
  /\ closed \/ Full
  /\ UNCHANGED <<seen, nextSeqNum, buffer, timers, timer, emitted>>

(* Input without a session bypasses the queue.                             *)
Bypass(item) ==
  /\ Arrives(item) /\ ~closed /\ ~Full
  /\ item \in Plain
  /\ emitted' = Append(emitted, Emission([item |-> item, at |-> arrivals'], arrivals', "old"))
  /\ UNCHANGED <<seen, nextSeqNum, buffer, timers, timer>>

(* The first item of a new session flushes what older ones have buffered,  *)
(* and is compared with sequence number 1.                                 *)
NewSession(item) ==
  LET x == [item |-> item, at |-> arrivals']
      flushed == Emissions(Sorted(Flushed), arrivals', "session")
      kept == IF buffer = {} THEN timers ELSE Stopped(timer)
      id == IF buffer # {} \/ timer = NoTimer THEN FreeTimerId ELSE timer
  IN
  /\ Arrives(item) /\ ~closed /\ ~Full
  /\ item.session \in Sessions /\ item.session \notin ToSet(seen)
  /\ seen' = Append(seen, item.session)
  /\ \/ /\ item.seq = 1
        /\ emitted' = Append(emitted \o flushed, Emission(x, arrivals', "next"))
        /\ nextSeqNum' = 2
        /\ buffer' = Remaining(Flushed)
        /\ timers' = kept
        /\ timer' = IF buffer = {} THEN timer ELSE NoTimer
     \/ /\ item.seq > 1
        /\ emitted' = emitted \o flushed
        /\ nextSeqNum' = 1
        /\ buffer' = Remaining(Flushed) \union {x}
        /\ timer' = id
        /\ timers' = IF id = timer THEN kept ELSE kept \union {[id |-> id, at |-> x.at]}

(* Old: an item of an earlier session, or one that was given up.           *)
Old(item) == item.session # Current \/ item.seq < nextSeqNum

KnownSession(item) ==
  Arrives(item) /\ ~closed /\ ~Full /\ item.session \in ToSet(seen)

QueueOld(item) ==
  /\ KnownSession(item)
  /\ Old(item)
  /\ emitted' = Append(emitted, Emission([item |-> item, at |-> arrivals'], arrivals', "old"))
  /\ UNCHANGED <<seen, nextSeqNum, buffer, timers, timer>>

QueueNext(item) ==
  LET run == RunFrom(nextSeqNum + 1) IN
  /\ KnownSession(item)
  /\ item.session = Current /\ item.seq = nextSeqNum
  /\ emitted' = Append(emitted, Emission([item |-> item, at |-> arrivals'], arrivals', "next"))
                  \o Emissions(Sorted(run), arrivals', "next")
  /\ nextSeqNum' = nextSeqNum + 1 + Cardinality(run)
  /\ buffer' = Remaining(run)
  /\ UNCHANGED <<seen, timers, timer>>

(* Out of order: it is buffered, and a timer started if none is set.       *)
QueueEarly(item) ==
  /\ KnownSession(item)
  /\ item.session = Current /\ item.seq > nextSeqNum
  /\ buffer' = buffer \union {[item |-> item, at |-> arrivals']}
  /\ IF timer = NoTimer
     THEN /\ timer' = FreeTimerId
          /\ timers' = timers \union {[id |-> FreeTimerId, at |-> arrivals']}
     ELSE UNCHANGED <<timers, timer>>
  /\ UNCHANGED <<seen, nextSeqNum, emitted>>

-----------------------------------------------------------------------------
(* The next number expected after items were given out by the timer.       *)
NextAfter(items) ==
  LET current == {x.item.seq + 1 : x \in {y \in items : y.item.session = Current}}
  IN Max(current \union {nextSeqNum})

RearmNever(rest) == {}                         \* mutants
RearmForNewest(rest) ==
  IF rest = {} THEN {} ELSE {Max({x.at : x \in rest})}
(* The timer for what stays: it waits for the oldest of them.              *)
Rearm(rest) ==
  IF rest = {} THEN {} ELSE {Min({x.at : x \in rest})}

(* onTimeout gives out everything up to the last item that has timed out.  *)
OnTimeout(t) ==
  LET due  == {x \in buffer : x.at <= expired}
      out  == {x \in buffer : \E y \in due : x = y \/ Before(x, y)}
      rest == Remaining(out)
      others == timers \ {t}
      id == CHOOSE i \in TimerIds : \A u \in others : u.id # i
  IN
  /\ t \in timers /\ t.at <= expired
  /\ IF closed
     THEN timers' = others /\ UNCHANGED <<timer, buffer, emitted, nextSeqNum>>
     ELSE /\ emitted' = emitted \o Emissions(Sorted(out), arrivals, "timeout")
          /\ nextSeqNum' = NextAfter(out)
          /\ buffer' = rest
          /\ timers' = others \union {[id |-> id, at |-> a] : a \in Rearm(rest)}
          /\ timer' = IF Rearm(rest) = {} THEN NoTimer ELSE id
  /\ UNCHANGED <<seen, closed, taken, arrived, arrivals, expired>>

(* Close drops what is buffered; nothing more is accepted.                 *)
Close ==
  /\ ~closed
  /\ closed' = TRUE
  /\ timers' = IF timer = NoTimer THEN timers ELSE Stopped(timer)
  /\ timer' = NoTimer
  /\ UNCHANGED <<seen, nextSeqNum, buffer, emitted, taken, arrived, arrivals, expired>>

(* processInputQueue takes an item.                                        *)
Take ==
  /\ taken < Len(emitted)
  /\ taken' = taken + 1
  /\ UNCHANGED <<seen, nextSeqNum, buffer, closed, timers, timer, emitted, arrived,
                 arrivals, expired>>

TimePasses ==
  /\ expired < arrivals
  /\ expired' = expired + 1
  /\ UNCHANGED <<seen, nextSeqNum, buffer, closed, timers, timer, emitted, taken,
                 arrived, arrivals>>

QueueItem(item) ==
  \/ Rejected(item) \/ Bypass(item) \/ NewSession(item)
  \/ QueueOld(item) \/ QueueNext(item) \/ QueueEarly(item)

Next ==
  \/ \E item \in Numbered \union Plain : QueueItem(item)
  \/ \E t \in timers : OnTimeout(t)
  \/ Close \/ Take \/ TimePasses

Spec == Init /\ [][Next]_vars

(* Time passes and a timer that is due gets its turn; no input need come,  *)
(* and the program need not read it.                                       *)
FairSpec ==
  /\ Spec
  /\ WF_vars(TimePasses)
  /\ WF_vars(\E t \in timers : OnTimeout(t))

-----------------------------------------------------------------------------
(* What QueueItem accepted is in the buffer or was put into the channel    *)
(* once: no input reaches the PTY twice, whichever of QueueItem's branches *)
(* and timer callbacks had a part in it.                                   *)
QueuedOnce ==
  /\ \A i, j \in DOMAIN emitted : emitted[i].item = emitted[j].item => i = j
  /\ \A x \in buffer, i \in DOMAIN emitted : x.item # emitted[i].item

(* Input of one session leaves in its order: an item comes after one with  *)
(* a larger number only if it arrived when that one was already out.       *)
WithinSession ==
  \A i, j \in DOMAIN emitted :
    /\ i < j
    /\ emitted[i].item.session = emitted[j].item.session
    /\ emitted[i].item.session \in Sessions
    /\ emitted[i].item.seq > emitted[j].item.seq
    => emitted[j].at > emitted[i].when

(* The events of a session come before those of every later session, but   *)
(* for latecomers, which arrived when the later session was already there. *)
SessionsSeparate ==
  \A i, j \in DOMAIN emitted :
    /\ i < j
    /\ {emitted[i].item.session, emitted[j].item.session} \subseteq ToSet(seen)
    /\ Position(emitted[j].item.session) < Position(emitted[i].item.session)
    => emitted[j].why = "old"

(* A gap is only passed over after the timeout: what goes out as the next  *)
(* in order follows every smaller number of its session, or a number above *)
(* the missing one that the timer gave out.                                *)
GapsWaitedFor ==
  \A i \in DOMAIN emitted : emitted[i].why = "next" =>
    \A k \in 1 .. emitted[i].item.seq - 1 :
      \E j \in 1 .. i - 1 :
        /\ emitted[j].item.session = emitted[i].item.session
        /\ \/ emitted[j].item.seq = k
           \/ emitted[j].item.seq > k /\ emitted[j].why = "timeout"

(* Input leaves once, in its session's order, without passing over a gap   *)
(* too soon, and session after session, through whatever arrivals,         *)
(* timeouts and changes of session.                                        *)
InputInOrder == QueuedOnce /\ WithinSession /\ GapsWaitedFor /\ SessionsSeparate

(* Nothing waits longer than the timeout: for each buffered item a timer   *)
(* is running that ends no later than the item's own time, also after a    *)
(* callback that lost the race with flushBuffer_withlock.                  *)
TimerInTime ==
  ~closed => \A x \in buffer : \E t \in timers : t.at <= x.at

(* So everything buffered is given out in the end.                         *)
BufferedIsDelivered ==
  \A item \in Numbered :
    (\E x \in buffer : x.item = item)
      ~> (closed \/ \E i \in DOMAIN emitted : emitted[i].item = item)

=============================================================================
