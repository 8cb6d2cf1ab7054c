---------------------------- MODULE StreamReader ----------------------------
(***************************************************************************)
(* pkg/streamclient/streamreader.go: the receiving end of one stream, in   *)
(* the main server.  A Reader is a record; its methods are operators that  *)
(* give the next record, each of them one critical section of r.lock, and  *)
(* AckFrom is the acknowledgement the method sends.  A byte is its         *)
(* position in the output, so the buffer shows what was received.          *)
(***************************************************************************)
EXTENDS Integers, Sequences, FiniteSets, SequencesExt

CONSTANT ReadWindow    (* rwnd granted when the stream is created            *)

ASSUME ReadWindowAssumption == ReadWindow \in Nat \ {0}

NewReaderWithSeq(seq) ==
  [nextSeq |-> seq, buffer |-> <<>>, eof |-> FALSE, err |-> FALSE,
   closed |-> FALSE, lastRwndSent |-> ReadWindow, ooo |-> {}]

Rwnd(r) == IF Len(r.buffer) >= ReadWindow THEN 0 ELSE ReadWindow - Len(r.buffer)

AckFrom(id, r, fin, cancel) ==
  [id |-> id, seq |-> r.nextSeq, rwnd |-> Rwnd(r), fin |-> fin, cancel |-> cancel]

Acked(r) == [r EXCEPT !.lastRwndSent = Rwnd(r)]

Finished(r) == r.closed \/ r.eof \/ r.err

(* recvDataOrderedLocked *)
InOrder(r, p) ==
  [r EXCEPT !.buffer  = @ \o [i \in 1 .. p.len |-> p.seq + i - 1],
            !.nextSeq = @ + p.len,
            !.eof     = (p.kind = "eof")]

(* processOOOPacketsLocked: the waiting packets in the order of their      *)
(* position, each one continuing the one before, up to the end.  A packet  *)
(* that does not continue the stream stops it.                             *)
Continues(r, s) ==
  \A i \in DOMAIN s :
    /\ i = 1 => s[i].seq = r.nextSeq
    /\ i > 1 => s[i].seq = s[i - 1].seq + s[i - 1].len /\ s[i - 1].kind # "eof"
    /\ \A p \in r.ooo : p.seq < s[i].seq => \E j \in 1 .. i - 1 : p = s[j]

Runs(r) == {s \in SeqOf(r.ooo, Cardinality(r.ooo)) : Continues(r, s)}
LongestRun(r) == CHOOSE s \in Runs(r) : \A t \in Runs(r) : Len(t) <= Len(s)

(* Nothing is taken any more after the end, and nothing waits then.        *)
Drained(r) ==
  LET run  == LongestRun(r)
      last == Last(run)
      len  == last.seq + last.len - r.nextSeq
  IN CASE r.eof -> [r EXCEPT !.ooo = {}]
       [] ~r.eof /\ run = <<>> -> r
       [] ~r.eof /\ run # <<>> ->
            [InOrder(r, [last EXCEPT !.seq = r.nextSeq, !.len = len]) EXCEPT
               !.ooo = IF last.kind = "eof" THEN {} ELSE @ \ ToSet(run)]

(* addOOOPacketLocked keeps the first packet for each position.            *)
Waiting(r, p) ==
  [r EXCEPT !.ooo = IF \E q \in @ : q.seq = p.seq THEN @ ELSE @ \union {p}]

(* What RecvData does with a packet, and whether it sends an ack.          *)
Ignores(r, p) == Finished(r) \/ (p.kind # "error" /\ p.seq < r.nextSeq)
Defers(r, p)  == ~Finished(r) /\ p.kind # "error" /\ p.seq > r.nextSeq

RecvData(r, p) ==
  CASE Ignores(r, p) -> r
    [] Defers(r, p)  -> Waiting(r, p)
    [] ~Ignores(r, p) /\ p.kind = "error" -> Acked([r EXCEPT !.err = TRUE])
    [] OTHER -> Acked(Drained(InOrder(r, p)))

AcksData(r, p) == ~Ignores(r, p) /\ ~Defers(r, p)

(* Read returns: at most n buffered bytes, or the end.  It blocks on an    *)
(* empty buffer until one of these holds.                                  *)
CanRead(r) == r.buffer # <<>> \/ Finished(r)

ReadBytes(r, n) == SubSeq(r.buffer, 1, IF n <= Len(r.buffer) THEN n ELSE Len(r.buffer))

AfterRead(r, n) == [r EXCEPT !.buffer = SubSeq(@, Len(ReadBytes(r, n)) + 1, Len(@))]

(* Read announces the space it made only when the buffer is empty or the   *)
(* window has grown by a fifth.                                            *)
AcksReadNever(before, after) == FALSE          \* a mutant
AcksRead(before, after) ==
  /\ Len(after.buffer) < Len(before.buffer)
  /\ \/ after.buffer = <<>>
     \/ Rwnd(after) - before.lastRwndSent >= ReadWindow \div 5

(* Read reports the end, or an error, which wins over buffered bytes.      *)
ReadEnds(r) == r.closed \/ r.err \/ (r.eof /\ r.buffer = <<>>)
ReadsBytes(r) == ~r.closed /\ ~r.err /\ r.buffer # <<>>

(* UpdateNextSeq, called only for a larger position.                       *)
UpdateNextSeqLost(r, seq) == r                 \* a mutant
UpdateNextSeq(r, seq)     == [r EXCEPT !.nextSeq = seq]

(* Close sends a cancel; a second Close does nothing.                      *)
Closed(r) == Acked([r EXCEPT !.closed = TRUE, !.err = TRUE])

=============================================================================
