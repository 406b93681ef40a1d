----------------------------- MODULE AsyncWriter -----------------------------
(***************************************************************************)
(* The bounded queue with one worker goroutine that keeps disk and network *)
(* off the SIP and RTP path: pcap.Writer, media.wavWriter and events.Sink. *)
(* All three check an atomic flag, then try a channel send that never      *)
(* blocks; Close sets the flag, closes the channel and waits for the       *)
(* worker.  The pcap writer collects batches (Batch > 1); the other two    *)
(* write each item when they take it (Batch = 1).                          *)
(***************************************************************************)
EXTENDS Naturals, Sequences, FiniteSets

CONSTANTS
  Producers,  \* the goroutines that call Capture, Push or Send
  Capacity,   \* of the channel
  Batch,      \* items the worker collects before it writes
  MaxItems    \* bound: how many calls there are

ASSUME CapacityAssumption == Capacity \in Nat \ {0}
ASSUME BatchAssumption == Batch \in Nat \ {0}
ASSUME MaxItemsAssumption == MaxItems \in Nat

VARIABLES
  closed,    \* the atomic flag
  open,      \* the channel is not closed
  queue,     \* the channel's buffer
  pending,   \* the worker's batch, without what it has written of it
  output,    \* what reached the file or the collector, in order
  failed,    \* items whose write or POST failed
  dropped,   \* items refused because the buffer was full
  calls,     \* calls so far, the number of the latest item
  item,      \* the item a producer is between check and send with, or 0
  closer,    \* the goroutine that calls Close: "before", "swapped", "waiting", "returned"
  worker,    \* the worker: "receiving", "flushing" its batch, "done"
  panicked   \* a send met the closed channel: the process is gone

queueVars == <<closed, open, queue, dropped, calls, item, panicked>>
workVars == <<pending, output, failed, worker>>
writerVars == <<queueVars, workVars, closer>>

WriterInit ==
  /\ closed = FALSE /\ open = TRUE
  /\ queue = <<>> /\ pending = <<>> /\ output = <<>>
  /\ failed = {} /\ dropped = {}
  /\ calls = 0
  /\ item = [p \in Producers |-> 0]
  /\ closer = "before"
  /\ worker = "receiving"
  /\ panicked = FALSE

------------------------------------------------------------------------------
(* Capture, Push, Send: the flag first, ... *)
CheckClosed(p) ==
  /\ item[p] = 0
  /\ calls < MaxItems
  /\ calls' = calls + 1
  /\ item' = IF closed THEN item ELSE [item EXCEPT ![p] = calls + 1]
  /\ UNCHANGED <<closed, open, queue, dropped, panicked, workVars, closer>>

(* ... then the channel.  A select with a default still chooses the send   *)
(* when the channel is closed, and panics.                                 *)
TrySend(p) ==
  /\ item[p] # 0
  /\ \/ /\ open
        /\ Len(queue) < Capacity
        /\ queue' = Append(queue, item[p])
        /\ UNCHANGED <<dropped, panicked>>
     \/ /\ open
        /\ Len(queue) = Capacity
        /\ dropped' = dropped \cup {item[p]}
        /\ UNCHANGED <<queue, panicked>>
     \/ /\ ~open
        /\ panicked' = TRUE
        /\ UNCHANGED <<queue, dropped>>
  /\ item' = [item EXCEPT ![p] = 0]
  /\ UNCHANGED <<closed, open, calls, workVars, closer>>

------------------------------------------------------------------------------
(* Close. *)

SwapClosed ==
  /\ closer = "before"
  /\ closed' = TRUE
  /\ closer' = "swapped"
  /\ UNCHANGED <<open, queue, dropped, calls, item, panicked, workVars>>

\* slip: the worker is not told
CloseChannelForgotten ==
  /\ closer = "swapped"
  /\ closer' = "waiting"
  /\ UNCHANGED <<closed, open, queue, dropped, calls, item, panicked, workVars>>

CloseChannel ==
  /\ closer = "swapped"
  /\ open' = FALSE
  /\ closer' = "waiting"
  /\ UNCHANGED <<closed, queue, dropped, calls, item, panicked, workVars>>

\* slip: does not wait for the worker
CloseReturnsEarly ==
  /\ closer = "waiting"
  /\ closer' = "returned"
  /\ UNCHANGED <<queueVars, workVars>>

CloseReturns ==
  /\ closer = "waiting"
  /\ worker = "done"
  /\ closer' = "returned"
  /\ UNCHANGED <<queueVars, workVars>>

------------------------------------------------------------------------------
(* The worker. *)

\* slip: the newest item first
TakeItemNewestFirst ==
  /\ worker = "receiving"
  /\ queue # <<>>
  /\ queue' = SubSeq(queue, 1, Len(queue) - 1)
  /\ pending' = Append(pending, queue[Len(queue)])
  /\ worker' = IF Len(pending') >= Batch THEN "flushing" ELSE "receiving"
  /\ UNCHANGED <<closed, open, dropped, calls, item, panicked, output, failed, closer>>

TakeItem ==
  /\ worker = "receiving"
  /\ queue # <<>>
  /\ queue' = Tail(queue)
  /\ pending' = Append(pending, Head(queue))
  /\ worker' = IF Len(pending') >= Batch THEN "flushing" ELSE "receiving"
  /\ UNCHANGED <<closed, open, dropped, calls, item, panicked, output, failed, closer>>

(* A batch that is not full is flushed by the ticker, or, when nothing is  *)
(* left to receive, because the channel is closed.                         *)
Flush ==
  /\ worker = "receiving"
  /\ pending # <<>>
  /\ worker' = "flushing"
  /\ UNCHANGED <<queueVars, pending, output, failed, closer>>

(* The items of a batch one after the other: each is written, or its write *)
(* fails and it is lost.  The producers do not wait.                       *)
WriteOne ==
  /\ worker = "flushing"
  /\ \/ output' = Append(output, Head(pending)) /\ UNCHANGED failed
     \/ failed' = failed \cup {Head(pending)} /\ UNCHANGED output
  /\ pending' = Tail(pending)
  /\ worker' = IF pending' = <<>> THEN "receiving" ELSE "flushing"
  /\ UNCHANGED <<queueVars, closer>>

(* A closed channel delivers what it still holds; then the worker flushes, *)
(* closes the file and reports.                                            *)
WorkerEnds ==
  /\ worker = "receiving"
  /\ ~open
  /\ queue = <<>> /\ pending = <<>>
  /\ worker' = "done"
  /\ UNCHANGED <<queueVars, pending, output, failed, closer>>

------------------------------------------------------------------------------
Close == SwapClosed \/ CloseChannel \/ CloseReturns
Work == TakeItem \/ Flush \/ WriteOne \/ WorkerEnds

(* A panic ends the process, and with it every goroutine. *)
WriterNext ==
  /\ ~panicked
  /\ \/ \E p \in Producers : CheckClosed(p) \/ TrySend(p)
     \/ Close
     \/ Work

(* Goroutines that can run do; nobody has to call Capture or Close. *)
WriterFairness ==
  /\ \A p \in Producers : WF_writerVars(~panicked /\ TrySend(p))
  /\ WF_writerVars(~panicked /\ (CloseChannel \/ CloseReturns))
  /\ WF_writerVars(~panicked /\ Work)

WriterSafeSpec == WriterInit /\ [][WriterNext]_writerVars
WriterSpec == WriterSafeSpec /\ WriterFairness

------------------------------------------------------------------------------
(* Properties *)

Held == {queue[i] : i \in DOMAIN queue} \cup {pending[i] : i \in DOMAIN pending}
InFlight == {item[p] : p \in Producers} \ {0}

WriterTypeOK ==
  /\ {closed, open, panicked} \subseteq BOOLEAN
  /\ queue \in Seq(1..MaxItems) /\ Len(queue) <= Capacity
  /\ pending \in Seq(1..MaxItems) /\ Len(pending) <= Batch
  /\ output \in Seq(1..MaxItems)
  /\ failed \cup dropped \subseteq 1..MaxItems
  /\ calls \in 0..MaxItems
  /\ item \in [Producers -> 0..MaxItems]
  /\ closer \in {"before", "swapped", "waiting", "returned"}
  /\ worker \in {"receiving", "flushing", "done"}

(* "Close drains the queue": once Close has returned, every item that was  *)
(* accepted was written or its write failed; none is left behind.          *)
CloseDrains == closer = "returned" => Held = {}

(* What the channel has accepted and not lost, oldest first. *)
Line == output \o pending \o queue
Lined == {Line[i] : i \in DOMAIN Line}

(* No item is written twice, or both written and counted as dropped, at    *)
(* any moment: it is in one place from its call to its end.                *)
OnePlacePerItem ==
  /\ \A i, j \in DOMAIN Line : Line[i] = Line[j] => i = j
  /\ \A p, q \in Producers : item[p] = item[q] => p = q \/ item[p] = 0
  /\ Lined \cap (InFlight \cup failed \cup dropped) = {}
  /\ InFlight \cap (failed \cup dropped) = {} /\ failed \cap dropped = {}

(* Item i of the line has failed, or stands in the next one behind every   *)
(* item that was before it and has not failed.                             *)
KeepsPlace(i) ==
  \/ Line[i] \in failed'
  \/ \E k \in DOMAIN Line' :
       /\ Line'[k] = Line[i]
       /\ \A j \in 1..(i - 1) :
            Line[j] \in failed' \/ \E l \in 1..(k - 1) : Line'[l] = Line[j]

(* Items enter the file in the order in which they entered the channel,    *)
(* and none gets lost but by a failed write.                               *)
KeepsOrder == [][\A i \in DOMAIN Line : KeepsPlace(i)]_writerVars

(* Close returns, unless the process is gone. *)
CloseEnds == closed ~> (closer = "returned" \/ panicked)

(* "It is safe to call from any goroutine" (pcap.Writer.Capture),          *)
(* "Subsequent Push calls become no-ops" (wavWriter.Close), "Subsequent    *)
(* Send calls are no-ops" (Sink.Close).                                    *)
CallsAreSafe == ~panicked
==============================================================================
