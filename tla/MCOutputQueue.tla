--------------------------- MODULE MCOutputQueue ---------------------------
(* MemAllocator on its own and OutputQueue over a pool of two buffers, for *)
(* TLC: part says which of the two a behaviour exercises.                  *)
EXTENDS OutputQueue

VARIABLE part

MCClients == {"source", "queue", "sink"}

Request(count, size, prefix, align) ==
  [count |-> count, size |-> size, prefix |-> prefix, align |-> align]

(* Three of them overflow a LONG of four bits: in the sum of size and      *)
(* prefix, in the rounding, in the product with the count.  The last one   *)
(* Commit refuses.                                                         *)
MCRequests ==
  {Request(1, 3, 0, 1), Request(2, 2, 1, 1), Request(2, 7, 1, 4),
   Request(2, 5, 0, 4), Request(2, 3, 1, 4), Request(-1, 1, 0, 1)}

(* The pool, all of it, for two clients, with the queue left alone.        *)
PoolInit == part = "pool" /\ DeliveryInit /\ mode.queued /\ mode.exact /\ mode.opt

PoolNext ==
  /\ part = "pool"
  /\ AllocNext
  /\ gpc'["queue"] = "idle" /\ holds'["queue"] = {}
  /\ UNCHANGED <<queueVars, part>>

(* The queue, over a pool that is committed for two buffers.               *)
CommittedInit ==
  /\ props = Request(2, 2, 1, 1)
  /\ changed = FALSE /\ committed = TRUE /\ inProgress = FALSE
  /\ layout = LayoutOf(props, 2)
  /\ free = <<2, 1>>
  /\ waiting = 0 /\ sem = 0
  /\ cRef = [s \in Samples |-> 0]
  /\ holds = [c \in Clients |-> {}]
  /\ gpc = [c \in Clients |-> "idle"]
  /\ selfRefs = 1 /\ releasing = 0

AnyQueueInit == part = "queue" /\ CommittedInit /\ QueueInit

AnyQueueNext ==
  /\ part = "queue"
  /\ SourceStep \/ SinkStep \/ SendStep \/ ThreadStep \/ ControlStep
  /\ waiting' + sem' <= 1
  /\ UNCHANGED part

(* What the passing run leaves out: the run queue_flush shows what Reset   *)
(* of a queue whose flushing is optimised does.                            *)
UsableInit == AnyQueueInit /\ Ordered

UsableNext == AnyQueueNext /\ (mode.opt => fpc' # "resetting")

MCInit == PoolInit \/ UsableInit
MCNext == PoolNext \/ UsableNext
mcVars == <<deliveryVars, part>>

MCSpec == MCInit /\ [][MCNext]_mcVars

AnyQueueSpec == AnyQueueInit /\ [][AnyQueueNext]_mcVars
=============================================================================
