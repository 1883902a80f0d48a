----------------------------- MODULE RequestQueue -----------------------------
(***************************************************************************)
(* The gateway's request queue: three channels by priority, workers that   *)
(* look at them in order, and handlers that put a request in and wait for  *)
(* its response.  The handler enters the queue when a hundred requests are *)
(* in it, which only the handler could put there; the model lets it enter  *)
(* at any time.  Nothing in the gateway calls Shutdown.                    *)
(***************************************************************************)
EXTENDS Integers, Sequences, FiniteSets

CONSTANTS Requests, Workers,
  MaxSize,     (* of the counter; the channels hold a fifth, three and one *)
  Capacity,    (* channel -> its capacity                                  *)
  None         (* no request                                               *)

Channels == {"high", "normal", "low"}

RequestQueueAssumption ==
  /\ IsFiniteSet(Requests) /\ None \notin Requests
  /\ MaxSize \in Nat /\ Capacity \in [Channels -> Nat \ {0}]

VARIABLES
  step,      (* request -> of its handler: "new", "add", "try",           *)
             (*   "fallback", "stay", "wait" or "done"                     *)
  priority,  (* request -> "critical", "high", "normal" or "low"           *)
  channel,   (* channel -> requests in it, the oldest first                *)
  queued,    (* the counter                                                *)
  expired,   (* requests that have waited for maxWaitTime                  *)
  over,      (* requests whose context is done                             *)
  response,  (* request -> status in its response channel, 0 for none      *)
  worker,    (* worker -> [at, request]                                    *)
  shutdown   (* "no", "cancelled" or "drained"                             *)

vars == <<step, priority, channel, queued, expired, over, response, worker, shutdown>>

Looking(at) == [at |-> at, request |-> None]

Init ==
  /\ step = [r \in Requests |-> "new"] /\ priority = [r \in Requests |-> "normal"]
  /\ channel = [c \in Channels |-> <<>>] /\ queued = 0
  /\ expired = {} /\ over = {} /\ response = [r \in Requests |-> 0]
  /\ worker = [w \in Workers |-> Looking("high")] /\ shutdown = "no"

-----------------------------------------------------------------------------
(* Enqueue.                                                                *)

Leave(r) == step' = [step EXCEPT ![r] = "done"]

CheckSize(r) ==
  /\ step[r] = "new"
  /\ \E p \in Channels \cup {"critical"} : priority' = [priority EXCEPT ![r] = p]
  /\ IF queued >= MaxSize THEN Leave(r) ELSE step' = [step EXCEPT ![r] = "add"]
  /\ UNCHANGED <<channel, queued, expired, over, response, worker, shutdown>>

CountRequest(r) ==
  /\ step[r] = "add" /\ step' = [step EXCEPT ![r] = "try"]
  /\ queued' = queued + 1
  /\ UNCHANGED <<priority, channel, expired, over, response, worker, shutdown>>

HasRoom(c) == Len(channel[c]) < Capacity[c]

(* A high or normal request whose channel is full waits for the next one.  *)
Fallback(r) == IF priority[r] = "high" THEN "normal" ELSE "low"

FallBack(r) ==
  /\ step[r] = "try" /\ priority[r] \in {"high", "normal"} /\ r \notin over
  /\ ~HasRoom(priority[r])
  /\ step' = [step EXCEPT ![r] = "fallback"]
  /\ UNCHANGED <<priority, channel, queued, expired, over, response, worker, shutdown>>

(* The request is in the channel before Enqueue returns and cancels its    *)
(* context.                                                                *)
Enqueue(r) ==
  /\ step[r] \in {"try", "fallback"} /\ priority[r] # "critical" /\ r \notin over
  /\ LET c == IF step[r] = "try" THEN priority[r] ELSE Fallback(r)
     IN HasRoom(c) /\ channel' = [channel EXCEPT ![c] = Append(@, r)]
  /\ step' = [step EXCEPT ![r] = "stay"]
  /\ UNCHANGED <<priority, queued, expired, over, response, worker, shutdown>>

Return(r) ==
  /\ step[r] = "stay" /\ step' = [step EXCEPT ![r] = "wait"]
  /\ over' = over \cup {r}
  /\ UNCHANGED <<priority, channel, queued, expired, response, worker, shutdown>>

StillCounted(r) ==   \* mutant: a timeout leaves the counter as it is
  IF r \in expired THEN queued ELSE queued - 1
Uncounted(r) == queued - 1

GivesUp(r) ==
  \/ priority[r] = "critical" \/ r \in over
  \/ priority[r] = "low" /\ ~HasRoom("low")

(* The wait is over, there is no room for a low one, or the priority is    *)
(* none of the three.                                                      *)
Refuse(r) ==
  /\ step[r] \in {"try", "fallback"} /\ GivesUp(r) /\ Leave(r)
  /\ queued' = Uncounted(r) /\ over' = over \cup {r}
  /\ UNCHANGED <<priority, channel, expired, response, worker, shutdown>>

Expire(r) ==
  /\ step[r] \in {"try", "fallback", "stay", "wait"} /\ r \notin expired
  /\ expired' = expired \cup {r} /\ over' = over \cup {r}
  /\ UNCHANGED <<step, priority, channel, queued, response, worker, shutdown>>

(* The handler takes the response, or stops waiting after five seconds.    *)
Answer(r) ==
  /\ step[r] = "wait" /\ (response[r] # 0 \/ r \in expired) /\ Leave(r)
  /\ UNCHANGED <<priority, channel, queued, expired, over, response, worker, shutdown>>

-----------------------------------------------------------------------------
(* The workers.                                                            *)

Moves(w, at, r) == worker' = [worker EXCEPT ![w] = [at |-> at, request |-> r]]

After(c) == CASE c = "high" -> "normal" [] c = "normal" -> "low" [] OTHER -> "high"

Take(w) ==
  /\ worker[w].at \in Channels /\ channel[worker[w].at] # <<>>
  /\ Moves(w, "taken", Head(channel[worker[w].at]))
  /\ channel' = [channel EXCEPT ![worker[w].at] = Tail(@)]
  /\ UNCHANGED <<step, priority, queued, expired, over, response, shutdown>>

FindNothing(w) ==
  /\ worker[w].at \in Channels /\ channel[worker[w].at] = <<>> /\ shutdown = "no"
  /\ Moves(w, After(worker[w].at), None)
  /\ UNCHANGED <<step, priority, channel, queued, expired, over, response, shutdown>>

StopWorker(w) ==
  /\ worker[w].at \in Channels /\ shutdown = "cancelled" /\ Moves(w, "stopped", None)
  /\ UNCHANGED <<step, priority, channel, queued, expired, over, response, shutdown>>

(* The counter goes down; a request whose context is done is not processed.*)
Begin(w) ==
  LET r == worker[w].request IN
  /\ worker[w].at = "taken" /\ queued' = queued - 1
  /\ IF r \in over THEN Moves(w, "high", None) /\ response' = [response EXCEPT ![r] = 504]
     ELSE Moves(w, "process", r) /\ UNCHANGED response
  /\ UNCHANGED <<step, priority, channel, expired, over, shutdown>>

(* 202, or 504 when the context is done or the processing takes too long.  *)
Respond(w) ==
  /\ worker[w].at = "process" /\ Moves(w, "high", None)
  /\ \E code \in {202, 504} : response' = [response EXCEPT ![worker[w].request] = code]
  /\ UNCHANGED <<step, priority, channel, queued, expired, over, shutdown>>

-----------------------------------------------------------------------------
(* Shutdown waits for the workers and answers what is in the channels.     *)

Cancel ==
  /\ shutdown = "no" /\ shutdown' = "cancelled"
  /\ UNCHANGED <<step, priority, channel, queued, expired, over, response, worker>>

Contents == UNION {{channel[c][i] : i \in DOMAIN channel[c]} : c \in Channels}

Drain ==
  /\ shutdown = "cancelled" /\ \A w \in Workers : worker[w].at = "stopped"
  /\ shutdown' = "drained"
  /\ response' = [r \in Requests |-> IF r \in Contents THEN 503 ELSE response[r]]
  /\ channel' = [c \in Channels |-> <<>>]
  /\ UNCHANGED <<step, priority, queued, expired, over, worker>>

Next ==
  \/ \E r \in Requests : \/ CheckSize(r) \/ CountRequest(r) \/ FallBack(r) \/ Enqueue(r) \/ Return(r)
                         \/ Refuse(r) \/ Expire(r) \/ Answer(r)
  \/ \E w \in Workers : \/ Take(w) \/ FindNothing(w) \/ StopWorker(w)
                        \/ Begin(w) \/ Respond(w)
  \/ Cancel \/ Drain

Spec == Init /\ [][Next]_vars

-----------------------------------------------------------------------------
TypeOK ==
  /\ step \in [Requests -> {"new", "add", "try", "fallback", "stay", "wait", "done"}]
  /\ priority \in [Requests -> Channels \cup {"critical"}]
  /\ \A c \in Channels : Len(channel[c]) <= Capacity[c]
  /\ queued \in 0..Cardinality(Requests) /\ expired \subseteq over /\ over \subseteq Requests
  /\ response \in [Requests -> {0, 202, 503, 504}]
  /\ worker \in [Workers -> [at : Channels \cup {"taken", "process", "stopped"},
                             request : Requests \cup {None}]]
  /\ shutdown \in {"no", "cancelled", "drained"}

(* The counter the next requests are admitted by is exact: it counts those *)
(* that try to enter, are in a channel or in the hands of a worker that    *)
(* has not counted them down, whoever gives up, times out or is refused in *)
(* between; and each of them is in one place, so that it is answered once  *)
(* and no worker blocks on its response (queue.go:86, :96, :207).         *)
QueueCounted ==
  LET trying == {r \in Requests : step[r] \in {"try", "fallback"}}
      taken == {w \in Workers : worker[w].at = "taken"}
      held == {worker[w].request : w \in Workers} \ {None}
  IN /\ shutdown # "drained" =>
          queued = Cardinality(trying) + Cardinality(Contents) + Cardinality(taken)
     /\ \A r \in held : response[r] = 0 /\ r \notin Contents
     /\ \A v, w \in Workers : v # w /\ worker[v].request # None => worker[v].request # worker[w].request
     /\ \A r \in Contents : response[r] = 0

(* Refuted: the counter keeps to its maximum.  It is read before it is     *)
(* increased (queue.go:75, :86).                                           *)
SizeRespected == queued <= MaxSize

(* Refuted: a request that is processed has not waited in vain: Enqueue    *)
(* cancels the context of the request it has just queued (queue.go:83), so *)
(* that only one a worker has taken before that is processed.              *)
WaitersProcessed == \A w \in Workers :
  worker[w].at = "taken" => worker[w].request \in expired \/ worker[w].request \notin over

(* Refuted: an idle queue has room for a critical request (queue.go:150).  *)
CriticalQueued == \A r \in Requests : priority[r] = "critical" => step[r] # "done" \/ queued > 0

(* Refuted: a request that is in a channel after a shutdown is answered.   *)
DrainedAnswered == shutdown = "drained" => Contents = {}
=============================================================================
