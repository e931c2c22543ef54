----------------------------- MODULE AnalyticsCache -----------------------------
(***************************************************************************)
(* The read-through cache over the metrics of one task.  A metric is       *)
(* abstracted to the number of submissions it was computed from.  Readers  *)
(* and the precompute worker fill entries, a submission's event handler    *)
(* deletes them and queues a precompute, and entries expire.               *)
(***************************************************************************)
EXTENDS Naturals

CONSTANTS Keys,         (* agreement, scores, evaluators, dashboard          *)
          Readers,      (* request slots for the four getters                *)
          MaxSubmitted, (* bound on submissions                              *)
          CacheFaults   (* bound on Redis calls that fail                    *)

ASSUME CacheAssumption == MaxSubmitted \in Nat /\ CacheFaults \in Nat

VARIABLES
    done,      (* submissions committed so far                               *)
    cache,     (* cache[k]: what k's entry was computed from, Absent if none *)
    events,    (* submissions whose handler has not deleted the keys yet     *)
    adds,      (* handlers that have, and now add their job                  *)
    queued,    (* precompute jobs in the queue                               *)
    warming,   (* keys the running precompute has not asked for yet          *)
    fill,      (* fill[a]: a reader's, or the worker's, withCache call       *)
    cfaults    (* Redis calls that failed so far                             *)

cacheVars == <<done, cache, events, adds, queued, warming, fill, cfaults>>

CONSTANT Worker         (* the precompute worker, a filler like the readers  *)
ASSUME WorkerAssumption == Worker \notin Readers

Fillers == Readers \cup {Worker}
Absent == MaxSubmitted + 1
Idle == [pc |-> "idle", key |-> "none", value |-> 0]

CTypeOK ==
    /\ done \in 0..MaxSubmitted
    /\ cache \in [Keys -> 0..Absent]
    /\ events \in Nat /\ adds \in Nat /\ queued \in Nat /\ events + adds + queued <= done
    /\ warming \subseteq Keys
    /\ fill \in [Fillers -> [pc : {"idle", "compute", "set"}, key : Keys \cup {"none"},
                             value : 0..MaxSubmitted]]
    /\ cfaults \in 0..CacheFaults

CInit ==
    /\ done = 0
    /\ cache = [k \in Keys |-> Absent]
    /\ events = 0 /\ adds = 0 /\ queued = 0 /\ warming = {}
    /\ fill = [a \in Fillers |-> Idle]
    /\ cfaults = 0

(* EvaluationsService commits a submission and emits its event. *)
Commit ==
    /\ done < MaxSubmitted
    /\ done' = done + 1
    /\ events' = events + 1
    /\ UNCHANGED <<cache, adds, queued, warming, fill, cfaults>>

(***************************************************************************)
(* refreshForTask: the four deletions of one Promise.all, of which any may *)
(* fail (then nothing is queued), and in a later call the queue's add.     *)
(***************************************************************************)
DeleteKeys ==
    /\ events > 0
    /\ events' = events - 1
    /\ \/ /\ cache' = [k \in Keys |-> Absent]
          /\ adds' = adds + 1
          /\ UNCHANGED cfaults
       \/ /\ \E gone \in (SUBSET Keys) \ {Keys} :
                cache' = [k \in Keys |-> IF k \in gone THEN Absent ELSE cache[k]]
          /\ cfaults < CacheFaults /\ cfaults' = cfaults + 1
          /\ UNCHANGED adds
    /\ UNCHANGED <<done, queued, warming, fill>>

AddPrecompute ==
    /\ adds > 0
    /\ adds' = adds - 1
    /\ \/ queued' = queued + 1 /\ UNCHANGED cfaults
       \/ cfaults < CacheFaults /\ cfaults' = cfaults + 1 /\ UNCHANGED queued
    /\ UNCHANGED <<done, cache, events, warming, fill>>

(* withCache: a hit is answered, a miss goes on to compute. *)
Ask(a, k) ==
    fill' = [fill EXCEPT ![a] =
               IF cache[k] = Absent THEN [pc |-> "compute", key |-> k, value |-> 0] ELSE Idle]

Get(a, k) ==
    /\ a \in Readers /\ fill[a].pc = "idle"
    /\ Ask(a, k)
    /\ UNCHANGED <<done, cache, events, adds, queued, warming, cfaults>>

(* precompute goes through the keys one by one with the same getters. *)
TakePrecompute ==
    /\ queued > 0 /\ warming = {} /\ fill[Worker].pc = "idle"
    /\ queued' = queued - 1
    /\ warming' = Keys
    /\ UNCHANGED <<done, cache, events, adds, fill, cfaults>>

Warm(k) ==
    /\ k \in warming /\ fill[Worker].pc = "idle"
    /\ warming' = warming \ {k}
    /\ Ask(Worker, k)
    /\ UNCHANGED <<done, cache, events, adds, queued, cfaults>>

(* compute() reads the submissions of this moment. *)
Compute(a) ==
    /\ fill[a].pc = "compute"
    /\ fill' = [fill EXCEPT ![a].pc = "set", ![a].value = done]
    /\ UNCHANGED <<done, cache, events, adds, queued, warming, cfaults>>

(* It is stored in a later call, whatever was deleted or stored meanwhile. *)
Fill(a) ==
    /\ fill[a].pc = "set"
    /\ cache' = [cache EXCEPT ![fill[a].key] = fill[a].value]
    /\ fill' = [fill EXCEPT ![a] = Idle]
    /\ UNCHANGED <<done, events, adds, queued, warming, cfaults>>

(* Faulty variant: an entry stored without a TTL stays. *)
ExpireNever(k) ==
    /\ cache[k] = done
    /\ cache' = [cache EXCEPT ![k] = Absent]
    /\ UNCHANGED <<done, events, adds, queued, warming, fill, cfaults>>

(* CACHE_TTL_MS after it was stored an entry is gone. *)
Expire(k) ==
    /\ cache[k] # Absent
    /\ cache' = [cache EXCEPT ![k] = Absent]
    /\ UNCHANGED <<done, events, adds, queued, warming, fill, cfaults>>

CNext ==
    \/ Commit \/ DeleteKeys \/ AddPrecompute \/ TakePrecompute
    \/ \E k \in Keys : Warm(k) \/ Expire(k) \/ \E a \in Readers : Get(a, k)
    \/ \E a \in Fillers : Compute(a) \/ Fill(a)

CSpec == CInit /\ [][CNext]_cacheVars

(* Started calls end and entries expire; no user has to ask or to submit. *)
CFairness ==
    /\ \A a \in Fillers : WF_cacheVars(Compute(a) \/ Fill(a))
    /\ \A k \in Keys : WF_cacheVars(Expire(k))

-----------------------------------------------------------------------------
(* Properties.                                                             *)

(***************************************************************************)
(* What the dashboards show catches up with what was submitted, for good,  *)
(* although a fill computed before a deletion may be stored after it, and  *)
(* the precompute then takes that entry for a fresh one.                   *)
(***************************************************************************)
Shown(k) == cache[k] \in {done, Absent}

CatchesUp == \A k \in Keys : <>[]Shown(k)
=============================================================================
