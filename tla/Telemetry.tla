------------------------------ MODULE Telemetry ------------------------------
(***************************************************************************)
(* The counters and the latency histogram of one command                   *)
(* (internal/telemetry/telemetry.go) with their recorders, the connection  *)
(* goroutines in Handle, and STATS, which walks the buckets while they     *)
(* record.  Only single loads and adds are atomic.                         *)
(***************************************************************************)
EXTENDS Integers, Sequences, FiniteSetsExt

CONSTANTS Recorder,
          bounds,       \* upper bounds of the buckets, ascending
          Duration,     \* what a command may take
          MaxCommands   \* bound on commands

VARIABLES
  stats,     \* total, hits, misses and errors of the command
  count,     \* observations begun
  sum,       \* total of the durations
  counts,    \* one counter per bucket, and one for the overflow
  rec,       \* rec[g]: where g's Handle stands
  quantile,  \* where the call of Quantile stands
  name,      \* the command: GET, or SET for all the others
  moved,     \* history: redirected commands
  observed   \* history: observed[d], finished observations of d

vars == <<stats, count, sum, counts, rec, quantile, name, moved, observed>>

Bucket == 1 .. Len(bounds) + 1

(* The sum of f over S. *)
Total(f, S) == MapThenSumSet(LAMBDA i : f[i], S)

Init ==
  /\ stats = [total |-> 0, hits |-> 0, misses |-> 0, errors |-> 0]
  /\ count = 0
  /\ sum = 0
  /\ counts = [i \in Bucket |-> 0]
  /\ rec = [g \in Recorder |-> [at |-> "idle"]]
  /\ quantile = [at |-> "idle"]
  /\ name \in {"GET", "SET"}
  /\ moved = 0
  /\ observed = [d \in Duration |-> 0]

(* What recordOutcome tells apart: an error, a bulk string, anything else. *)
Reply == {"error", "value", "other"}

goto(g, state) == rec' = [rec EXCEPT ![g] = state]

-----------------------------------------------------------------------------
(* Handle and recordOutcome *)

RecordCommand(g) ==
  /\ rec[g].at = "idle"
  /\ stats.total < MaxCommands
  /\ stats' = [stats EXCEPT !.total = @ + 1]
  /\ goto(g, [at |-> "run"])
  /\ UNCHANGED <<count, sum, counts, quantile, name, moved, observed>>

(* A redirect is neither timed nor an outcome. *)
redirect(g) ==
  /\ rec[g].at = "run"
  /\ moved' = moved + 1
  /\ goto(g, [at |-> "idle"])
  /\ UNCHANGED <<stats, count, sum, counts, quantile, name, observed>>

(* Observe: the count, and the sum that nothing reads, ... *)
RecordDuration(g, d) ==
  /\ rec[g].at = "run"
  /\ count' = count + 1
  /\ sum' = sum + d
  /\ goto(g, [at |-> "bucket", took |-> d])
  /\ UNCHANGED <<stats, counts, quantile, name, moved, observed>>

(* Mutant: a duration equal to a bound goes to the next bucket. *)
bucketOfStrict(d) ==
  Min({i \in 1 .. Len(bounds) : d < bounds[i]} \cup {Len(bounds) + 1})

bucketOf(d) ==
  Min({i \in 1 .. Len(bounds) : d <= bounds[i]} \cup {Len(bounds) + 1})

(* ... then the bucket. *)
Observe(g) ==
  /\ rec[g].at = "bucket"
  /\ LET d == rec[g].took
     IN  /\ counts' = [counts EXCEPT ![bucketOf(d)] = @ + 1]
         /\ observed' = [observed EXCEPT ![d] = @ + 1]
  /\ goto(g, [at |-> "outcome"])
  /\ UNCHANGED <<stats, count, sum, quantile, name, moved>>

(* Mutant: a lookup is told by its reply and not by its name. *)
recordOutcomeByReply(g, reply) ==
  /\ rec[g].at = "outcome"
  /\ \/ reply = "error" /\ stats' = [stats EXCEPT !.errors = @ + 1]
     \/ reply = "value" /\ stats' = [stats EXCEPT !.hits = @ + 1]
     \/ reply = "other" /\ name = "GET" /\ stats' = [stats EXCEPT !.misses = @ + 1]
     \/ reply = "other" /\ name # "GET" /\ UNCHANGED stats
  /\ goto(g, [at |-> "idle"])
  /\ UNCHANGED <<count, sum, counts, quantile, name, moved, observed>>

(* An error counts as one for every command; otherwise a GET is a hit or a *)
(* miss by its reply, and another command's success is counted nowhere.    *)
recordOutcome(g, reply) ==
  /\ rec[g].at = "outcome"
  /\ \/ reply = "error" /\ stats' = [stats EXCEPT !.errors = @ + 1]
     \/ reply = "value" /\ name = "GET" /\ stats' = [stats EXCEPT !.hits = @ + 1]
     \/ reply = "other" /\ name = "GET" /\ stats' = [stats EXCEPT !.misses = @ + 1]
     \/ reply # "error" /\ name # "GET" /\ UNCHANGED stats
  /\ goto(g, [at |-> "idle"])
  /\ UNCHANGED <<count, sum, counts, quantile, name, moved, observed>>

-----------------------------------------------------------------------------
(* Quantile, for P50 and P99 of a Snapshot *)

(* The rank is percent / 100 of the count loaded first. *)
Quantile(percent) ==
  /\ quantile.at = "idle"
  /\ quantile' = [at |-> "count", percent |-> percent, before |-> observed]
  /\ UNCHANGED <<stats, count, sum, counts, rec, name, moved, observed>>

loadCount ==
  /\ quantile.at = "count"
  /\ quantile' = IF count = 0 THEN [at |-> "idle"]
                 ELSE [at |-> "walk", percent |-> quantile.percent,
                       before |-> quantile.before,
                       t |-> count, i |-> 1, running |-> 0]
  /\ UNCHANGED <<stats, count, sum, counts, rec, name, moved, observed>>

(* A bucket that reaches the rank ends the walk; so does the last bound,   *)
(* which then stands for the overflow bucket.                              *)
loadBucket ==
  /\ quantile.at = "walk"
  /\ LET q == [quantile EXCEPT !.running = @ + counts[quantile.i]]
     IN  quantile' =
           IF 100 * q.running >= q.percent * q.t THEN [q EXCEPT !.at = "found"]
           ELSE IF q.i = Len(bounds) THEN [q EXCEPT !.at = "past", !.i = @ + 1]
           ELSE [q EXCEPT !.i = @ + 1]
  /\ UNCHANGED <<stats, count, sum, counts, rec, name, moved, observed>>

return ==
  /\ quantile.at \in {"found", "past"}
  /\ quantile' = [at |-> "idle"]
  /\ UNCHANGED <<stats, count, sum, counts, rec, name, moved, observed>>

(* A Snapshot asks for P50 and for P99. *)
Next ==
  \/ \E g \in Recorder :
       \/ RecordCommand(g) \/ redirect(g) \/ Observe(g)
       \/ \E d \in Duration : RecordDuration(g, d)
       \/ \E reply \in Reply : recordOutcome(g, reply)
  \/ \E percent \in {50, 99} : Quantile(percent)
  \/ loadCount \/ loadBucket \/ return

Spec == Init /\ [][Next]_vars

-----------------------------------------------------------------------------
(* Properties *)

(* The observations of o that are at most the i-th bound. *)
atMost(o, i) ==
  IF i = 0 THEN 0 ELSE Total(o, {d \in Duration : d <= bounds[i]})

(* A quantile taken while commands record brackets the truth: the next     *)
(* lower bound is too low for the observations that were finished when the *)
(* call began, and the bound returned covers the rank by observations      *)
(* finished when it returns (Observe's count before bucket, Quantile's     *)
(* count before buckets).  Past the last bound only the former holds.      *)
QuantileIsBracketed ==
  quantile.at \in {"found", "past"} =>
    LET rank == quantile.percent * quantile.t
    IN  /\ 100 * atMost(quantile.before, quantile.i - 1) < rank
        /\ quantile.at = "found" => 100 * atMost(observed, quantile.i) >= rank

(* Between commands the counters tell one story: every command received    *)
(* was redirected or is in one bucket, and the sum is that of the          *)
(* durations.  Every GET served was a hit, a miss or an error; for other   *)
(* commands hits and misses stay zero, and no more than were served failed *)
(* (Handle, recordOutcome, Observe).                                       *)
CountersAgree ==
  (\A g \in Recorder : rec[g].at = "idle") =>
    /\ count = stats.total - moved
    /\ name = "GET" => count = stats.hits + stats.misses + stats.errors
    /\ name # "GET" => /\ stats.hits = 0 /\ stats.misses = 0
                       /\ stats.errors <= count
    /\ count = Total(counts, Bucket)
    /\ sum = Total([d \in Duration |-> d * observed[d]], Duration)
=============================================================================
