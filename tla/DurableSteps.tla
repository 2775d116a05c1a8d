---------------------------- MODULE DurableSteps ----------------------------
(***************************************************************************)
(* A handler that writes several files, one after another, under the state *)
(* lock.  It is described by the files before it (start), by its writes,   *)
(* and by the memory it ends with (done).  A write is a record             *)
(*     disk     the files once the write is durable                        *)
(*     during   the memory while the write is attempted                    *)
(*     rewrite  TRUE for an atomic replacement, FALSE for an append        *)
(* so that every way the handler can end is one element of Outcomes.       *)
(***************************************************************************)
EXTENDS Integers, Sequences

(* The files before write i. *)
FilesBefore(start, writes, i) == IF i = 1 THEN start ELSE writes[i - 1].disk

(* All the writes are durable. *)
Completed(start, writes, done) ==
    {[disk |-> FilesBefore(start, writes, Len(writes) + 1), node |-> done, end |-> "done"]}

(* The process stops: some prefix of the writes is durable, memory is gone. *)
Stopped(start, writes, halted) ==
    {[disk |-> FilesBefore(start, writes, i), node |-> halted, end |-> "crash"]
        : i \in 1..Len(writes) + 1}

(* A write fails.  A failed append is cut off again, or, when that fails too,
   its file is fenced and the process loses its authority to write; a failed
   replacement has happened or not. *)
Failed(start, writes) ==
    LET end(i, disk, node) == [disk |-> disk, node |-> node, end |-> "error"]
    IN UNION {LET before == FilesBefore(start, writes, i) IN
              IF writes[i].rewrite
              THEN {end(i, d, writes[i].during) : d \in {before, writes[i].disk}}
              ELSE {end(i, before, writes[i].during)}
                   \cup {end(i, d, [writes[i].during EXCEPT !.authority = FALSE])
                            : d \in {before, writes[i].disk}}
              : i \in DOMAIN writes}

Outcomes(start, writes, done, halted) ==
    Completed(start, writes, done) \cup Stopped(start, writes, halted) \cup Failed(start, writes)

=============================================================================
