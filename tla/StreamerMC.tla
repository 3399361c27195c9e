----------------------------- MODULE StreamerMC -----------------------------
(* Uploads that are within the limit and over it, and downloads. *)
EXTENDS Streamer

Task(operation, limit) == [operation |-> operation, limit |-> limit]

MCTasks == { Task("receive", 1), Task("receive", 3), Task("send", 0) }
EofTasks == { Task("receive", 4) }

=============================================================================
