------------------------------ MODULE MCWorker ------------------------------
(* Worker on small instances. *)
EXTENDS Worker, TLC

\* Runners are interchangeable; jobs are not, the queue serves low ids first.
RunnerSymmetry == Permutations(Runner)

\* Encoding is switched on and off with the worker's own button only, SetPaused;
\* the settings page, which pauses without cancelling, stays closed.
ButtonSpec == Init /\ [][Next /\ ~PutPaused]_vars

\* Nobody pauses encoding.
UnpausedSpec == Init /\ [][Next /\ ~paused']_vars /\ Fairness

=============================================================================
