--------------------------------- MODULE MCOs ---------------------------------
(* Inputs of os.c for TLC: start times and program lengths of the processes, *)
(* as the input files would list them.                                       *)
EXTENDS OsPool

\* Processes that are added one slot after the other, or that start out of
\* order after a slot without any, on CPUs with a quantum of 2.  A program is
\* empty, ends with its quantum, or is preempted; one of them is.
ManyInputs == [start_time : {<<0, 0, 2>>, <<1, 0, 1>>},
               size       : {s \in [Procs -> {0, 2, 3}] : \E p \in Procs : s[p] = 3}]

\* The example of docs.md, one CPU and a program of one instruction.
DocExample == [start_time : {<<1>>}, size : {<<1>>}]
=============================================================================
