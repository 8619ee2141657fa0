------------------------------- MODULE Programs -------------------------------
(***************************************************************************)
(* What a process does: it is "a copy of a program stored on disk"         *)
(* (docs.md), whose lines are executed in the order of the file, each once *)
(* and with the operands that stand there.                                 *)
(***************************************************************************)
EXTENDS Naturals, Sequences, SequencesExt

CONSTANTS Procs,
          Operands(_),  \* how many operands an operation takes
          Uninit        \* an operand that the file does not give

VARIABLES program,      \* the file of each process: its lines and their number
          log           \* the instructions each process has executed

vars == <<program, log>>

Line(op, given) ==
  [op |-> op, args |-> [i \in 1 .. Operands(op) |->
                          IF i <= Len(given) THEN given[i] ELSE Uninit]]

Init == log = [p \in Procs |-> << >>]

Executes(p, instruction) == /\ Len(log[p]) < program[p].size
                            /\ log' = [log EXCEPT ![p] = Append(@, instruction)]
                            /\ UNCHANGED program

NextLine(p) == LET k == Len(log[p]) + 1
               IN  /\ k <= Len(program[p].lines)
                   /\ Executes(p, Line(program[p].lines[k].op,
                                       program[p].lines[k].args))

(* A size above the number of lines: the last operation goes on, with its    *)
(* operands or without.                                                      *)
Beyond(p) == LET last == Last(program[p].lines)
             IN  /\ Len(log[p]) >= Len(program[p].lines)
                 /\ \/ Executes(p, Line(last.op, last.args))
                    \/ Executes(p, Line(last.op, << >>))

Next == \E p \in Procs : NextLine(p) \/ Beyond(p)

Spec == Init /\ [][Next]_vars
===============================================================================
