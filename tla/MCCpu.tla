--------------------------------- MODULE MCCpu ---------------------------------
(* Programs for TLC.                                                         *)
EXTENDS Cpu

L(op, args) == [op |-> op, args |-> args]
F(size, lines) == [size |-> size, lines |-> lines]

Allocates == F(4, <<L("alloc", <<2, 1>>), L("write", <<7, 1, 1>>), L("calc", << >>),
                    L("free", <<1>>)>>)
Other     == F(4, <<L("alloc", <<1, 0>>), L("alloc", <<1, 1>>), L("free", <<0>>),
                    L("read", <<1, 0, 0>>)>>)

\* Three lines of a size of four: free without an operand.
Short     == F(4, <<L("alloc", <<2, 0>>), L("write", <<7, 0, 0>>), L("free", <<0>>)>>)

\* System calls with operands missing and repeated at the end of the file.
Calls     == F(4, <<L("alloc", <<1, 1>>), L("kmem_cache_alloc", <<1, 0>>),
                    L("syscall", <<17, 2, 0, 1>>)>>)
Memmap    == F(3, <<L("syscall", <<17>>), L("alloc", <<2, 0>>), L("syscall", <<0>>)>>)

\* The index behind a symbol table of two entries.
Behind    == F(4, <<L("alloc", <<2, 2>>), L("alloc", <<2, 0>>), L("free", <<2>>),
                    L("write", <<7, 2, 0>>)>>)

\* Missing operands in the middle, so that anything may be read.
Missing   == F(3, <<L("write", <<7>>), L("copy_to_user", <<1, 0>>), L("alloc", <<2>>)>>)
NoIndex   == F(2, <<L("alloc", <<1, 0>>), L("read", << >>)>>)

\* A number too many, and an unknown name.
Leftover  == F(2, <<L("free", <<1, 0>>), L("calc", << >>)>>)
Unknown   == F(1, <<L("sleep", <<5>>)>>)

AllFiles == {Allocates, Other, Short, Calls, Memmap, Behind, Missing, NoIndex,
             Leftover, Unknown}
Reader   == {Other}
================================================================================
