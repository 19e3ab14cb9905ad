-------------------------------- MODULE MCVm --------------------------------
(* Two processes and two programs in a few pages of memory. *)
EXTENDS Vm, TLC

Seg(vaddr, filesz, memsz, read) ==
  [load |-> TRUE, vaddr |-> vaddr, filesz |-> filesz, memsz |-> memsz, read |-> read]
Note == [load |-> FALSE, vaddr |-> 0, filesz |-> 0, memsz |-> 0, read |-> TRUE]
\* sh has a note that is not loaded and a .bss; the others fail half-way.
Files == ("sh" :> [elf |-> TRUE, segs |-> <<Note, Seg(0, 1, 3, TRUE)>>, argsfit |-> TRUE])
      @@ ("text" :> [elf |-> FALSE, segs |-> <<>>, argsfit |-> TRUE])
      @@ ("short" :> [elf |-> TRUE, segs |-> <<Seg(0, 2, 2, FALSE)>>, argsfit |-> TRUE])
      @@ ("bad" :> [elf |-> TRUE, segs |-> <<Seg(0, 2, 2, TRUE), Seg(2, 2, 1, TRUE)>>, argsfit |-> TRUE])
      @@ ("args" :> [elf |-> TRUE, segs |-> <<Seg(0, 2, 2, TRUE)>>, argsfit |-> FALSE])
\* From 2 and 8 bytes no sum of these is 0: a process never shrinks to nothing.
Changes == {-3, 3, 65}
=============================================================================
