------------------------------ MODULE MCMemory ------------------------------
(***************************************************************************)
(* Memory at three levels, one per behaviour (part): the frame allocator,  *)
(* the address spaces that share its frames, and the list of areas that    *)
(* describes one address space.  The variables of the other two levels     *)
(* keep their initial values.                                              *)
(***************************************************************************)
EXTENDS Pmm, Cow, VmAreas

CONSTANT Levels     \* the levels a run looks at

VARIABLE part

(* The allocator on a window of six eight-byte frames that starts at       *)
(* address 16.  The first boot map leaves all the frames usable; the       *)
(* second has an unaligned usable range and a reserved range that cuts     *)
(* into it, and the heap already reaches into frame 0 when pmm_init runs.  *)
MCBootMaps == {[usable |-> {<<0, 64>>}, reserved |-> {}],
               [usable |-> {<<20, 30>>, <<31, 56>>}, reserved |-> {<<46, 47>>}]}

(* Two processes whose address spaces have two pages under one page        *)
(* table, and too few frames for all of them.                              *)
SomeMappings == {<<{0}, "anon", {"r", "w"}>>, <<{1}, "file", {"r", "w"}>>}

(* Pages of two units: the image at 0, two pages for mmap, two for the     *)
(* heap and one for the stack; a text segment on a page boundary.          *)
Stack == Area(12, 14, {"r", "w"}, {"r", "w"}, "stack", 0, 0, 0)
TextImage == <<Area(0, 4, {"r"}, {"r"}, "elf", 0, 3, 0),
               Stack>>

\* A data segment that begins in the middle of its first page.
UnalignedImage == <<Area(0, 4, {"r", "w"}, {"r", "w"}, "elf", 1, 4, 1), Stack>>

MCInit ==
    /\ part \in Levels
    /\ Init /\ CowInit /\ VmInit
    /\ part # "frames" => boot = {}
    /\ part # "spaces" => file = CHOOSE f \in Files : TRUE

MCNext ==
    \/ part = "frames" /\ Next /\ UNCHANGED <<part, cowVars, vmVars>>
    \/ part = "spaces" /\ CowNext /\ UNCHANGED <<part, vars, vmVars>>
    \/ part = "areas" /\ VmNext /\ UNCHANGED <<part, vars, cowVars>>

MCSpec == MCInit /\ [][MCNext]_<<part, vars, cowVars, vmVars>>

\* Which frame a slot holds does not matter, only which slots share it.
UpToFrameNames ==
    IF part # "spaces" THEN <<part, vars, vmVars>>
    ELSE <<part,
           {<<Holders(k, f), k.pm.refcount[f], k.mem[f]>> :
               f \in {k.hold[s] : s \in Slots} \ {None}},
           k.flag, k.pm.free_count, area, live, loop, cached, file>>

=============================================================================
