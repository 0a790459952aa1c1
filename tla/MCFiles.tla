------------------------------ MODULE MCFiles ------------------------------
(* Four machines: a disk with an SFS volume that is mounted and unmounted,  *)
(* the same with current directories and swap, the semaphore file system,   *)
(* and the emulator file system with the null device.                       *)
EXTENDS Files

Kd(name, raw, f) == [name |-> name, raw |-> raw, fs |-> f]
P(from, name) == [from |-> from, name |-> name]

Disk == [kd |-> <<Kd("lhd0", TRUE, NoFs)>>, devs |-> {"lhd0"}, exist |-> {}, mountable |-> {"lhd0"}, swappable |-> {}, syncs |-> FALSE,
         paths |-> {P("lhd0", "a"), P("lhd0", "b")}, dirs |-> {},
         flags |-> {{"write", "creat"}}, ios |-> {<<1, 6>>}, cuts |-> {2}, nfds |-> 1]

Dirs == [Disk EXCEPT !.paths = {P("vol", "a"), P("", "a"), P("lhd0raw", "")},
                     !.dirs = {P("lhd0", ""), P("lhd0raw", "")},
                     !.flags = {{"write", "creat", "excl"}, {"write", "trunc"}, {"trunc"}},
                     !.ios = {<<0, 1>>, <<3, 3>>}, !.cuts = {0, 2}, !.nfds = 1,
                     !.mountable = {"lhd0", "lhd1"}, !.swappable = {"lhd0"}, !.syncs = TRUE]

Sem == [kd |-> <<Kd("sem", FALSE, "sem")>>, devs |-> {}, exist |-> {}, mountable |-> {}, swappable |-> {}, syncs |-> TRUE,
        paths |-> {P("sem", "a"), P("", "b"), P("sem", "")}, dirs |-> {P("sem", "")},
        flags |-> {{}, {"write", "creat"}}, ios |-> {<<0, 1>>, <<0, 2>>}, cuts |-> {1, 3}, nfds |-> 2]

Emu == [kd |-> <<Kd("null", FALSE, NoFs), Kd("emu0", FALSE, "emu")>>, devs |-> {"null"}, exist |-> {"a"},
        mountable |-> {}, swappable |-> {}, syncs |-> TRUE, paths |-> {P("emu0", "a"), P(":", "b"), P("/", ""), P("null", "")},
        dirs |-> {P("emu0", ""), P("null", "")},
        flags |-> {{}, {"write", "creat"}, {"write", "trunc"}}, ios |-> {<<0, 1>>}, cuts |-> {0}, nfds |-> 2]

AllMachines == {Disk, Dirs, Sem, Emu}
=============================================================================
