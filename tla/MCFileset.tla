------------------------------ MODULE MCFileset ------------------------------
(* Filesets and flowop lists for TLC.  The lists are those of the          *)
(* workloads in src/filebench/workloads, without the flowops that do not   *)
(* touch the fileset.                                                      *)
EXTENDS Fileset

Op(op, fd) == [op |-> op, fd |-> fd, indexed |-> FALSE]
Indexed(op, fd) == [op |-> op, fd |-> fd, indexed |-> TRUE]

(* varmail.f: delete, create, close, open, close.                          *)
Varmail == <<Op("delete", 0), Op("create", 1), Op("close", 1), Op("open", 1), Op("close", 1)>>
(* networkfs.f, rmw: the file is deleted through its old descriptor slot.  *)
Rmw == <<Indexed("open", 1), Op("close", 1), Op("delete", 1), Op("stat", 0)>>
(* A file is deleted while this thread has it open, and then closed.       *)
DeleteOpen == <<Op("open", 1), Op("delete", 1), Op("close", 1)>>
(* webserver.f: opened by the first read.                                  *)
Web == <<Op("io", 1), Op("io", 1), Op("close", 1)>>
(* Descriptor misuse: a second open, a second close.                       *)
Misuse == <<Op("close", 1)>>
OpenTwice == <<Op("open", 1), Op("open", 1)>>
(* makedirs.f, removedirs.f, listdirs.f.                                   *)
Dirs == <<Op("makedir", 0), Op("removedir", 0), Op("listdir", 0)>>

FileScripts == {Varmail, Rmw, DeleteOpen, Web, OpenTwice, Misuse, Dirs}
Readers == {Web}
DirScripts == {<<Op("makedir", 0)>>}

Two == [k \in Kind |-> IF k = "file" THEN 2 ELSE 1]
Small == [k \in Kind |-> 1]

AllSettings == [paralloc : BOOLEAN, allDone : {FALSE}, faults : BOOLEAN]
Quiet == {[paralloc |-> FALSE, allDone |-> FALSE, faults |-> FALSE]}
Done == {[paralloc |-> FALSE, allDone |-> TRUE, faults |-> FALSE]}
=============================================================================
