------------------------------ MODULE MCFiles -------------------------------
(***************************************************************************)
(* The files of processes and the tees of the console, in one run: which   *)
(* of the two, and what the calls are made with, is chosen at the start.   *)
(***************************************************************************)
EXTENDS Files

VARIABLES part, cts, w, seen, done
tvars == <<cts, w, seen, done>>

Console == INSTANCE ConsoleTees
           WITH ts <- cts, TEES <- 2, TEES_EACH <- 2, TEE_CHUNK <- 2, ECHO_MAX <- 1, NoFile <- 0,
                Owners <- {1, 2}, TeeFiles <- {1, 2}, ROOM <- 1, SEEN <- 2,
                Outputs <- {<<"o">>}, Echoes <- {<<"e">>}

Order == <<".", "..", "a", "b", "bin", "dev", "null", "sh">>
Archive == <<[name |-> "sh", data |-> <<1>>]>>
At(name) == <<"/", name>>
ToChild == <<[child |-> 0, parent |-> 0]>>
Use == [files |-> 1, paths |-> {}, flags |-> {}, maps |-> {}, lens |-> {},
        offsets |-> {}, sizes |-> {}, tees |-> FALSE]

(* Directories made, entered, moved and removed by two processes; a file   *)
(* removed under fds and tees; a listing of a directory that changes; an   *)
(* offset that parent and child share; the filesystems that never change.  *)
AllUses ==
    {[Use EXCEPT !.paths = {At("a"), <<"b">>}, !.flags = {{"READ"}}, !.maps = {<<>>}],
     [Use EXCEPT !.files = 2, !.paths = {At("a")}, !.flags = {{"WRITE", "CREATE"}}, !.maps = {ToChild},
                 !.tees = TRUE],
     [Use EXCEPT !.paths = {<<"/">>, At("a"), At("b")}, !.flags = {{"READ"}}, !.lens = {1}, !.offsets = {0}],
     [Use EXCEPT !.paths = {At("a")}, !.flags = {{"READ", "WRITE", "CREATE"}, {"WRITE", "APPEND"}},
                 !.maps = {ToChild}, !.lens = {2}, !.offsets = {-1, 1}, !.sizes = {1}],
     [Use EXCEPT !.paths = {At("dev") \o At("null"), At("bin") \o At("sh"), At("bin"), <<"..">>},
                 !.flags = {{"READ", "WRITE"}, {"READ"}}, !.lens = {1}, !.offsets = {0}, !.sizes = {0}]}

(* A new name that leads through the directory that is moved. *)
ThroughItself == {[Use EXCEPT !.paths = {At("a"), At("a") \o At("..") \o At("b")}]}

PartInit ==
    /\ FilesInit
    /\ Console!Init
    /\ \/ part = "files" /\ w.room = 0
       \/ part = "tees" /\ use = CHOOSE u \in Uses : TRUE

PartNext ==
    /\ UNCHANGED part
    /\ \/ part = "files" /\ FilesNext /\ UNCHANGED tvars
       \/ part = "tees" /\ Console!Next /\ UNCHANGED fvars

PartSpec == PartInit /\ [][PartNext]_<<part, fvars, tvars>>

-----------------------------------------------------------------------------
(* Reading goes on where it stopped, of a file and of a directory: see     *)
(* Files' ListedOnce and OffsetsExact (file.rs, syscall/files.rs).         *)
ReadsGoOn == ListedOnce /\ OffsetsExact

(* A transcript has everything that was shown, or its process is told: see *)
(* ConsoleTees (kernel/src/tee.rs, tty.rs).                                *)
TeesComplete == Console!TeesComplete
=============================================================================
