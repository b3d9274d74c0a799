-------------------------------- MODULE Startup --------------------------------
(***************************************************************************)
(* The watch payload from its launch to its run loop (src/main_ps5.c): it  *)
(* opens the log, loads the configuration or writes a template of it,      *)
(* opens the log again at the level that says, creates the watch paths,    *)
(* and then asks ua_driver_create whether it may run.                      *)
(*                                                                         *)
(* Launches share the log (module Log) and config.ini (module Config), and *)
(* both are touched before the lock is looked at.  What the lock answers   *)
(* is left open here: what is said of the two files holds whether it keeps *)
(* launches apart (module InstanceLock) or not.                            *)
(***************************************************************************)
EXTENDS Log, Config

CONSTANTS UserFiles     \* the files the user may put in place of config.ini

Missing == <<Line("missing", Empty)>>

ASSUME StartupAssumption ==
  /\ UserFiles \subseteq Seq([key : STRING, value : Int])
  /\ UserFiles \cap ({Missing, Template, <<>>} \cup CutTemplates) = {}

VARIABLES
  pc,        \* where each launch is
  due,       \* lines it has still to log before it goes on
  conf,      \* its ua_config
  file,      \* the lines of config.ini, or Missing
  read       \* history: the lines each launch has loaded, or Missing

configVars  == <<conf, file, read>>
startupVars == <<logVars, pc, due, configVars>>

StartupInit == /\ LogInit
               /\ pc = [i \in Launch |-> "off"]
               /\ due = [i \in Launch |-> 0]
               /\ conf = [i \in Launch |-> Defaults]
               /\ file = Missing
               /\ read = [i \in Launch |-> Missing]

Ready(i, at) == pc[i] = at /\ due[i] = 0 /\ log[i].rotating = "no"
GoTo(i, at, lines) == pc' = [pc EXCEPT ![i] = at] /\ due' = [due EXCEPT ![i] = lines]

-------------------------------------------------------------------------------
(* The log is opened whether that works or not; "FGG Unpack starting". *)
Begin(i) == /\ Ready(i, "off")
            /\ LogOpen(i, INFO)
            /\ GoTo(i, "config", 1)
            /\ UNCHANGED configVars

Say(i) == /\ due[i] > 0
          /\ LogWrite(i, INFO) /\ log[i].rotating = "no"
          /\ due' = [due EXCEPT ![i] = @ - 1]
          /\ UNCHANGED <<pc, configVars>>

RotateLog(i) == Rotate(i) /\ UNCHANGED <<pc, due, configVars>>

Loaded(i, f, c) == /\ read' = [read EXCEPT ![i] = f]
                   /\ conf' = [conf EXCEPT ![i] = c]

FaultOutsideLog == Fault /\ UNCHANGED <<disk, log, said, crashes, excess, shared>>

(* A line that cannot be read ends the loading as the end of the file does.*)
LoadConfig(i) ==
  /\ Ready(i, "config") /\ file # Missing
  /\ \E n \in 0..Len(file) :
       LET lines == SubSeq(file, 1, n)
       IN  /\ IF n = Len(file) THEN UNCHANGED logVars ELSE FaultOutsideLog
           /\ Loaded(i, lines, Load(lines))
           /\ GoTo(i, "reopen", Warnings(lines))
  /\ UNCHANGED file

(* config.ini could not be opened for reading, which is taken to mean that *)
(* there is none: it is opened for writing, and is empty until it has been *)
(* closed.  The defaults are in force either way.                          *)
BeginTemplate(i) ==
  /\ Ready(i, "config")
  /\ Loaded(i, Missing, Defaults)
  /\ \/ /\ IF file = Missing THEN UNCHANGED logVars ELSE FaultOutsideLog
        /\ file' = <<>>
        /\ GoTo(i, "template", 0)
     \/ /\ FaultOutsideLog
        /\ GoTo(i, "reopen", 1)
        /\ UNCHANGED file

(* A write or the close may fail, and what was written then stays. *)
EndTemplate(i) ==
  /\ Ready(i, "template")
  /\ \/ file' = Template /\ GoTo(i, "created", 1) /\ UNCHANGED logVars
     \/ /\ FaultOutsideLog
        /\ file' \in CutTemplates
        /\ GoTo(i, "reopen", 1)
  /\ UNCHANGED <<conf, read>>

(* Mutant of ReopenLog: the flag is taken for a level. *)
ReopenLogFlag(i) ==
  /\ Ready(i, "reopen") \/ Ready(i, "created")
  /\ LogOpen(i, conf[i].debug)
  /\ GoTo(i, "driver", Len(conf[i].watchpath))
  /\ UNCHANGED configVars

(* The level of the configuration, a line when the template was created,   *)
(* and one for each watch path, which is made when it is not there.        *)
ReopenLog(i) ==
  /\ Ready(i, "reopen") \/ Ready(i, "created")
  /\ LogOpen(i, IF conf[i].debug = 1 THEN DEBUG ELSE INFO)
  /\ GoTo(i, "driver",
          Len(conf[i].watchpath) + IF pc[i] = "created" THEN 1 ELSE 0)
  /\ UNCHANGED configVars

CreateDriver(i) == /\ Ready(i, "driver")
                   /\ GoTo(i, "running", 0)
                   /\ UNCHANGED <<logVars, configVars>>

(* The lock is held or cannot be made, or there is no memory. *)
DriverRefused(i) == /\ Ready(i, "driver")
                    /\ GoTo(i, "refused", 1)
                    /\ UNCHANGED <<logVars, configVars>>

Ends(i) == GoTo(i, "off", 0) /\ Loaded(i, Missing, Defaults) /\ UNCHANGED file

Leave(i) == Ready(i, "refused") /\ LogClose(i) /\ Ends(i)

(* A line of the driver or of a job. *)
Work(i) == /\ pc[i] = "running"
           /\ \E lvl \in {ERROR, INFO, DEBUG} : LogWrite(i, lvl)
           /\ UNCHANGED <<pc, due, configVars>>

Crash(i) == /\ pc[i] # "off"
            /\ LogCrash(i)
            /\ Ends(i)

(* The user, not while a launch is on its way to its run loop. *)
EditConfig == /\ file \notin UserFiles
              /\ \A i \in Launch : pc[i] \in {"off", "running"}
              /\ file' \in UserFiles
              /\ UNCHANGED <<logVars, pc, due, conf, read>>

LaunchStep(i) ==
  \/ Begin(i) \/ Say(i) \/ RotateLog(i) \/ LoadConfig(i) \/ BeginTemplate(i)
  \/ EndTemplate(i) \/ ReopenLog(i) \/ CreateDriver(i) \/ DriverRefused(i)
  \/ Leave(i) \/ Work(i) \/ Crash(i)

StartupNext == EditConfig \/ \E i \in Launch : LaunchStep(i)

StartupSpec == StartupInit /\ [][StartupNext]_startupVars
-------------------------------------------------------------------------------
StartupTypeOK ==
  /\ LogTypeOK
  /\ pc \in [Launch -> {"off", "config", "template", "created", "reopen", "driver",
                         "running", "refused"}]
  /\ due \in [Launch -> Nat]
  /\ file \in UserFiles \cup {Missing, Template, <<>>} \cup CutTemplates

(* ua_config.c:231-234, README "Configuration": whatever the lines of the  *)
(* file and their order, and however many of them could be read, a launch  *)
(* has for every key the value of the last good line it read, and the      *)
(* default where it read none; the watch paths are those listed.  Only a   *)
(* default that is the first of several is dropped, though README.md:111   *)
(* has "Repeat for more than one".                                         *)
ConfigIsAsWritten ==
  \A i \in Launch : pc[i] = "reopen" /\ read[i] # Missing =>
    /\ \A k \in BoolKey \cup NumberKey : conf[i][k] = Says(read[i], k)
    /\ \/ conf[i].watchpath = UsablePaths(read[i])
       \/ UsablePaths(read[i]) = <<>> /\ conf[i].watchpath = <<UA_DEFAULT_WATCHPATH>>
       \/ DefaultDropped(read[i])

Begins(lines, f) == \E n \in 0..Len(f) : lines = SubSeq(f, 1, n)

(* ua_config.c:22, 254-256, 273-275: deleting, overwriting and symbolic    *)
(* links are on only where a line of the user's own file that the launch   *)
(* has read turns them on, and a launch that has read nothing else than    *)
(* the template, or the start of it, runs with the defaults.  Another      *)
(* launch may be writing the template, one may have died or failed while   *)
(* writing it, and any line may have been the last one that could be read: *)
(* a template that was cut can change other values, but not these.         *)
DangerIsOptIn ==
  \A i \in Launch :
    /\ \A k \in {"delete_after_extract", "overwrite", "allow_symlinks"} :
         conf[i][k] # 0 =>
           /\ \E u \in UserFiles : Begins(read[i], u)
           /\ \E n \in DOMAIN read[i] : /\ read[i][n].key = k
                                        /\ Accepted(k, read[i][n].value)
                                        /\ Parsed(k, read[i][n].value) = 1
    /\ read[i] = Missing \/ Begins(read[i], Template) => conf[i] = Defaults

(* README.md:105: config.ini is "written with commented defaults on first  *)
(* run".  A file of the user's own is there from then on, until the user   *)
(* replaces it.                                                            *)
(* It fails (README.md, disagreement 10).                                  *)
UsersFileStays == [][(file \in UserFiles => file' \in UserFiles)]_file
===============================================================================
