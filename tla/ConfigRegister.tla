--------------------------- MODULE ConfigRegister ---------------------------
(***************************************************************************)
(* What the configuration workflow promises to whoever uses it, without    *)
(* its steps: one configuration file and one running configuration, which  *)
(* a save replaces together, which a reload brings together again, and     *)
(* which stay equal as long as nobody disturbs the file from outside.      *)
(***************************************************************************)
CONSTANTS File,       \* what the configuration file can hold
          Serveable   \* the files a runtime state can be built from

VARIABLES up,         \* the process runs
          running,    \* the file the running configuration was loaded from
          file,       \* the file as a reload or a save finds it
          disturbed   \* the file was changed behind the program's back, or a
                      \* write to it failed, since it was last loaded
rvars == <<up, running, file, disturbed>>

Init ==
  /\ up = TRUE
  /\ file \in Serveable
  /\ running = file
  /\ disturbed = FALSE

Load(f) ==
  /\ f \in Serveable
  /\ running' = f
  /\ file' = f
  /\ disturbed' = FALSE

\* A save commits: file and running configuration change in one step.
Save == up /\ UNCHANGED up /\ \E f \in File : Load(f)

\* A reload, or a start of the process, brings the file into memory.
Reload == up' = TRUE /\ Load(file)

\* An edit from outside or a write that failed half-way.
Disturb ==
  /\ disturbed' = TRUE
  /\ file' \in File
  /\ UNCHANGED <<up, running>>

\* The process dies, perhaps in the middle of a save.
Crash ==
  /\ up /\ up' = FALSE
  /\ file' \in File
  /\ UNCHANGED <<running, disturbed>>

Next == Save \/ Reload \/ Disturb \/ Crash

Spec == Init /\ [][Next]_rvars
=============================================================================
