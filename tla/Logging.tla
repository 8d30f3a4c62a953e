-------------------------------- MODULE Logging --------------------------------
(***************************************************************************)
(* The logger of every service (five copies of one file): goroutines       *)
(* append lines to the file of the hour, which whoever holds the mutex     *)
(* opens when the hour has changed, and to the terminal until stopConsole. *)
(* A line carries the time at which it was logged, the file is chosen when *)
(* it is written, and the hour may end in between.                         *)
(***************************************************************************)
EXTENDS Naturals, FiniteSets

CONSTANTS Writers,    \* goroutines that log
          NoWriter,   \* the mutex is free
          LastHour    \* bound: hours the clock goes through

ASSUME LoggingAssumption ==
    NoWriter \notin Writers /\ IsFiniteSet(Writers) /\ LastHour \in Nat

Hours == 0 .. LastHour

VARIABLES hour,       \* the wall clock
          bucket,     \* rotatingWriter.bucket
          openFile,   \* the hour whose file is open
          holder,     \* who holds the mutex
          seen,       \* the hour that the holder read from the clock
          line,       \* line[g]: how far g is with its line
          stamp,      \* stamp[g]: the hour in which g logged it
          loud,       \* loud[g]: whether the console core accepted it
          files,      \* files[h]: the stamps of the lines in the file of h
          quiet,      \* whether stopConsole was called
          tail        \* lines that reached the terminal after that

loggingVars == <<hour, bucket, openFile, holder, seen, line, stamp, loud, files, quiet, tail>>

LoggingTypeOK ==
    /\ hour \in Hours /\ bucket \in Hours /\ openFile \in Hours /\ seen \in Hours
    /\ holder \in Writers \cup {NoWriter}
    /\ line \in [Writers -> {"none", "waiting", "rotate", "write", "echo"}]
    /\ stamp \in [Writers -> Hours] /\ loud \in [Writers -> BOOLEAN]
    /\ files \in [Hours -> SUBSET Hours]
    /\ quiet \in BOOLEAN /\ tail \in Nat

\* newRotatingWriter has opened the first file; if it fails there is no service.
LoggingInit ==
    /\ hour = 0 /\ bucket = 0 /\ openFile = 0 /\ holder = NoWriter /\ seen = 0
    /\ line = [g \in Writers |-> "none"] /\ stamp = [g \in Writers |-> 0]
    /\ loud = [g \in Writers |-> FALSE] /\ files = [h \in Hours |-> {}]
    /\ quiet = FALSE /\ tail = 0

At(g, next) == line' = [line EXCEPT ![g] = next]

\* The entry gets its time, and each core says whether it takes it.
LogLine(g) ==
    /\ line[g] = "none" /\ At(g, "waiting")
    /\ stamp' = [stamp EXCEPT ![g] = hour] /\ loud' = [loud EXCEPT ![g] = ~quiet]
    /\ UNCHANGED <<hour, bucket, openFile, holder, seen, files, quiet, tail>>

\* Write: the mutex is taken and the clock is read.
LockWriter(g) ==
    /\ line[g] = "waiting" /\ holder = NoWriter
    /\ holder' = g /\ seen' = hour /\ At(g, IF hour = bucket THEN "write" ELSE "rotate")
    /\ UNCHANGED <<hour, bucket, openFile, stamp, loud, files, quiet, tail>>

Unlock(g) == /\ holder' = NoWriter /\ seen' = 0
             /\ At(g, "echo") /\ stamp' = [stamp EXCEPT ![g] = 0]

\* The file of the hour is opened and the one before is closed.
RotateLocked(g) ==
    /\ line[g] = "rotate" /\ At(g, "write") /\ openFile' = seen /\ bucket' = seen
    /\ UNCHANGED <<hour, holder, seen, stamp, loud, files, quiet, tail>>

\* What a bug would do: note the new hour before the file is open.
RotateFailsLate(g) ==
    /\ line[g] = "rotate" /\ Unlock(g) /\ bucket' = seen
    /\ UNCHANGED <<hour, openFile, loud, files, quiet, tail>>

\* The directory or the file cannot be made: the line is not written, the next
\* one tries again.
RotateFails(g) ==
    /\ line[g] = "rotate" /\ Unlock(g)
    /\ UNCHANGED <<hour, bucket, openFile, loud, files, quiet, tail>>

WriteLine(g) ==
    /\ line[g] = "write" /\ Unlock(g)
    /\ files' = [files EXCEPT ![openFile] = @ \cup {stamp[g]}]
    /\ UNCHANGED <<hour, bucket, openFile, loud, quiet, tail>>

\* The console core writes after the file core, also if that one failed.
Echo(g) ==
    /\ line[g] = "echo" /\ At(g, "none") /\ loud' = [loud EXCEPT ![g] = FALSE]
    /\ tail' = IF loud[g] /\ quiet THEN tail + 1 ELSE tail
    /\ UNCHANGED <<hour, bucket, openFile, holder, seen, stamp, files, quiet>>

StopConsole ==
    /\ ~quiet /\ quiet' = TRUE
    /\ UNCHANGED <<hour, bucket, openFile, holder, seen, line, stamp, loud, files, tail>>

HourPasses ==
    /\ hour < LastHour /\ hour' = hour + 1
    /\ UNCHANGED <<bucket, openFile, holder, seen, line, stamp, loud, files, quiet, tail>>

LoggingNext ==
    \/ \E g \in Writers : \/ LogLine(g) \/ LockWriter(g) \/ RotateLocked(g)
                          \/ RotateFails(g) \/ WriteLine(g) \/ Echo(g)
    \/ StopConsole \/ HourPasses

LoggingSpec == LoggingInit /\ [][LoggingNext]_loggingVars

-------------------------------------------------------------------------------
(* Properties.                                                             *)

\* No line is put in the file of an hour that was over when it was logged,
\* whoever rotates meanwhile and also after a rotation that failed; and once
\* stopConsole was called, the terminal shows only what was under way then, at
\* most one line of each goroutine (logging.go:57-61, 114-116).
LinesFindTheirHour ==
    /\ \A h \in Hours : files[h] \subseteq 0 .. h
    /\ \A g \in Writers : line[g] = "write" => stamp[g] <= openFile /\ openFile = seen
    /\ tail + Cardinality({g \in Writers : quiet /\ loud[g]}) <= Cardinality(Writers)
================================================================================
