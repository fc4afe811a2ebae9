------------------------------ MODULE MainLoop ------------------------------
(***************************************************************************)
(* main(): opens the input, then reads line after line and hands the       *)
(* frames to TransactionMgr, pauses when SIGINT asks for it, counts what   *)
(* it does, and cleans up.  TransactionMgr, and Engine below it, are run   *)
(* as they are; Parser and ConsoleDisplay are seen from outside: a line is *)
(* a frame or not, the terminal belongs to curses or to the shell.         *)
(***************************************************************************)
EXTENDS TransactionMgr

CONSTANTS
  Inputs,      \* "file", "stdin": the input may be either
  LineLimit,   \* bounds the input
  SignalLimit, \* bounds how often SIGINT arrives
  Key,         \* keys the user may press, among them "q"
  Enter,       \* the key that ends what is typed
  reportGiven  \* Settings::reportPath is not empty

ASSUME MainAssumption ==
  /\ LineLimit \in Nat /\ LineLimit <= TraceLength /\ SignalLimit \in Nat
  /\ reportGiven \in BOOLEAN /\ Enter \in Key

VARIABLES
  at,          \* where main() is
  sigint,      \* what SIGINT does: "default", "ignore", "pause", "curses"
  pauseExecution,
  wanted,      \* SIGINT has asked for a pause that has not come yet
  parsed,      \* the frame at hand; NoFrame for a line that holds none
  typed,       \* keys that wgetch() has not returned yet
  terminal,    \* "shell", "curses"
  syncFile,    \* .sync_file_handle exists
  stats,       \* class Stats
  report,      \* the stats in the report; NoReport when there is none
  ret,         \* main()'s ret
  signals      \* how often SIGINT has arrived

control == <<at, sigint, pauseExecution, wanted, parsed, typed>>
outside == <<terminal, syncFile, stats, report, ret>>
main    == <<control, outside, signals>>
all     == <<full, main>>

NoFrame  == [op |-> "none"]
NoReport == <<>>

Over == at \in {"ended", "killed", "crashed"}

-----------------------------------------------------------------------------
(* class Stats.                                                            *)

Counter == {"linesRead", "requestsProcessed", "responsesProcessed", "remove", "link",
            "lookup", "rename", "write", "create"}

\* The counter of an operation.
counterOf(op) ==
  CASE op \in {"REMOVE", "RMDIR"} -> {"remove"}
    [] op = "LINK"                -> {"link"}
    [] op = "LOOKUP"              -> {"lookup"}
    [] op = "RENAME"              -> {"rename"}
    [] op = "WRITE"               -> {"write"}
    [] op = "CREATE"              -> {"create"}
    [] OTHER                      -> {}

Count(counters) == stats' = [c \in Counter |-> IF c \in counters THEN stats[c] + 1 ELSE stats[c]]

\* Slip: the frames outside of the dates count.
handledAlways(f) == IF f \in Request THEN {"requestsProcessed"} ELSE {"responsesProcessed"}

\* What TransactionMgr::process counts.
handledAs(f) ==
  IF ~Began THEN {}
  ELSE IF f \in Request THEN {"requestsProcessed"} ELSE {"responsesProcessed"}

-----------------------------------------------------------------------------
(* Before the loop.                                                        *)

\* The options are wrong, or help is asked for.
Refuse ==
  /\ at = "start"
  /\ at' = "ended" /\ ret' = 1
  /\ UNCHANGED <<full, sigint, pauseExecution, wanted, parsed, typed, terminal,
                 syncFile, stats, report, signals>>

\* openInputFile: SIGINT is ignored while the program that decompresses the input
\* is started, so that it does not get it.
OpenInput(input) ==
  /\ at = "start"
  /\ at' = IF input = "stdin" THEN "sync" ELSE "open"
  /\ sigint' = IF input = "stdin" THEN sigint ELSE "ignore"
  /\ UNCHANGED <<full, pauseExecution, wanted, parsed, typed, outside, signals>>

InputOpened ==
  /\ at = "open"
  /\ sigint' = "pause"
  /\ \/ at' = "sync" /\ UNCHANGED ret
     \/ at' = "ended" /\ ret' = 1
  /\ UNCHANGED <<full, pauseExecution, wanted, parsed, typed, terminal, syncFile, stats,
                 report, signals>>

OpenSync ==
  /\ at = "sync"
  /\ \/ at' = "display" /\ syncFile' = TRUE /\ UNCHANGED ret
     \/ at' = "ended" /\ ret' = 1 /\ UNCHANGED syncFile
  /\ UNCHANGED <<full, sigint, pauseExecution, wanted, parsed, typed, terminal, stats,
                 report, signals>>

\* initscr() ends the program when it does not know the terminal, and takes SIGINT
\* when nobody has.
OpenDisplay ==
  /\ at = "display"
  /\ \/ at' = "killed" /\ UNCHANGED <<terminal, sigint>>
     \/ /\ at' = "fgets" /\ terminal' = "curses"
        /\ sigint' = IF sigint = "default" THEN "curses" ELSE sigint
  /\ UNCHANGED <<full, pauseExecution, wanted, parsed, typed, syncFile, stats, report, ret,
                 signals>>

-----------------------------------------------------------------------------
(* The loop.                                                               *)

ReadLine(f) ==
  /\ at = "fgets" /\ stats["linesRead"] < LineLimit
  /\ Count({"linesRead"})
  /\ parsed' = f
  /\ at' = IF f = NoFrame THEN "fgets" ELSE "check"
  /\ UNCHANGED <<full, sigint, pauseExecution, wanted, typed, terminal, syncFile, report, ret,
                 signals>>

EndOfInput ==
  /\ at = "fgets" /\ at' = "report"
  /\ UNCHANGED <<full, sigint, pauseExecution, wanted, parsed, typed, outside, signals>>

CheckPause ==
  /\ at = "check"
  /\ at' = IF pauseExecution THEN "pause" ELSE "count"
  /\ wanted' = (wanted /\ ~pauseExecution)
  /\ UNCHANGED <<full, sigint, pauseExecution, parsed, typed, outside, signals>>

\* Slip: the dialogue goes on at Enter.
AnsweredLoop ==
  /\ at = "pause" /\ typed # <<>>
  /\ typed' = Tail(typed)
  /\ at' = CASE Head(typed) = "q" -> "report" [] Head(typed) = Enter -> "pause"
             [] OTHER -> "resume"
  /\ UNCHANGED <<full, sigint, pauseExecution, wanted, parsed, outside, signals>>

\* ConsoleDisplay::pause: wgetch returns the first key that was typed.
Answered ==
  /\ at = "pause" /\ typed # <<>>
  /\ typed' = Tail(typed)
  /\ at' = IF Head(typed) = "q" THEN "report" ELSE "resume"
  /\ UNCHANGED <<full, sigint, pauseExecution, wanted, parsed, outside, signals>>

\* Slip: the request for a pause stays.
ResumeForgetful == at = "resume" /\ at' = "count" /\ UNCHANGED pauseExecution

Resume == at = "resume" /\ at' = "count" /\ pauseExecution' = FALSE

Resumed ==
  /\ Resume
  /\ UNCHANGED <<full, sigint, wanted, parsed, typed, outside, signals>>

\* Where main() goes on when process() is done, or has thrown.
After(e, stop) ==
  CASE e = "Stack overflow" -> "crashed"
    [] e \in Error \ {"Stack overflow"} -> "catch"
    [] e = NoError /\ stop  -> "report"
    [] OTHER                -> "fgets"

\* The frame is counted and handed over; the collection may throw.
HandOver ==
  /\ at = "count"
  /\ Read(parsed)
  /\ Count(counterOf(parsed.op))
  /\ at' = IF err' # NoError THEN After(err', FALSE) ELSE "process"
  /\ UNCHANGED <<sigint, pauseExecution, wanted, parsed, typed, terminal, syncFile, report,
                 ret, signals>>

Processed ==
  /\ at = "process"
  /\ HandleFrame
  /\ Count(handledAs(frame))
  /\ at' = After(err', pc' = "stopped")
  /\ UNCHANGED <<sigint, pauseExecution, wanted, parsed, typed, terminal, syncFile, report,
                 ret, signals>>

-----------------------------------------------------------------------------
(* After the loop.                                                         *)

WriteReport ==
  /\ at = "report"
  /\ \/ /\ at' = "cleanup"
        /\ report' = IF reportGiven THEN stats ELSE report
     \/ reportGiven /\ at' = "catch" /\ UNCHANGED report
  /\ UNCHANGED <<full, sigint, pauseExecution, wanted, parsed, typed, terminal, syncFile,
                 stats, ret, signals>>

Catch ==
  /\ at = "catch"
  /\ at' = "cleanup" /\ terminal' = "shell" /\ ret' = 1
  /\ UNCHANGED <<full, sigint, pauseExecution, wanted, parsed, typed, syncFile, stats, report,
                 signals>>

\* Slip: an exception leaves the file behind.
RemoveAfterSuccess == syncFile' = (syncFile /\ ret = 1)

RemoveSyncFile == syncFile' = FALSE

Cleanup ==
  /\ at = "cleanup"
  /\ at' = "ended" /\ terminal' = "shell" /\ RemoveSyncFile
  /\ UNCHANGED <<full, sigint, pauseExecution, wanted, parsed, typed, stats, report, ret,
                 signals>>

-----------------------------------------------------------------------------
(* The user.                                                               *)

\* sigint_handler only notes what is wanted.
Note ==
  /\ sigint = "pause"
  /\ pauseExecution' = TRUE
  /\ wanted' = (wanted \/ at # "pause")
  /\ UNCHANGED <<at, terminal>>

Sigint ==
  /\ ~Over /\ signals < SignalLimit
  /\ signals' = signals + 1
  /\ \/ Note
     \/ sigint = "ignore" /\ UNCHANGED <<at, pauseExecution, wanted, terminal>>
     \/ /\ sigint \in {"default", "curses"}
        /\ at' = "killed" /\ terminal' = "shell" /\ UNCHANGED <<pauseExecution, wanted>>
  /\ UNCHANGED <<full, sigint, parsed, typed, syncFile, stats, report, ret>>

\* The terminal hands a line over when it is complete: a key, and the one that
\* ends the line.  main() calls neither cbreak() nor raw().
Answer(k) ==
  /\ at = "pause" /\ typed = <<>>
  /\ typed' = IF k = Enter THEN <<k>> ELSE <<k, Enter>>
  /\ UNCHANGED <<full, at, sigint, pauseExecution, wanted, parsed, outside, signals>>

-----------------------------------------------------------------------------
(* The specification.                                                      *)

MainInit ==
  /\ MgrInit
  /\ at = "start" /\ sigint = "default" /\ pauseExecution = FALSE /\ wanted = FALSE
  /\ parsed = NoFrame /\ typed = <<>> /\ terminal = "shell" /\ syncFile = FALSE
  /\ stats = [c \in Counter |-> 0] /\ report = NoReport /\ ret = 0 /\ signals = 0

\* What the program does.
Program ==
  \/ Refuse \/ (\E input \in Inputs : OpenInput(input)) \/ InputOpened \/ OpenSync
  \/ OpenDisplay \/ (\E f \in Request \cup Response \cup {NoFrame} : ReadLine(f))
  \/ EndOfInput \/ CheckPause \/ Answered \/ Resumed \/ HandOver \/ Processed
  \/ WriteReport \/ Catch \/ Cleanup

User == Sigint \/ (\E k \in Key : Answer(k))

MainNext == Program \/ User
MainSpec == MainInit /\ [][MainNext]_all

\* The program runs on as long as it can; the user need not do anything, but
\* answers when asked.
FairSpec ==
  MainSpec /\ WF_all(Program) /\ WF_all(\E k \in Key : Answer(k))

-----------------------------------------------------------------------------
(* Properties.                                                             *)

\* Every step of the program is, for TransactionMgr, one of its specification.
ManagerDriven == MgrSpec

\* However the replay ends, unless it is killed or crashes, the terminal is the
\* shell's again, the file made for syncfs(2) is gone, and the exit status says
\* whether an exception ended it.
LeavesClean ==
  at = "ended" =>
    /\ terminal = "shell" /\ ~syncFile
    /\ err # NoError => ret = 1
    /\ ret = 0 /\ reportGiven => report # NoReport

\* The places of the frames that were counted.
Counted == 1 .. Len(trace)

\* The report says how many frames of the trace there were for each operation,
\* whether or not they were replayed, and how many requests and responses were
\* inside the dates of the replay.
ReportTrue ==
  report # NoReport =>
    /\ \A f \in Request \cup Response : \A c \in counterOf(f.op) :
         report[c] = Cardinality({i \in Counted : c \in counterOf(trace[i].op)})
    /\ report["requestsProcessed"] =
         Cardinality({i \in Counted : Counts(i) /\ trace[i] \in Request})
    /\ report["responsesProcessed"] =
         Cardinality({i \in Counted : Counts(i) /\ trace[i] \in Response})

\* A pause comes because SIGINT has asked for it since the last one, never because
\* a request that was granted is still noted (nfsreplay.cpp:254-260).
PausesOnDemand == [][at = "check" /\ at' = "pause" => wanted]_all

\* The replay of an input that ends does end, as the user answers each pause; no
\* exception or signal leaves it waiting.
ReplayEnds == <>Over
=============================================================================
