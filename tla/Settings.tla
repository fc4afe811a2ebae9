------------------------------ MODULE Settings -------------------------------
(***************************************************************************)
(* class Settings, and parseParams(), which fills it from the options of   *)
(* the command line, one getopt(3) after the other.                        *)
(***************************************************************************)
EXTENDS Integers, SequencesExt

CONSTANTS
  Argument, \* of an option: [date |-> what "%d-%d-%d" reads, in seconds, or NoDate,
            \*                number |-> what atoi(3) reads]
  NoDate,
  Zone,     \* seconds the local time is ahead of UTC
  OptionLimit \* bounds how many options are given

ASSUME SettingsAssumption ==
  /\ Zone \in Int /\ OptionLimit \in Nat
  /\ \A a \in Argument : a.number \in Int /\ a.date \in Int \cup {NoDate}

VARIABLES
  sett,   \* the settings
  given,  \* the options that were parsed
  status  \* "parsing", "EXIT_SUCCESS", "EXIT_FAILURE"

vars == <<sett, given, status>>

Flag == {"z", "S", "i", "t", "T", "d", "D", "g", "G"}
NoArgument == [date |-> NoDate, number |-> 0]
Option == [letter : {"b", "l", "s", "r"}, arg : Argument]
          \cup [letter : Flag \cup {"h", "?"}, arg : {NoArgument}]

Defaults ==
  [startTime |-> -1, startAfterDays |-> -1, endTime |-> -1, endAfterDays |-> -1,
   syncMinutes |-> 10, noSync |-> FALSE, dataSync |-> FALSE, enableGC |-> TRUE,
   inodeTest |-> FALSE, writeZero |-> FALSE, displayTime |-> TRUE, debugOutput |-> FALSE,
   reportGiven |-> FALSE]

\* TZ is restored before mktime(3) reads it: the date begins at local midnight.
parseTime(a) == IF a.date = NoDate THEN -1 ELSE a.date - Zone

\* Slip: what is no date leaves the date that was given before.
setStartTimeOnce(s, a) ==
  IF parseTime(a) >= 0 THEN [s EXCEPT !.startTime = parseTime(a)]
  ELSE IF a.number > 0 THEN [s EXCEPT !.startAfterDays = a.number] ELSE s

setStartTime(s, a) ==
  [s EXCEPT !.startTime = parseTime(a),
            !.startAfterDays = IF parseTime(a) < 0 /\ a.number > 0 THEN a.number ELSE @]

setEndTime(s, a) ==
  [s EXCEPT !.endTime = parseTime(a),
            !.endAfterDays = IF parseTime(a) < 0 /\ a.number > 0 THEN a.number ELSE @]

\* Slip: an interval that is not positive is taken.
setSyncAny(s, a) == [s EXCEPT !.syncMinutes = a.number]

setSyncMinutes(s, a) == [s EXCEPT !.syncMinutes = IF a.number > 0 THEN a.number ELSE @]

setFlag(s, letter) ==
  CASE letter = "z"        -> [s EXCEPT !.writeZero = TRUE]
    [] letter = "S"        -> [s EXCEPT !.noSync = TRUE]
    [] letter = "i"        -> [s EXCEPT !.inodeTest = TRUE]
    [] letter \in {"t", "T"} -> [s EXCEPT !.displayTime = (letter = "t")]
    [] letter = "d"        -> [s EXCEPT !.debugOutput = TRUE]
    [] letter = "D"        -> [s EXCEPT !.dataSync = TRUE]
    [] letter \in {"g", "G"} -> [s EXCEPT !.enableGC = (letter = "g")]

Init == sett = Defaults /\ given = <<>> /\ status = "parsing"

Take(o) ==
  /\ status = "parsing" /\ Len(given) < OptionLimit
  /\ given' = Append(given, o)
  /\ \/ o.letter = "b" /\ sett' = setStartTime(sett, o.arg) /\ UNCHANGED status
     \/ o.letter = "l" /\ sett' = setEndTime(sett, o.arg) /\ UNCHANGED status
     \/ o.letter = "s" /\ sett' = setSyncMinutes(sett, o.arg) /\ UNCHANGED status
     \/ o.letter = "r" /\ sett' = [sett EXCEPT !.reportGiven = TRUE] /\ UNCHANGED status
     \/ o.letter \in Flag /\ sett' = setFlag(sett, o.letter) /\ UNCHANGED status
     \/ o.letter \in {"h", "?"} /\ status' = "EXIT_FAILURE" /\ UNCHANGED sett

\* getopt(3) returns -1.
Done == status = "parsing" /\ status' = "EXIT_SUCCESS" /\ UNCHANGED <<sett, given>>

Next == (\E o \in Option : Take(o)) \/ Done
Spec == Init /\ [][Next]_vars

-----------------------------------------------------------------------------
(* Properties.                                                             *)

\* The last option with one of the letters that satisfies Valid.
LastOf(letters, Valid(_)) ==
  SelectLastInSeq(given, LAMBDA o : o.letter \in letters /\ Valid(o.arg))
Given(a)  == TRUE
IsTime(a) == parseTime(a) >= 0
IsDays(a) == a.date = NoDate /\ a.number > 0

\* What TransactionMgr takes the two members for (transaction_mgr.cpp:130-152).
Limit(time, days) ==
  IF time < 0 /\ days > 0 THEN <<"days", days>>
  ELSE IF time = -1 THEN <<"none">> ELSE <<"time", time>>

Asked(a) == IF IsTime(a) THEN <<"time", a.date - Zone>> ELSE <<"days", a.number>>

\* An option given again replaces the one before, in whatever order and form: a
\* date replaces a number of days, and a number a date, although they are kept in
\* two members.  (When each is a date after 1969 or a number of days.)
LastDecides ==
  LET Holds(letter, limit) ==
        LET i == LastOf({letter}, Given)
        IN  (\A o \in ToSet(given) : o.letter = letter => IsTime(o.arg) \/ IsDays(o.arg)) =>
              limit = IF i = 0 THEN <<"none">> ELSE Asked(given[i].arg)
  IN  /\ Holds("b", Limit(sett.startTime, sett.startAfterDays))
      /\ Holds("l", Limit(sett.endTime, sett.endAfterDays))

\* The sync interval is the last valid one that was asked for, 10 minutes when there
\* was none (README.md:23), and of -g and -G the last decides, whatever options come
\* between.
SyncsAsAsked ==
  LET i == LastOf({"s"}, LAMBDA a : a.number > 0)
      g == LastOf({"g", "G"}, Given)
  IN  /\ sett.syncMinutes = IF i = 0 THEN 10 ELSE given[i].arg.number
      /\ sett.enableGC = (g = 0 \/ given[g].letter = "g")
=============================================================================
