--------------------------- MODULE SettingsProofs ----------------------------
(***************************************************************************)
(* What the settings are after any number of options, in any order.        *)
(***************************************************************************)
EXTENDS Settings, TLAPS

\* i is the place of the last element of s that is in P, 0 if there is none.
IsLast(i, s, P) ==
  \/ i = 0 /\ \A j \in 1 .. Len(s) : s[j] \notin P
  \/ i \in 1 .. Len(s) /\ s[i] \in P /\ \A j \in 1 .. Len(s) : s[j] \in P => j <= i

\* There is one such place, which is what SelectLastInSeq finds.
LEMMA LastFound ==
  ASSUME NEW S, NEW s \in Seq(S), NEW P, NEW i, IsLast(i, s, P)
  PROVE  LET I == {j \in 1 .. Len(s) : s[j] \in P}
         IN  i = IF I # {} THEN Max(I) ELSE 0
<1> DEFINE I == {j \in 1 .. Len(s) : s[j] \in P}
<1>1. CASE i = 0 /\ \A j \in 1 .. Len(s) : s[j] \notin P
  BY <1>1
<1>2. CASE i \in 1 .. Len(s) /\ s[i] \in P /\ \A j \in 1 .. Len(s) : s[j] \in P => j <= i
  <2>1. Len(s) \in Nat
    OBVIOUS
  <2>2. i \in I /\ \A j \in I : j \in Int /\ i >= j
    BY <1>2, <2>1
  <2> HIDE DEF I
  <2>3. Max(I) = i
    BY <2>2 DEF Max
  <2> QED BY <2>2, <2>3 DEF I
<1> QED BY <1>1, <1>2 DEF IsLast

\* One element more.
LEMMA LastAppended ==
  ASSUME NEW S, NEW s \in Seq(S), NEW o \in S, NEW P, NEW i, IsLast(i, s, P)
  PROVE  /\ Append(s, o) \in Seq(S) /\ Len(Append(s, o)) = Len(s) + 1
         /\ Append(s, o)[Len(s) + 1] = o
         /\ \A j \in 1 .. Len(s) : Append(s, o)[j] = s[j]
         /\ o \in P => IsLast(Len(s) + 1, Append(s, o), P)
         /\ o \notin P => IsLast(i, Append(s, o), P)
<1> DEFINE t == Append(s, o)
<1>1. /\ t \in Seq(S) /\ Len(s) \in Nat /\ Len(t) = Len(s) + 1 /\ t[Len(s) + 1] = o
      /\ \A j \in 1 .. Len(s) : t[j] = s[j]
  OBVIOUS
<1> HIDE DEF t
<1>2. o \in P => IsLast(Len(s) + 1, t, P)
  BY <1>1 DEF IsLast
<1>3. o \notin P => IsLast(i, t, P)
  BY <1>1 DEF IsLast
<1> QED BY <1>1, <1>2, <1>3 DEF t

-----------------------------------------------------------------------------
(* One option.                                                             *)

Typed(s) ==
  s \in [startTime : Int, startAfterDays : Int, endTime : Int, endAfterDays : Int,
         syncMinutes : Int, noSync : BOOLEAN, dataSync : BOOLEAN, enableGC : BOOLEAN,
         inodeTest : BOOLEAN, writeZero : BOOLEAN, displayTime : BOOLEAN,
         debugOutput : BOOLEAN, reportGiven : BOOLEAN]

With(letters) == {o \in Option : o.letter \in letters}
Intervals     == {o \in Option : o.letter = "s" /\ o.arg.number > 0}

\* The members a date or a number of days is kept in.
Dated(time, days, newTime, newDays, a) ==
  newTime = parseTime(a) /\ newDays = IF parseTime(a) < 0 /\ a.number > 0 THEN a.number ELSE days

\* What an option does to the settings the properties are about.
Taken(s, t, o) ==
  /\ t.syncMinutes = IF o \in Intervals THEN o.arg.number ELSE s.syncMinutes
  /\ o \in With({"g", "G"}) => t.enableGC = (o.letter = "g")
  /\ o \notin With({"g", "G"}) => t.enableGC = s.enableGC
  /\ IF o.letter = "b"
     THEN Dated(s.startTime, s.startAfterDays, t.startTime, t.startAfterDays, o.arg)
     ELSE t.startTime = s.startTime /\ t.startAfterDays = s.startAfterDays
  /\ IF o.letter = "l"
     THEN Dated(s.endTime, s.endAfterDays, t.endTime, t.endAfterDays, o.arg)
     ELSE t.endTime = s.endTime /\ t.endAfterDays = s.endAfterDays

\* What the letters and arguments of options are.
LEMMA OptionType ==
  ASSUME NEW o \in Option
  PROVE  /\ o.letter \in {"b", "l", "s", "r", "h", "?"} \cup Flag
         /\ o.letter \in {"b", "l", "s", "r"} => o.arg.number \in Int /\ parseTime(o.arg) \in Int
<1>1. CASE o \in [letter : {"b", "l", "s", "r"}, arg : Argument]
  BY <1>1, SettingsAssumption DEF parseTime
<1>2. CASE o \in [letter : Flag \cup {"h", "?"}, arg : {NoArgument}]
  BY <1>2 DEF Flag
<1> QED BY <1>1, <1>2 DEF Option

\* A flag.
LEMMA SetFlagTaken ==
  ASSUME NEW s, Typed(s), NEW o \in Option, o.letter \in Flag
  PROVE  Typed(setFlag(s, o.letter)) /\ Taken(s, setFlag(s, o.letter), o)
<1>1. CASE o.letter = "z"
  BY <1>1 DEF setFlag, Typed, Taken, With, Intervals
<1>2. CASE o.letter = "S"
  BY <1>2 DEF setFlag, Typed, Taken, With, Intervals
<1>3. CASE o.letter = "i"
  BY <1>3 DEF setFlag, Typed, Taken, With, Intervals
<1>4. CASE o.letter = "t"
  BY <1>4 DEF setFlag, Typed, Taken, With, Intervals
<1>5. CASE o.letter = "T"
  BY <1>5 DEF setFlag, Typed, Taken, With, Intervals
<1>6. CASE o.letter = "d"
  BY <1>6 DEF setFlag, Typed, Taken, With, Intervals
<1>7. CASE o.letter = "D"
  BY <1>7 DEF setFlag, Typed, Taken, With, Intervals
<1>8. CASE o.letter = "g"
  BY <1>8 DEF setFlag, Typed, Taken, With, Intervals
<1>9. CASE o.letter = "G"
  BY <1>9 DEF setFlag, Typed, Taken, With, Intervals
<1> QED BY <1>1, <1>2, <1>3, <1>4, <1>5, <1>6, <1>7, <1>8, <1>9 DEF Flag

\* Every option.
LEMMA TakeTaken ==
  ASSUME Typed(sett), NEW o \in Option, Take(o)
  PROVE  Typed(sett') /\ Taken(sett, sett', o)
<1>1. CASE o.letter = "b" /\ sett' = setStartTime(sett, o.arg)
  BY <1>1, OptionType DEF setStartTime, Typed, Taken, With, Intervals, Dated
<1>2. CASE o.letter = "l" /\ sett' = setEndTime(sett, o.arg)
  BY <1>2, OptionType DEF setEndTime, Typed, Taken, With, Intervals, Dated
<1>3. CASE o.letter = "s" /\ sett' = setSyncMinutes(sett, o.arg)
  BY <1>3, OptionType DEF setSyncMinutes, Typed, Taken, With, Intervals
<1>4. CASE o.letter = "r" /\ sett' = [sett EXCEPT !.reportGiven = TRUE]
  BY <1>4 DEF Typed, Taken, With, Intervals
<1>5. CASE o.letter \in Flag /\ sett' = setFlag(sett, o.letter)
  BY <1>5, SetFlagTaken
<1>6. CASE o.letter \in {"h", "?"} /\ sett' = sett
  BY <1>6 DEF Typed, Taken, With, Intervals
<1> QED BY <1>1, <1>2, <1>3, <1>4, <1>5, <1>6 DEF Take

-----------------------------------------------------------------------------
(* All options.                                                            *)

\* All the options with letter name a date after 1969 or a number of days.
Clear(options, letter) ==
  \A o \in ToSet(options) : o.letter = letter => IsTime(o.arg) \/ IsDays(o.arg)

\* The last option with letter decides about two members.
DateInv(options, letter, time, days) ==
  \E i : /\ IsLast(i, options, With({letter}))
         /\ Clear(options, letter) =>
              Limit(time, days) = IF i = 0 THEN <<"none">> ELSE Asked(options[i].arg)

\* So does the last valid interval, and the last of -g and -G.
IntervalInv(options, minutes) ==
  \E i : /\ IsLast(i, options, Intervals)
         /\ minutes = IF i = 0 THEN 10 ELSE options[i].arg.number

CollectInv(options, enableGC) ==
  \E i : /\ IsLast(i, options, With({"g", "G"}))
         /\ enableGC = (i = 0 \/ options[i].letter = "g")

SettingsInv ==
  /\ given \in Seq(Option) /\ Typed(sett)
  /\ DateInv(given, "b", sett.startTime, sett.startAfterDays)
  /\ DateInv(given, "l", sett.endTime, sett.endAfterDays)
  /\ IntervalInv(given, sett.syncMinutes)
  /\ CollectInv(given, sett.enableGC)

\* One option more.
LEMMA DateStep ==
  ASSUME NEW s \in Seq(Option), NEW o \in Option, NEW letter \in {"b", "l"},
         NEW time \in Int, NEW days \in Int, NEW newTime, NEW newDays,
         DateInv(s, letter, time, days),
         IF o.letter = letter THEN Dated(time, days, newTime, newDays, o.arg)
         ELSE newTime = time /\ newDays = days
  PROVE  DateInv(Append(s, o), letter, newTime, newDays)
<1> DEFINE t == Append(s, o)
           P == With({letter})
<1>1. PICK i : /\ IsLast(i, s, P)
               /\ Clear(s, letter) =>
                    Limit(time, days) = IF i = 0 THEN <<"none">> ELSE Asked(s[i].arg)
  BY DEF DateInv
<1>2. o \in P <=> o.letter = letter
  BY DEF With
<1> HIDE DEF P
<1>3. /\ t \in Seq(Option) /\ Len(t) = Len(s) + 1 /\ t[Len(s) + 1] = o /\ Len(s) \in Nat
      /\ \A j \in 1 .. Len(s) : t[j] = s[j]
      /\ o \in P => IsLast(Len(s) + 1, t, P)
      /\ o \notin P => IsLast(i, t, P)
  BY <1>1, LastAppended
<1>4. i = 0 \/ i \in 1 .. Len(s)
  BY <1>1 DEF IsLast
<1> HIDE DEF t
<1>5. Clear(t, letter) => Clear(s, letter) /\ (o.letter = letter => IsTime(o.arg) \/ IsDays(o.arg))
  <2>1. ToSet(s) \subseteq ToSet(t) /\ o \in ToSet(t)
    BY <1>3 DEF ToSet
  <2> QED BY <2>1 DEF Clear
<1>6. CASE o \in P
  <2>1. /\ newTime = parseTime(o.arg)
        /\ newDays = IF parseTime(o.arg) < 0 /\ o.arg.number > 0 THEN o.arg.number ELSE days
    BY <1>2, <1>6 DEF Dated
  <2>2. o.arg.number \in Int /\ parseTime(o.arg) \in Int
    BY <1>2, <1>6, OptionType
  <2>3. IsTime(o.arg) => Limit(newTime, newDays) = Asked(o.arg)
    BY <2>1, <2>2 DEF IsTime, Limit, Asked, parseTime
  <2>4. IsDays(o.arg) => Limit(newTime, newDays) = Asked(o.arg)
    BY <2>1, <2>2 DEF IsTime, IsDays, Limit, Asked, parseTime
  <2>5. IsLast(Len(s) + 1, t, P) /\ t[Len(s) + 1] = o /\ Len(s) + 1 # 0
    BY <1>3, <1>6
  <2> QED BY <1>2, <1>5, <1>6, <2>3, <2>4, <2>5 DEF DateInv, t, P
<1>7. CASE o \notin P
  <2>1. newTime = time /\ newDays = days
    BY <1>2, <1>7
  <2>2. IsLast(i, t, P) /\ (i # 0 => t[i] = s[i])
    BY <1>3, <1>4, <1>7
  <2> QED BY <1>1, <1>5, <2>1, <2>2 DEF DateInv, t, P
<1> QED BY <1>6, <1>7

LEMMA IntervalStep ==
  ASSUME NEW s \in Seq(Option), NEW o \in Option, NEW minutes,
         IntervalInv(s, minutes)
  PROVE  IntervalInv(Append(s, o), IF o \in Intervals THEN o.arg.number ELSE minutes)
<1> DEFINE t == Append(s, o)
<1>1. PICK i : /\ IsLast(i, s, Intervals)
               /\ minutes = IF i = 0 THEN 10 ELSE s[i].arg.number
  BY DEF IntervalInv
<1>2. /\ t[Len(s) + 1] = o /\ Len(s) \in Nat
      /\ \A j \in 1 .. Len(s) : t[j] = s[j]
      /\ o \in Intervals => IsLast(Len(s) + 1, t, Intervals)
      /\ o \notin Intervals => IsLast(i, t, Intervals)
  BY <1>1, LastAppended
<1>3. i = 0 \/ i \in 1 .. Len(s)
  BY <1>1 DEF IsLast
<1> HIDE DEF t
<1>4. CASE o \in Intervals
  BY <1>2, <1>4 DEF IntervalInv, t
<1>5. CASE o \notin Intervals
  BY <1>1, <1>2, <1>3, <1>5 DEF IntervalInv, t
<1> QED BY <1>4, <1>5

LEMMA CollectStep ==
  ASSUME NEW s \in Seq(Option), NEW o \in Option, NEW old, NEW new, CollectInv(s, old),
         o \in With({"g", "G"}) => new = (o.letter = "g"),
         o \notin With({"g", "G"}) => new = old
  PROVE  CollectInv(Append(s, o), new)
<1> DEFINE t == Append(s, o)
           P == With({"g", "G"})
<1>1. PICK i : IsLast(i, s, P) /\ old = (i = 0 \/ s[i].letter = "g")
  BY DEF CollectInv
<1> HIDE DEF P
<1>2. /\ t[Len(s) + 1] = o /\ Len(s) \in Nat
      /\ \A j \in 1 .. Len(s) : t[j] = s[j]
      /\ o \in P => IsLast(Len(s) + 1, t, P)
      /\ o \notin P => IsLast(i, t, P)
  BY <1>1, LastAppended
<1>3. i = 0 \/ i \in 1 .. Len(s)
  BY <1>1 DEF IsLast
<1> HIDE DEF t
<1>4. CASE o \in P
  <2>1. new = (Len(s) + 1 = 0 \/ t[Len(s) + 1].letter = "g")
    BY <1>2, <1>4 DEF P
  <2> QED BY <1>2, <1>4, <2>1 DEF CollectInv, t, P
<1>5. CASE o \notin P
  <2>1. new = (i = 0 \/ t[i].letter = "g")
    BY <1>1, <1>2, <1>3, <1>5 DEF P
  <2> QED BY <1>2, <1>5, <2>1 DEF CollectInv, t, P
<1> QED BY <1>4, <1>5

THEOREM SettingsInductive == Spec => []SettingsInv
<1>1. Init => SettingsInv
  <2> SUFFICES ASSUME Init
               PROVE  SettingsInv
    OBVIOUS
  <2>1. given \in Seq(Option) /\ \A P : IsLast(0, given, P)
    BY DEF Init, IsLast
  <2>2. Typed(sett) /\ sett.syncMinutes = 10 /\ sett.enableGC
    BY DEF Init, Defaults, Typed
  <2>3. Limit(sett.startTime, sett.startAfterDays) = <<"none">>
    BY DEF Init, Defaults, Limit
  <2>4. Limit(sett.endTime, sett.endAfterDays) = <<"none">>
    BY DEF Init, Defaults, Limit
  <2>5. CollectInv(given, sett.enableGC)
    BY <2>1, <2>2 DEF CollectInv
  <2> QED BY <2>1, <2>2, <2>3, <2>4, <2>5 DEF SettingsInv, DateInv, IntervalInv
<1>2. SettingsInv /\ [Next]_vars => SettingsInv'
  <2> SUFFICES ASSUME SettingsInv, [Next]_vars
               PROVE  SettingsInv'
    OBVIOUS
  <2>1. CASE UNCHANGED <<sett, given>>
    BY <2>1 DEF SettingsInv
  <2>2. ASSUME NEW o \in Option, Take(o)
        PROVE  SettingsInv'
    <3>1. given' = Append(given, o) /\ given \in Seq(Option) /\ given' \in Seq(Option)
      BY <2>2 DEF Take, SettingsInv
    <3>2. Typed(sett) /\ Typed(sett') /\ Taken(sett, sett', o)
      BY <2>2, TakeTaken DEF SettingsInv
    <3>3. /\ sett.startTime \in Int /\ sett.startAfterDays \in Int
          /\ sett.endTime \in Int /\ sett.endAfterDays \in Int
      BY <3>2 DEF Typed
    <3>4. DateInv(given', "b", sett'.startTime, sett'.startAfterDays)
      BY <3>1, <3>2, <3>3, DateStep DEF SettingsInv, Taken
    <3>5. DateInv(given', "l", sett'.endTime, sett'.endAfterDays)
      BY <3>1, <3>2, <3>3, DateStep DEF SettingsInv, Taken
    <3>6. IntervalInv(given', sett'.syncMinutes)
      BY <3>1, <3>2, IntervalStep DEF SettingsInv, Taken
    <3>7. CollectInv(given', sett'.enableGC)
      BY <3>1, <3>2, CollectStep DEF SettingsInv, Taken
    <3> QED BY <3>1, <3>2, <3>4, <3>5, <3>6, <3>7 DEF SettingsInv
  <2> QED BY <2>1, <2>2 DEF Next, Done, vars
<1> QED BY <1>1, <1>2, PTL DEF Spec

\* For every number of options in every order, the last -b and the last -l decide.
THEOREM LastAlwaysDecides == Spec => []LastDecides
<1>1. SettingsInv => LastDecides
  <2> SUFFICES ASSUME SettingsInv
               PROVE  LastDecides
    OBVIOUS
  <2>1. ASSUME NEW letter \in {"b", "l"}, NEW time, NEW days, DateInv(given, letter, time, days),
               Clear(given, letter)
        PROVE  LET i == LastOf({letter}, Given)
               IN  Limit(time, days) = IF i = 0 THEN <<"none">> ELSE Asked(given[i].arg)
    <3>1. PICK i : /\ IsLast(i, given, With({letter}))
                   /\ Limit(time, days) = IF i = 0 THEN <<"none">> ELSE Asked(given[i].arg)
      BY <2>1 DEF DateInv
    <3>2. given \in Seq(Option)
      BY DEF SettingsInv
    <3>3. i = IF {j \in 1 .. Len(given) : given[j] \in With({letter})} # {}
              THEN Max({j \in 1 .. Len(given) : given[j] \in With({letter})}) ELSE 0
      BY <3>1, <3>2, LastFound
    <3>4. {j \in 1 .. Len(given) : given[j] \in With({letter})}
            = {j \in 1 .. Len(given) : given[j].letter \in {letter} /\ Given(given[j].arg)}
      BY <3>2 DEF With, Given
    <3>5. LastOf({letter}, Given) = i
      BY <3>3, <3>4, Zenon DEF LastOf, SelectLastInSeq
    <3> QED BY <3>1, <3>5
  <2> QED BY <2>1 DEF SettingsInv, LastDecides, Clear
<1> QED BY <1>1, SettingsInductive, PTL

\* For every number of options in every order, the last valid -s and the last of -g and
\* -G decide.
THEOREM SyncsAlwaysAsAsked == Spec => []SyncsAsAsked
<1>1. SettingsInv => SyncsAsAsked
  <2> SUFFICES ASSUME SettingsInv
               PROVE  SyncsAsAsked
    OBVIOUS
  <2>0. given \in Seq(Option)
    BY DEF SettingsInv
  <2>1. PICK i : /\ IsLast(i, given, Intervals)
                 /\ sett.syncMinutes = IF i = 0 THEN 10 ELSE given[i].arg.number
    BY DEF SettingsInv, IntervalInv
  <2>2. PICK g : /\ IsLast(g, given, With({"g", "G"}))
                 /\ sett.enableGC = (g = 0 \/ given[g].letter = "g")
    BY DEF SettingsInv, CollectInv
  <2>3. LastOf({"s"}, LAMBDA a : a.number > 0) = i
    <3>1. i = IF {j \in 1 .. Len(given) : given[j] \in Intervals} # {}
              THEN Max({j \in 1 .. Len(given) : given[j] \in Intervals}) ELSE 0
      BY <2>0, <2>1, LastFound
    <3>2. {j \in 1 .. Len(given) : given[j] \in Intervals}
            = {j \in 1 .. Len(given) : given[j].letter \in {"s"} /\ given[j].arg.number > 0}
      BY <2>0 DEF Intervals
    <3> QED BY <3>1, <3>2, Zenon DEF LastOf, SelectLastInSeq
  <2>4. LastOf({"g", "G"}, Given) = g
    <3>1. g = IF {j \in 1 .. Len(given) : given[j] \in With({"g", "G"})} # {}
              THEN Max({j \in 1 .. Len(given) : given[j] \in With({"g", "G"})}) ELSE 0
      BY <2>0, <2>2, LastFound
    <3>2. {j \in 1 .. Len(given) : given[j] \in With({"g", "G"})}
            = {j \in 1 .. Len(given) : given[j].letter \in {"g", "G"} /\ Given(given[j].arg)}
      BY <2>0 DEF With, Given
    <3> QED BY <3>1, <3>2, Zenon DEF LastOf, SelectLastInSeq
  <2> QED BY <2>1, <2>2, <2>3, <2>4, Zenon DEF SyncsAsAsked
<1> QED BY <1>1, SettingsInductive, PTL
=============================================================================
