------------------------------ MODULE Calendar ------------------------------
(***************************************************************************)
(* The calendar example: a month, or a year three months abreast, week by  *)
(* week, with the holidays in brackets.  A day is a month and a day of the *)
(* month; `sheet' keeps what printWeek wrote for each month, one row of    *)
(* columns per call, Blank for a column left empty, and `listed' the lines *)
(* with holidays below it, which come in the order of their dates.         *)
(***************************************************************************)
EXTENDS Integers, Sequences, SequencesExt

CONSTANT Today   \* the year and the month at which the program was started

VARIABLES
  cal,     \* the fields _showYear, _showHolidays and _currentDate
  cursor,  \* month -> the date printWeek has come to
  sheet,   \* month -> the rows written
  first,   \* the month now written, or the first of three; 0 is at the end
  listed   \* the holidays written below the sheet

calendarVars == <<cal, cursor, sheet, first, listed>>

Blank == [day |-> 0, brackets |-> FALSE]

(* The date library.  Weekdays count from Sunday, which is 0.              *)
Leap(y) == (y % 4 = 0 /\ y % 100 # 0) \/ y % 400 = 0

DaysIn(y, m) ==
  IF m = 2 THEN IF Leap(y) THEN 29 ELSE 28
  ELSE IF m \in {4, 6, 9, 11} THEN 30 ELSE 31

DaysBefore(y, m) == FoldLeft(LAMBDA n, i : n + DaysIn(y, i), 0, [i \in 1..(m - 1) |-> i])

Weekday(y, m, d) ==
  (y + (y - 1) \div 4 - (y - 1) \div 100 + (y - 1) \div 400 + DaysBefore(y, m) + d - 1) % 7

Date(m, d) == [month |-> m, day |-> d]

(* acatl::day_of_year and acatl::add_days, within a year.                  *)
day_of_year(y, m, d) == DaysBefore(y, m) + d

add_days(y, date, n) ==
  IF date.day + n <= DaysIn(y, date.month)
    THEN Date(date.month, date.day + n)
    ELSE Date((date.month % 12) + 1, date.day + n - DaysIn(y, date.month))

(* acatl::calculateGregorianEaster, as a day of the year.                  *)
calculateGregorianEaster(y) ==
  LET H == (24 + 19 * (y % 19)) % 30
      I == H - (H \div 28)
      J == (y + (y \div 4) + I - 13) % 7
      EM == 3 + ((I + 40 - J) \div 44)
  IN day_of_year(y, EM, I + 28 - J - 31 * (EM \div 4))

LastSunday(y, m) ==
  day_of_year(y, m, DaysIn(y, m) - Weekday(y, m, DaysIn(y, m)))

(* The month a day of the year is in.                                      *)
MonthOf(y, n) == CHOOSE m \in 1..12 : DaysBefore(y, m) < n /\ n <= DaysBefore(y, m) + DaysIn(y, m)

FixedDays ==
  [Neujahr |-> Date(1, 1), DreiKoenige |-> Date(1, 6), ErsterMai |-> Date(5, 1),
   MariaeHimmelfahrt |-> Date(8, 15), Einheit |-> Date(10, 3), Reformationstag |-> Date(10, 31),
   Allerheiligen |-> Date(11, 11), ErsterWeihnachtstag |-> Date(12, 25),
   ZweiterWeihnachtstag |-> Date(12, 26)]

DaysFromEaster ==
  [Rosenmontag |-> -48, Fastnacht |-> -47, Aschermittwoch |-> -46, Palmsonntag |-> -7,
   Karfreitag |-> -2, Ostersonntag |-> 0, Ostermontag |-> 1, ChristiHimmelfahrt |-> 39,
   Pfingstsonntag |-> 49, Pfingstmontag |-> 50, Fronleichnam |-> 60]

ClockChanges == [Sommerzeit |-> 3, Winterzeit |-> 10]

(* calculateHolidays: the names with their days of the year.               *)
calculateHolidays(y) ==
  {[name |-> n, day |-> day_of_year(y, FixedDays[n].month, FixedDays[n].day)] : n \in DOMAIN FixedDays}
  \cup {[name |-> n, day |-> calculateGregorianEaster(y) + DaysFromEaster[n]] : n \in DOMAIN DaysFromEaster}
  \cup {[name |-> n, day |-> LastSunday(y, ClockChanges[n])] : n \in DOMAIN ClockChanges}

(* _holidays: the ones of the year in which the program was started.       *)
Holidays == calculateHolidays(Today.year)

(* isHoliday: the date is compared with its year.                          *)
isHoliday(m, d) ==
  /\ cal.year = Today.year
  /\ \E h \in Holidays : h.day = day_of_year(cal.year, m, d)

(* What is written of a holiday: its name, the day and the month.          *)
Listed(h) ==
  LET m == MonthOf(Today.year, h.day)
  IN [name |-> h.name, on |-> Date(m, h.day - DaysBefore(Today.year, m))]

printAllHolidays == {Listed(h) : h \in Holidays}

printHolidaysForMonth(m) == {line \in printAllHolidays : line.on.month = m}

(* printDay: a column with the day, in brackets when it is a holiday.      *)
printDay(m, d) == [day |-> d, brackets |-> cal.showHolidays /\ isHoliday(m, d)]

Days(m, from, to) == [i \in 1..(to - from + 1) |-> printDay(m, from + i - 1)]

Columns(n) == [i \in 1..n |-> Blank]

printStartOffset(weekday) == Columns(weekday)

(***************************************************************************)
(* printWeek: up to Saturday, or up to the end of the month.               *)
(***************************************************************************)
printWeek(m, date) ==
  LET weekday == Weekday(cal.year, m, date.day)
      length == DaysIn(cal.year, m)
      saturday == date.day + 6 - weekday
      last == IF saturday > length THEN length ELSE saturday
      next == add_days(cal.year, Date(m, last), 1)
      offset == IF date.day = 1 THEN printStartOffset(weekday) ELSE <<>>
      rest == IF saturday > length THEN Columns(6 - Weekday(cal.year, m, length + 1) + 1) ELSE <<>>
  IN IF date.month # m
       THEN [row |-> Columns(7), date |-> date, more |-> FALSE]
       ELSE [row |-> offset \o Days(m, date.day, last) \o rest,
             date |-> next, more |-> next.month = m]

(* doRun: printYear or printSingleMonth.                                   *)
Begin ==
  /\ first' = IF cal.showYear THEN 1 ELSE cal.month
  /\ cursor' = [m \in 1..12 |-> Date(m, 1)]
  /\ sheet' = [m \in 1..12 |-> <<>>]
  /\ UNCHANGED <<cal, listed>>

Abreast == IF cal.showYear THEN {first, first + 1, first + 2} ELSE {first}

GoesOn_last(week) == week[IF cal.showYear THEN first + 2 ELSE first].more

(* One turn of the loop of printSingleMonth or of printThreeMonthWeeks;    *)
(* after the last one come the holidays, of the month or of the year.      *)
GoesOn(week) == \E m \in Abreast : week[m].more

Line ==
  /\ first # 0
  /\ LET week == [m \in Abreast |-> printWeek(m, cursor[m])]
     IN /\ cursor' = [m \in 1..12 |-> IF m \in Abreast THEN week[m].date ELSE cursor[m]]
        /\ sheet' = [m \in 1..12 |-> IF m \in Abreast THEN Append(sheet[m], week[m].row) ELSE sheet[m]]
        /\ first' = IF GoesOn(week) THEN first
                    ELSE IF cal.showYear /\ first < 10 THEN first + 3 ELSE 0
  /\ listed' = IF first' # 0 \/ ~cal.showHolidays THEN listed
             ELSE IF cal.showYear THEN printAllHolidays ELSE printHolidaysForMonth(cal.month)
  /\ UNCHANGED cal

(***************************************************************************)
(* Properties                                                              *)
(***************************************************************************)

(* A row, here the one written last, is seven columns wide, so the months  *)
(* abreast stay in line, and a day stands in the column of its weekday:    *)
(* the blanks before the first and after the last day of a month fit       *)
(* (main.cpp:207-239).                                                     *)
ColumnsLineUp ==
  \A m \in DOMAIN sheet : sheet[m] # <<>> =>
    /\ Len(Last(sheet[m])) = 7
    /\ \A c \in 1..7 :
         Last(sheet[m])[c] # Blank => Weekday(cal.year, m, Last(sheet[m])[c].day) = c - 1

Written(m) ==
  [i \in DOMAIN SelectSeq(FlattenSeq(sheet[m]), LAMBDA c : c # Blank) |->
     SelectSeq(FlattenSeq(sheet[m]), LAMBDA c : c # Blank)[i].day]

(* The sheet is written to its end, and has these months and no other:     *)
(* every day of theirs once and in order.                                  *)
Shows(months) ==
  \A m \in 1..12 :
    Written(m) = IF m \in months THEN [d \in 1..DaysIn(cal.year, m) |-> d] ELSE <<>>

MonthsShown == {m \in DOMAIN sheet : sheet[m] # <<>>}

(* The date of Easter by the algorithm of Gauss in Lichtenberg's form.     *)
GaussEaster(y) ==
  LET k == y \div 100
      M == 15 + (3 * k + 3) \div 4 - (8 * k + 13) \div 25
      D == (19 * (y % 19) + M) % 30
      R == (D + (y % 19) \div 11) \div 29
      OG == 21 + D - R
      SZ == 7 - ((y + y \div 4 + 2 - (3 * k + 3) \div 4) % 7)
      OE == 7 - ((OG + 70 - SZ) % 7)
  IN day_of_year(y, 3, 1) + OG + OE - 1

(* calculateGregorianEaster, which has the constants of the years from     *)
(* 1900 to 2099 built in (date_helper.h:123-134), gives a Sunday and the   *)
(* day the general algorithm gives.                                        *)
EasterIsRight ==
  sheet # <<>> /\ cal.year \in 1900..2099 =>
    /\ calculateGregorianEaster(cal.year) = GaussEaster(cal.year)
    /\ Weekday(cal.year, 1, calculateGregorianEaster(cal.year)) = 0

(* The holidays of a year that fall into some months, by the general       *)
(* algorithm for Easter.                                                   *)
HolidaysOf(y, months) ==
  LET Names == UNION {DOMAIN FixedDays, DOMAIN DaysFromEaster, DOMAIN ClockChanges}
      Dates == UNION {{Date(m, d) : d \in 1..DaysIn(y, m)} : m \in months}
      Is(n, date) ==
        \/ n \in DOMAIN FixedDays /\ FixedDays[n] = date
        \/ n \in DOMAIN DaysFromEaster
           /\ day_of_year(y, date.month, date.day) = GaussEaster(y) + DaysFromEaster[n]
        \/ n \in DOMAIN ClockChanges /\ ClockChanges[n] = date.month
           /\ Weekday(y, date.month, date.day) = 0 /\ date.day + 7 > DaysIn(y, date.month)
  IN {line \in [name : Names, on : Dates] : Is(line.name, line.on)}

(* The days in brackets.                                                   *)
Marked ==
  UNION {{Date(m, c.day) : c \in {x \in Range(FlattenSeq(sheet[m])) : x.brackets}} : m \in DOMAIN sheet}

(* The lines below the sheet are the holidays of the months on it, but of  *)
(* the year in which the program was started; the days in brackets are the *)
(* ones listed if that is the year on the sheet, and there are none if it  *)
(* is another (main.cpp:141-144, 177-180, 241-271, 316).                   *)
HolidaysOfToday ==
  /\ listed = IF cal.showHolidays THEN HolidaysOf(Today.year, MonthsShown) ELSE {}
  /\ Marked = IF cal.year = Today.year THEN {line.on : line \in listed} ELSE {}
=============================================================================
