------------------------------ MODULE Library ------------------------------
(***************************************************************************)
(* Conversions of the C library and the system: numbers (lib/strtol.c,     *)
(* lib/atoi.c), formatted output and input (lib/doprnt.c, _innum and       *)
(* _instr of lib/doscan.c), addresses (net/dot2ip.c), dates                *)
(* (system/ascdate.c, in hours: minutes and seconds divide out) and        *)
(* sorting (lib/qsort.c). Strings are sequences of characters; a long has  *)
(* the range LONG_MIN .. LONG_MAX.                                         *)
(***************************************************************************)
EXTENDS Integers, Sequences, FiniteSets, SequencesExt

CONSTANTS LONG_MAX,
          LiNumerals,    \* bound: strings read as numbers
          LiAddresses,   \* bound: strings read as addresses
          LiDays,        \* bound: days since the beginning of 1970
          LiHours,       \* bound: hours of the day
          LiWidths,      \* bound: widths asked of a field; 0 asks for none
          LiBillion,     \* _doprnt's 1000000000, to the scale of LONG_MAX
          LiArrays       \* bound: arrays to sort

ASSUME LibraryAssumption == LONG_MAX \in Nat /\ LiDays \subseteq Nat /\ LiBillion \in Nat \ {0}

LONG_MIN == -LONG_MAX - 1
ULONG_MAX == 2 * LONG_MAX + 1

VARIABLES licall, liret   \* the call in progress, and what it returns

livars == <<licall, liret>>

-----------------------------------------------------------------------------
(* Numbers *)

Digits == <<"0", "1", "2", "3", "4", "5", "6", "7", "8", "9", "a", "b", "c", "d", "e", "f">>
DigitValue(c) == IF c = "x" THEN 33 ELSE (CHOOSE i \in 1 .. 16 : Digits[i] = c) - 1
Alnum(c) == c = "x" \/ \E i \in 1 .. 16 : Digits[i] = c

(* the rest of s behind the characters of a set *)
SkipAll(s, chars) == LET stop == SelectInSeq(s, LAMBDA c : c \notin chars) IN
                     IF stop = 0 THEN <<>> ELSE SubSeq(s, stop, Len(s))

Negative(t) == t # <<>> /\ Head(t) = "-"
AfterSign(t) == IF t # <<>> /\ Head(t) \in {"-", "+"} THEN Tail(t) ELSE t

(* 0x where base 16 may be, 0b where base 2 may be *)
Prefixed(u, b, bases, c) == b \in bases /\ Len(u) > 1 /\ u[1] = "0" /\ u[2] = c
BaseOf(u, b) ==
  CASE Prefixed(u, b, {0, 16}, "x") -> 16
    [] Prefixed(u, b, {0, 2}, "b") -> 2
    [] b # 0 -> b
    [] OTHER -> IF u # <<>> /\ u[1] = "0" THEN 8 ELSE 10
AfterPrefix(u, b) ==
  IF Prefixed(u, b, {0, 16}, "x") \/ Prefixed(u, b, {0, 2}, "b") THEN SubSeq(u, 3, Len(u)) ELSE u

LeadingDigits(v, base) ==
  LET stop == SelectInSeq(v, LAMBDA c : ~Alnum(c) \/ DigitValue(c) >= base) IN
  [i \in 1 .. IF stop = 0 THEN Len(v) ELSE stop - 1 |-> DigitValue(v[i])]

(* sign, base and digits, as strtol and strtoul take them off the string *)
Numeral(s, b) ==
  LET t == SkipAll(s, {" "})
      u == AfterSign(t) IN
  [neg |-> Negative(t), base |-> BaseOf(u, b),
   digits |-> LeadingDigits(AfterPrefix(u, b), BaseOf(u, b))]

TooBig == -1
(* acc of the loop, against cutoff and cutlim *)
Accumulate(digits, base, largest) ==
  LET cutoff == largest \div base
      cutlim == largest % base IN
  FoldLeft(LAMBDA acc, d : IF acc = TooBig \/ acc > cutoff \/ (acc = cutoff /\ d > cutlim)
                           THEN TooBig ELSE acc * base + d, 0, digits)

NearestLong(acc, neg) ==
  CASE acc = TooBig -> IF neg THEN LONG_MIN ELSE LONG_MAX
    [] OTHER -> IF neg THEN -acc ELSE acc
Strtol(s, b) ==
  LET n == Numeral(s, b) IN
  NearestLong(Accumulate(n.digits, n.base, IF n.neg THEN -LONG_MIN ELSE LONG_MAX), n.neg)

NearestUlong(acc, neg) ==
  CASE acc = TooBig -> ULONG_MAX
    [] OTHER -> IF neg /\ acc > 0 THEN ULONG_MAX + 1 - acc ELSE acc
Strtoul(s, b) == LET n == Numeral(s, b) IN
                 NearestUlong(Accumulate(n.digits, n.base, ULONG_MAX), n.neg)

(* an int that wraps around *)
Wrapped(n) == ((n - LONG_MIN) % (ULONG_MAX + 1)) + LONG_MIN
RECURSIVE Exactly(_, _)
Exactly(digits, base) == IF digits = <<>> THEN 0 ELSE Exactly(Front(digits), base) * base + Last(digits)

Atoi(s) == LET n == Numeral(s, 10) IN
           Wrapped(IF n.neg THEN -Exactly(n.digits, 10) ELSE Exactly(n.digits, 10))

(* _innum, for %x: its test of a digit lets no character pass but a to f,   *)
(* so that %d and %o read no number at all                                  *)
Innum(s) ==
  LET t == SkipAll(s, {" "})
      u == AfterSign(t)
      n == Len(u) - Len(SkipAll(u, {"a", "b", "c", "d", "e", "f"}))
      read == Exactly([i \in 1 .. n |-> DigitValue(u[i])], 16) IN
  IF n = 0 /\ ~Negative(t) THEN <<>> ELSE <<Wrapped(IF Negative(t) THEN -read ELSE read)>>

-----------------------------------------------------------------------------
(* Formatted output and input *)

(* the digits of n, without zeros in front *)
RECURSIVE Spell(_, _)
Spell(n, base) == IF n < base THEN <<Digits[n + 1]>> ELSE Append(Spell(n \div base, base), Digits[(n % base) + 1])

Garbled == <<"?">>   \* the smallest number has no positive one opposite to it
Prtl10(n) == IF n < 0 THEN Garbled ELSE Spell(n, 10)
Prtl8(n) == Spell(n % (ULONG_MAX + 1), 8)
Prtl16(n) == Spell(n % (ULONG_MAX + 1), 16)
Prtl2(n) == Spell(n % (ULONG_MAX + 1), 2)

(* %u: what is taken off until a signed number is left is added to the      *)
(* first digit                                                              *)
RECURSIVE Prtu(_, _)
Prtu(n, digit1) ==
  IF n < 0 THEN Prtu(Wrapped(n - LiBillion), digit1 + 1)
  ELSE LET str == Prtl10(n) IN [str EXCEPT ![1] = Digits[DigitValue(@) + digit1 + 1]]

Converted(f, n) == CASE f = "d" -> Prtl10(Wrapped(IF n < 0 THEN -n ELSE n))
                     [] f = "u" -> Prtu(n, 0)
                     [] f = "o" -> Prtl8(n)
                     [] f = "x" -> Prtl16(n)
                     [] f = "b" -> Prtl2(n)

Fill(char, n) == [i \in 1 .. n |-> char]

BugField(left, fill, fmin, fmax, sign, str) ==
  LET length == IF fmax # 0 /\ Len(str) > fmax THEN fmax ELSE Len(str)
      leading == fmin - length - Len(sign)
      pad == Fill(fill, leading) IN
  IF left THEN sign \o SubSeq(str, 1, length) \o pad
  ELSE pad \o sign \o SubSeq(str, 1, length)

(* the field: sign, filling and at most fmax characters. With both flags,   *)
(* zeros are appended to a number.                                          *)
Field(left, fill, fmin, fmax, sign, str) ==
  LET length == IF fmax # 0 /\ Len(str) > fmax THEN fmax ELSE Len(str)
      leading == IF fmin = 0 THEN 0 ELSE fmin - length - Len(sign)
      pad == Fill(fill, leading)
      text == SubSeq(str, 1, length) IN
  CASE left -> sign \o text \o pad
    [] ~left /\ fill = "0" -> sign \o pad \o text
    [] OTHER -> pad \o sign \o text

(* _doprnt for one conversion; only %d obeys fmax *)
Doprnt(left, fill, fmin, fmax, f, n) ==
  Field(left, fill, fmin, IF f = "d" THEN fmax ELSE 0, IF f = "d" /\ n < 0 THEN <<"-">> ELSE <<>>,
        Converted(f, n))

(* _instr: %c takes any characters, %s leaves blanks before the word out;   *)
(* len is 0 when the format gives none                                      *)
Instr(s, type, len) ==
  LET t == IF type = "s" THEN SkipAll(s, {" "}) ELSE s
      ends == {i \in 1 .. Len(t) : type = "s" /\ t[i] = " "} \cup {Len(t) + 1}
      word == (CHOOSE i \in ends : \A j \in ends : i <= j) - 1
      most == CASE len > 0 -> len [] len = 0 /\ type = "c" -> 1 [] OTHER -> Len(t) + 1
      n == IF word < most THEN word ELSE most IN
  [text |-> SubSeq(t, 1, n), rest |-> SubSeq(t, n + 1, Len(t))]

-----------------------------------------------------------------------------
(* Addresses *)

(* the pieces between the dots *)
Dots(s) == SelectSeq([i \in 1 .. Len(s) + 2 |-> i - 1],
                     LAMBDA i : i \in {0, Len(s) + 1} \/ (i \in 1 .. Len(s) /\ s[i] = "."))
Segments(s) == [k \in 1 .. Len(Dots(s)) - 1 |->
                  [i \in 1 .. Dots(s)[k + 1] - Dots(s)[k] - 1 |-> DigitValue(s[Dots(s)[k] + i])]]

(* dot2ip: one to four segments, as a sequence of them; <<>> for SYSERR *)
Dot2ip(s) ==
  LET segs == Segments(s)
      good(seg) == Len(seg) \in 1 .. 3 /\ Exactly(seg, 10) <= 255 IN
  IF Len(segs) <= 4 /\ \A k \in 1 .. Len(segs) : good(segs[k])
  THEN [k \in 1 .. Len(segs) |-> Exactly(segs[k], 10)] ELSE <<>>

-----------------------------------------------------------------------------
(* Dates *)

isleap(y) == y % 4 = 0
dt_msize == <<31, 28, 31, 30, 31, 30, 31, 31, 30, 31, 30, 31>>
MonthDays(y, m) == dt_msize[m] + (IF m = 2 /\ isleap(y) THEN 1 ELSE 0)
YearDays(y) == IF isleap(y) THEN 366 ELSE 365

RECURSIVE YearAndDay(_, _), MonthAndDay(_, _, _)
YearAndDay(y, n) == IF n < YearDays(y) THEN <<y, n>> ELSE YearAndDay(y + 1, n - YearDays(y))
MonthAndDay(y, m, n) == IF n < MonthDays(y, m) THEN <<m, n + 1>>
                        ELSE MonthAndDay(y, m + 1, n - MonthDays(y, m))

(* the weekday of the first of January; Sunday is 0 *)
Jan1(y) == (4 + (y - 1970) + (y - 1969) \div 4) % 7

(* daylight savings time, computed automatically *)
Dst(y, m, day, hour) ==
  LET mar1 == (Jan1(y) + 31 + 28 + (IF isleap(y) THEN 1 ELSE 0)) % 7
      nov1 == (Jan1(y) + 304 + (IF isleap(y) THEN 1 ELSE 0)) % 7
      marss == IF mar1 = 0 THEN 8 ELSE 15 - mar1
      novfs == IF nov1 = 0 THEN 1 ELSE 8 - nov1 IN
  \/ m \in 4 .. 10
  \/ m = 3 /\ (day > marss \/ (day = marss /\ hour >= 2))
  \/ m = 11 /\ ~(day > novfs \/ (day = novfs /\ hour >= 1))

(* ascdate; the weekday does not follow when the hour saved leads into the  *)
(* next day                                                                 *)
Ascdate(n, hour) ==
  LET yd == YearAndDay(1970, n)
      y == yd[1]
      md == MonthAndDay(y, 1, yd[2])
      dst == Dst(y, md[1], md[2], hour)
      over == dst /\ hour = 23
      next == over /\ md[2] + 1 > dt_msize[md[1]] IN
  [weekday |-> (Jan1(y) + yd[2]) % 7, dst |-> dst, year |-> y,
   month |-> IF next THEN md[1] + 1 ELSE md[1],
   day |-> CASE next -> 1 [] over /\ ~next -> md[2] + 1 [] OTHER -> md[2],
   hour |-> CASE over -> 0 [] dst /\ ~over -> hour + 1 [] OTHER -> hour]

-----------------------------------------------------------------------------
(* Sorting; indices are those of the sequence, and l is the first behind    *)

(* qsexc *)
Exchange(s, i, j) == [s EXCEPT ![i] = s[j], ![j] = s[i]]
(* qstexc *)
Exchange3(s, i, j, k) == [s EXCEPT ![i] = s[k], ![k] = s[j], ![j] = s[i]]

(* a step of the loop of qs1: lp .. hp are equal, what lies before i is     *)
(* less and what lies behind j is greater. top is false after a goto loop.  *)
Partition(x) ==
  LET s == x.s
      below == x.top /\ x.i < x.lp
      above == x.j > x.hp IN
  CASE below /\ s[x.i] = s[x.lp] -> [x EXCEPT !.s = Exchange(s, x.i, x.lp - 1), !.lp = @ - 1]
    [] below /\ s[x.i] < s[x.lp] -> [x EXCEPT !.i = @ + 1]
    [] ~(below /\ s[x.i] <= s[x.lp]) /\ above ->
       CASE s[x.hp] = s[x.j] -> [x EXCEPT !.s = Exchange(s, x.hp + 1, x.j), !.hp = @ + 1, !.top = FALSE]
         [] s[x.hp] < s[x.j] -> [x EXCEPT !.j = @ - 1, !.top = FALSE]
         [] s[x.hp] > s[x.j] /\ x.i = x.lp ->
              [x EXCEPT !.s = Exchange3(s, x.i, x.hp + 1, x.j), !.i = x.lp + 1, !.lp = @ + 1,
                        !.hp = @ + 1, !.top = FALSE]
         [] OTHER -> [x EXCEPT !.s = Exchange(s, x.i, x.j), !.i = @ + 1, !.j = @ - 1, !.top = TRUE]
    [] OTHER -> [x EXCEPT !.s = Exchange3(s, x.j, x.lp - 1, x.i), !.j = x.hp - 1, !.lp = @ - 1,
                          !.hp = @ - 1, !.top = TRUE]

RECURSIVE Split(_), Qs1(_, _, _)
Split(x) == IF x.i = x.lp /\ x.j <= x.hp THEN x ELSE Split(Partition(x))

Qs1(s, a, l) ==
  LET mid == a + (l - a) \div 2
      x == Split([s |-> s, i |-> a, j |-> l - 1, lp |-> mid, hp |-> mid, top |-> TRUE]) IN
  IF l - a <= 1 THEN s ELSE Qs1(Qs1(x.s, x.hp + 1, l), a, x.lp)

Qsort(s) == Qs1(s, 1, Len(s) + 1)

-----------------------------------------------------------------------------

NoCall == [fn |-> "none", arg |-> <<>>, n |-> 0]

LiInit == licall = NoCall /\ liret = <<>>

LiCall(fn, arg, n, ret) == /\ licall = NoCall /\ liret' = <<ret>>
                           /\ licall' = [fn |-> fn, arg |-> arg, n |-> n]

LiReturn == licall # NoCall /\ licall' = NoCall /\ liret' = <<>>

LiIdle(inputs) == IF licall = NoCall THEN inputs ELSE {}

LiNext == \/ \E s \in LiIdle(LiNumerals) : \/ \E b \in {0, 8, 10, 16} : \/ LiCall("strtol", s, b, Strtol(s, b))
                                                                \/ LiCall("strtoul", s, b, Strtoul(s, b))
                                   \/ LiCall("atoi", s, 10, Atoi(s))
                                   \/ LiCall("innum", s, 16, Innum(s))
          \/ \E n \in LiIdle(LONG_MIN .. LONG_MAX), f \in {"d", "u", "o", "x", "b"} :
               \E left \in BOOLEAN, fill \in {" ", "0"}, fmin, fmax \in LiWidths :
                 LiCall("doprnt", <<f, left, fill, fmin, fmax>>, n, Doprnt(left, fill, fmin, fmax, f, n))
          \/ \E s \in LiIdle(LiNumerals), type \in {"s", "c"}, len \in LiWidths :
               LiCall("instr", <<s, type>>, len, Instr(s, type, len))
          \/ \E s \in LiIdle(LiAddresses) : LiCall("dot2ip", s, 0, Dot2ip(s))
          \/ \E n \in LiIdle(LiDays), h \in LiHours : LiCall("ascdate", <<n>>, h, Ascdate(n, h))
          \/ \E s \in LiIdle(LiArrays) : LiCall("qsort", s, 0, Qsort(s))
          \/ LiReturn

LiSpec == LiInit /\ [][LiNext]_livars

-----------------------------------------------------------------------------

LiTypeOK == Len(liret) <= 1 /\ (liret = <<>> <=> licall = NoCall)

Within(n, low, high) == IF n < low THEN low ELSE IF n > high THEN high ELSE n

(* days since 1970, by counting leap years *)
DayNumber(y, m, d) ==
  LET before == FoldLeft(LAMBDA sum, k : sum + dt_msize[k], 0, [k \in 1 .. m - 1 |-> k]) IN
  365 * (y - 1970) + (y - 1969) \div 4 + before + (IF m > 2 /\ y % 4 = 0 THEN 1 ELSE 0) + d - 1

NumberRight(fn, s, b, r) ==
  LET n == Numeral(s, b)
      exact == IF n.neg THEN -Exactly(n.digits, n.base) ELSE Exactly(n.digits, n.base) IN
  CASE fn = "strtol" -> r = Within(exact, LONG_MIN, LONG_MAX)
    [] fn = "strtoul" -> r = IF exact \in -ULONG_MAX .. ULONG_MAX THEN exact % (ULONG_MAX + 1)
                             ELSE ULONG_MAX
    [] fn = "atoi" -> exact \in LONG_MIN .. LONG_MAX => r = exact
    [] OTHER -> TRUE

DateRight(n, h, r) ==
  LET shown == 24 * DayNumber(r.year, r.month, r.day) + r.hour
      at(m, d) == 24 * DayNumber(r.year, m, d)
      sunday(m, first) == CHOOSE d \in first .. first + 6 : (4 + DayNumber(r.year, m, d)) % 7 = 0
      summer == 24 * n + h \in at(3, sunday(3, 8)) + 2 .. at(11, sunday(11, 1)) IN
  /\ r.dst = summer
  /\ shown = 24 * n + h + (IF summer THEN 1 ELSE 0)
  /\ r.hour \in 0 .. 23 /\ r.weekday = (4 + n) % 7

(* A number that is neither cut nor filled behind its end is read back as  *)
(* the number that was printed, in a field of the width asked for.          *)
PrintRight(f, left, fill, fmin, fmax, n, r) ==
  LET base == CASE f \in {"d", "u"} -> 10 [] f = "o" -> 8 [] f = "x" -> 16 [] f = "b" -> 2
      natural == Doprnt(FALSE, " ", 0, 0, f, n) IN
  (n # LONG_MIN \/ f # "d") /\ (fmax = 0 \/ f # "d") /\ ~(left /\ fill = "0") =>
    /\ Len(r) = IF Len(natural) < fmin THEN fmin ELSE Len(natural)
    /\ IF f = "d" THEN Strtol(r, base) = n ELSE Strtoul(r, base) = n % (ULONG_MAX + 1)

(* Every conversion gives what its result is defined to be: a number in    *)
(* range is exact and one out of range the nearest, what is printed is     *)
(* read back as it was, text read is the text, a dotted quad is taken      *)
(* apart, a date and its summer time are those of the calendar (the        *)
(* weekday is that of the standard time), and a sorted array has the       *)
(* elements of the array in order.                                         *)
LiRight ==
  \A i \in 1 .. Len(liret) :
    LET s == licall.arg
        r == liret[i] IN
    CASE licall.fn = "dot2ip" ->
           /\ r # <<>> => \A k \in 1 .. Len(r) : r[k] \in 0 .. 255
           /\ \A k \in 1 .. Len(r) : Len(Segments(s)) = Len(r) /\ Exactly(Segments(s)[k], 10) = r[k]
      [] licall.fn = "ascdate" -> DateRight(s[1], licall.n, r)
      [] licall.fn = "doprnt" -> PrintRight(s[1], s[2], s[3], s[4], s[5], licall.n, r)
      [] licall.fn = "instr" -> /\ IsSuffix(r.text \o r.rest, s[1])
                                /\ s[2] = "s" => " " \notin ToSet(r.text)
                                /\ licall.n > 0 => Len(r.text) <= licall.n
      [] licall.fn = "qsort" -> /\ \A k \in 1 .. Len(r) - 1 : r[k] <= r[k + 1]
                                /\ \A v \in ToSet(s) : Cardinality({k \in 1 .. Len(s) : s[k] = v})
                                                       = Cardinality({k \in 1 .. Len(r) : r[k] = v})
      [] OTHER -> NumberRight(licall.fn, s, licall.n, r)

=============================================================================
