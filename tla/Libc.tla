-------------------------------- MODULE Libc --------------------------------
(***************************************************************************)
(* The C library of user programs (user/libc/stdio.c, stdio_scan.c):       *)
(* formatted output and input, strings and sorting as operators on         *)
(* sequences of characters, the calendar (time.c), each asked about every  *)
(* input of a small set, and a FILE stream with its pushed-back character. *)
(***************************************************************************)
EXTENDS Integers, Sequences, FiniteSets, SequencesExt, FiniteSetsExt

CONSTANTS
    LHalf,          \* 2^32: a 64-bit number is two of these
    LInts,          \* numbers printed
    Questions,      \* the functions asked about
    Widths,         \* widths and precisions; Absent means none
    Versions,       \* strings compared, searched and split
    LDays, LSeconds,    \* days since 1970 and seconds of a day
    FileText,       \* what the stream's file holds
    StreamCalls

VARIABLES
    ask, answer,    \* a question and its answer
    file            \* the stream

libVars == <<ask, answer, file>>

Absent == 0 - 1
DigitChars == <<"0", "1", "2", "3", "4", "5", "6", "7", "8", "9", "a", "b", "c", "d", "e", "f">>
Space == {" ", "nl"}
Rep(c, n) == [i \in 1..(IF n > 0 THEN n ELSE 0) |-> c]

-----------------------------------------------------------------------------
(* Formatted output.                                                       *)

(* uint_to_reversed, read backwards.                                       *)
RECURSIVE DigitsOf(_, _)
DigitsOf(n, base) ==
    IF n < base THEN <<DigitChars[n + 1]>>
    ELSE Append(DigitsOf(n \div base, base), DigitChars[(n % base) + 1])

(* append_uint_format: f has width, precision, left (-), zero (0), plus    *)
(* (+) and space.                                                          *)
AppendUintFormat(n, base, f) ==
    LET digits == IF f.precision = 0 /\ n = 0 THEN <<>> ELSE DigitsOf(n, base)
        zeros == Rep("0", f.precision - Len(digits))
        total == Len(digits) + Len(zeros)
        pad == IF f.zero /\ ~f.left /\ f.precision < 0 THEN "0" ELSE " " IN
    (IF f.left THEN <<>> ELSE Rep(pad, f.width - total)) \o zeros \o digits
      \o (IF f.left THEN Rep(" ", f.width - total) ELSE <<>>)

(* append_int_format: the sign comes before the zeros and after the blanks.*)
AppendIntFormat(n, f) ==
    LET sign == IF n < 0 THEN <<"-">> ELSE IF f.plus THEN <<"+">> ELSE IF f.space THEN <<" ">> ELSE <<>>
        mag == IF n < 0 THEN 0 - n ELSE n
        digits == IF f.precision = 0 /\ mag = 0 THEN <<>> ELSE DigitsOf(mag, 10)
        zeros == Rep("0", f.precision - Len(digits))
        short == f.width - Len(sign) - Len(zeros) - Len(digits)
        zeroed == f.zero /\ f.precision < 0 IN
    (IF ~f.left /\ ~zeroed THEN Rep(" ", short) ELSE <<>>)
      \o sign
      \o (IF ~f.left /\ zeroed THEN Rep("0", short) ELSE <<>>)
      \o zeros \o digits
      \o (IF f.left THEN Rep(" ", short) ELSE <<>>)

(* append_str_width, and %c.                                               *)
AppendStrWidth(s, f) ==
    LET cut == IF f.precision < 0 THEN s ELSE SubSeq(s, 1, Min({f.precision, Len(s)}))
        blank == Rep(" ", f.width - Len(cut)) IN
    IF f.left THEN cut \o blank ELSE blank \o cut

(* append_uint64_dec_parts: a 64-bit number divided by ten bit by bit, in  *)
(* two words.  Bits(hi, lo) are the bits from the top.                     *)
Log2[n \in Nat] == IF n <= 1 THEN 0 ELSE 1 + Log2[n \div 2]
Width == Log2[LHalf]
BitAt(hi, lo, bit) == IF bit >= Width THEN (hi \div 2 ^ (bit - Width)) % 2 ELSE (lo \div 2 ^ bit) % 2
DivTen(hi, lo) ==
    FoldLeft(LAMBDA acc, i :
                 LET r == 2 * acc.rem + BitAt(hi, lo, 2 * Width - i)
                     q == IF r >= 10 THEN 1 ELSE 0 IN
                 [rem |-> IF r >= 10 THEN r - 10 ELSE r,
                  hi |-> (2 * acc.hi + (2 * acc.lo) \div LHalf) % LHalf,
                  lo |-> ((2 * acc.lo) % LHalf) + q],
             [rem |-> 0, hi |-> 0, lo |-> 0], [i \in 1..(2 * Width) |-> i])
RECURSIVE Uint64Dec(_, _)
Uint64Dec(hi, lo) ==
    LET d == DivTen(hi, lo) IN
    IF d.hi = 0 /\ d.lo = 0 THEN <<DigitChars[d.rem + 1]>>
    ELSE Append(Uint64Dec(d.hi, d.lo), DigitChars[d.rem + 1])
(* append_int64: the two words of a negative number are negated by hand.   *)
AppendInt64(hi, lo) ==
    IF hi < LHalf \div 2 THEN Uint64Dec(hi, lo)
    ELSE <<"-">> \o Uint64Dec((LHalf - 1 - hi + (IF lo = 0 THEN 1 ELSE 0)) % LHalf, (LHalf - lo) % LHalf)
(* append_uint64_hex_parts, append_uint64_oct_parts.                       *)
Uint64Hex(hi, lo) == DigitsOf(hi * LHalf + lo, 16)

(* append_char: what does not fit is counted and dropped; one place is     *)
(* kept for the end of the string.                                         *)
Clip(text, size) == [text |-> SubSeq(text, 1, Min({Len(text), IF size > 0 THEN size - 1 ELSE 0})),
                     count |-> Len(text)]

(* format_into and vasprintf: a pass that only counts, then one into a     *)
(* buffer of that size.                                                    *)
Vasprintf(text) == Clip(text, Clip(text, 0).count + 1)

-----------------------------------------------------------------------------
(* Formatted input.                                                        *)

DigitValue(c) == IF c \in ToSet(DigitChars) THEN (CHOOSE i \in 1..16 : DigitChars[i] = c) - 1 ELSE Absent
Skip(s, P(_)) == LET stops == {i \in 1..Len(s) : ~P(s[i])} IN
                 IF stops = {} THEN <<>> ELSE SubSeq(s, Min(stops), Len(s))
IsSpace(c) == c \in Space
(* strtol and its kin: blanks, a sign where the type has one, a prefix     *)
(* when the base is 0, then digits.  rest is what *endptr points at.       *)
StrtoEnd(body, rest, radix, sign) ==
    [value |-> sign * FoldLeft(LAMBDA acc, c : acc * radix + DigitValue(c), 0,
                               SubSeq(body, 1, Len(body) - Len(rest))),
     rest |-> rest]
StrtoDigits(body, radix, sign) ==
    StrtoEnd(body, Skip(body, LAMBDA c : DigitValue(c) >= 0 /\ DigitValue(c) < radix), radix, sign)
StrtoPrefix(u, base, sign) ==
    IF base # 0 THEN StrtoDigits(u, base, sign)
    ELSE IF Len(u) >= 2 /\ u[1] = "0" /\ u[2] = "x" THEN StrtoDigits(SubSeq(u, 3, Len(u)), 16, sign)
    ELSE StrtoDigits(u, IF u # <<>> /\ u[1] = "0" THEN 8 ELSE 10, sign)
StrtoSign(t, base, signed) ==
    IF signed /\ t # <<>> /\ Head(t) \in {"-", "+"}
    THEN StrtoPrefix(Tail(t), base, IF Head(t) = "-" THEN -1 ELSE 1)
    ELSE StrtoPrefix(t, base, 1)
Strto(s, base, signed) == StrtoSign(Skip(s, IsSpace), base, signed)

(* vsscanf of "%d %d": what is left starts where the number ended.         *)
ScanResult(a, lenA, b, lenB) ==
    IF Len(a.rest) = lenA THEN <<>>
    ELSE IF Len(b.rest) = lenB THEN <<a.value>> ELSE <<a.value, b.value>>
SscanfAfter(s, a) ==
    ScanResult(a, Len(s), Strto(a.rest, 10, TRUE), Len(Skip(a.rest, IsSpace)))
Sscanf2(s) == SscanfAfter(s, Strto(s, 10, TRUE))
(* fscanf of the same: a number is a whole word of the stream, whose tail  *)
(* is gone with it.                                                        *)
Word1(s) == LET t == Skip(s, IsSpace)
                stop(c) == ~IsSpace(c) IN
            [word |-> SubSeq(t, 1, Len(t) - Len(Skip(t, stop))), rest |-> Skip(t, stop)]
FscanfWords(a, b) ==
    ScanResult(Strto(a.word, 10, TRUE), Len(a.word), Strto(b.word, 10, TRUE), Len(b.word))
FscanfAfter(a) == FscanfWords(a, Word1(a.rest))
Fscanf2(s) == FscanfAfter(Word1(s))

-----------------------------------------------------------------------------
(* Strings and sorting.                                                    *)

Order(c) == CHOOSE i \in 1..20 : (<<" ", "-">> \o DigitChars)[i] = c
Digit(c) == c \in {DigitChars[i] : i \in 1..10}
(* strverscmp: runs of digits are compared by value, then by their zeros.  *)
RECURSIVE Strverscmp(_, _)
Strverscmp(a, b) ==
    LET zero(c) == c = "0"
        az == Skip(a, zero)   bz == Skip(b, zero)
        an == Skip(az, Digit) bn == Skip(bz, Digit)
        alen == Len(az) - Len(an)
        blen == Len(bz) - Len(bn)
        differ == {i \in 1..alen : az[i] # bz[i]} IN
    IF a = <<>> \/ b = <<>> THEN (IF a # <<>> THEN 1 ELSE IF b # <<>> THEN 0 - 1 ELSE 0)
    ELSE IF Digit(Head(a)) /\ Digit(Head(b))
    THEN IF alen # blen THEN (IF alen < blen THEN 0 - 1 ELSE 1)
         ELSE IF differ # {} THEN Order(az[Min(differ)]) - Order(bz[Min(differ)])
         ELSE IF Len(a) - Len(az) # Len(b) - Len(bz)
         THEN (IF Len(a) - Len(az) < Len(b) - Len(bz) THEN 0 - 1 ELSE 1)
         ELSE Strverscmp(an, bn)
    ELSE IF Head(a) # Head(b) THEN Order(Head(a)) - Order(Head(b))
    ELSE Strverscmp(Tail(a), Tail(b))

(* qsort: every pair in turn, exchanged when out of order.                 *)
Qsort(s) ==
    LET n == Len(s)
        pairs == [k \in 1..(n * n) |-> <<(k - 1) \div n + 1, ((k - 1) % n) + 1>>]
        swap(t, p) == IF p[1] < p[2] /\ Strverscmp(t[p[1]], t[p[2]]) > 0
                      THEN [t EXCEPT ![p[1]] = t[p[2]], ![p[2]] = t[p[1]]] ELSE t IN
    FoldLeft(swap, s, pairs)
(* bsearch: the place found in lo..hi, 0 if none.                          *)
RECURSIVE Bsearch(_, _, _, _)
Bsearch(key, s, lo, hi) ==
    LET mid == lo + (hi - lo) \div 2
        cmp == Strverscmp(key, s[mid + 1]) IN
    IF lo >= hi THEN 0
    ELSE IF cmp < 0 THEN Bsearch(key, s, lo, mid)
    ELSE IF cmp > 0 THEN Bsearch(key, s, mid + 1, hi) ELSE mid + 1

(* strtok_r: the tokens of successive calls; strsep: the fields.           *)
RECURSIVE StrtokR(_, _)
StrtokR(s, delims) ==
    LET in(c) == c \in delims
        out(c) == c \notin delims
        cur == Skip(s, in)
        rest == Skip(cur, out) IN
    IF cur = <<>> THEN <<>>
    ELSE <<SubSeq(cur, 1, Len(cur) - Len(rest))>>
         \o (IF rest = <<>> THEN <<>> ELSE StrtokR(Tail(rest), delims))
RECURSIVE Strsep(_, _)
Strsep(s, delims) ==
    LET out(c) == c \notin delims
        rest == Skip(s, out) IN
    IF rest = <<>> THEN <<s>>
    ELSE <<SubSeq(s, 1, Len(s) - Len(rest))>> \o Strsep(Tail(rest), delims)
(* strstr: the first place needle is at, 0 if none.                        *)
Strstr(s, needle) ==
    LET at == {i \in 1..Len(s) : i + Len(needle) - 1 <= Len(s)
                                   /\ SubSeq(s, i, i + Len(needle) - 1) = needle} IN
    IF needle = <<>> THEN 1 ELSE IF at = {} THEN 0 ELSE Min(at)

-----------------------------------------------------------------------------
(* The calendar.  A time_t is its day and its second of the day, a name of *)
(* a day or a month one element of the text.                               *)

WeekDays == <<"Sun", "Mon", "Tue", "Wed", "Thu", "Fri", "Sat">>
Months == <<"Jan", "Feb", "Mar", "Apr", "May", "Jun", "Jul", "Aug", "Sep", "Oct", "Nov", "Dec">>
IsLeap(y) == (y % 4 = 0 /\ y % 100 # 0) \/ y % 400 = 0
MonthDays(y, m) ==
    <<31, 28, 31, 30, 31, 30, 31, 31, 30, 31, 30, 31>>[m + 1]
      + (IF m = 1 /\ IsLeap(y) THEN 1 ELSE 0)
DaysBefore(y) == 365 * (y - 1970) + Cardinality({z \in 1970..(y - 1) : IsLeap(z)})
DaysBeforeMonth(y, m) == FoldLeft(LAMBDA d, k : d + MonthDays(y, k - 1), 0, [k \in 1..m |-> k])

(* The two loops of gmtime_r take off whole years and then whole months: a *)
(* 32-bit time ends in 2106.                                               *)
Gmtime(days, rem) ==
    LET year == Max({y \in 1970..2106 : DaysBefore(y) <= days})
        yday == days - DaysBefore(year)
        mon == Max({m \in 0..11 : DaysBeforeMonth(year, m) <= yday}) IN
    [year |-> year, mon |-> mon, mday |-> yday - DaysBeforeMonth(year, mon) + 1, yday |-> yday,
     wday |-> (days + 4) % 7, hour |-> rem \div 3600, min |-> (rem \div 60) % 60, sec |-> rem % 60]

(* timegm: the years and months before, summed up.                         *)
Timegm(tm) ==
    IF tm.year < 1970 THEN <<0, 0>>
    ELSE <<DaysBefore(tm.year) + DaysBeforeMonth(tm.year, Min({tm.mon, 12}))
             + (IF tm.mday > 0 THEN tm.mday - 1 ELSE 0),
           tm.hour * 3600 + tm.min * 60 + tm.sec>>
(* mktime: the value, and the fields it corrects.                          *)
Mktime(tm) ==
    LET v == Timegm(tm)
        right == Gmtime(v[1], v[2]) IN
    [value |-> v, tm |-> [tm EXCEPT !.wday = right.wday, !.yday = right.yday]]

(* strftime: append_u32 pads with zeros; a text that does not fit is none. *)
Zeros(n, width) == LET d == DigitsOf(n, 10) IN Rep("0", width - Len(d)) \o d
Converted(c, tm) ==
    CASE c = "%a" -> <<WeekDays[tm.wday + 1]>>
      [] c = "%b" -> <<Months[tm.mon + 1]>>
      [] c = "%d" -> Zeros(tm.mday, 2)
      [] c = "%H" -> Zeros(tm.hour, 2)
      [] c = "%M" -> Zeros(tm.min, 2)
      [] c = "%S" -> Zeros(tm.sec, 2)
      [] c = "%Y" -> Zeros(tm.year, 4)
      [] OTHER -> <<c>>
Length(text) == FoldLeft(LAMBDA n, c : n + (IF c \in ToSet(WeekDays) \union ToSet(Months) THEN 3 ELSE 1), 0, text)
Strftime(max, format, tm) ==
    LET text == FlattenSeq([i \in DOMAIN format |-> Converted(format[i], tm)]) IN
    IF Length(text) >= max THEN <<>> ELSE text

(* strptime of the one format it knows: numbers of up to two digits, a     *)
(* year of four, and every separator in its place; <<>> when one is not    *)
(* (the fields already read stay in the caller's tm, which it discards).   *)
HttpDate == <<"%a", ",", " ", "%d", " ", "%b", " ", "%Y", " ", "%H", ":", "%M", ":", "%S", " ", "G", "M", "T">>
RECURSIVE ParseFields(_, _, _)
ParseFields(text, format, tm) ==
    LET c == Head(format)
        have(n) == Len(text) >= n /\ \A i \in 1..n : Digit(text[i])
        n == IF c = "%Y" THEN 4 ELSE IF have(2) THEN 2 ELSE 1
        v == FoldLeft(LAMBDA acc, d : 10 * acc + DigitValue(d), 0, SubSeq(text, 1, n))
        name(names) == SelectInSeq(names, LAMBDA x : x = text[1]) - 1
        field == CASE c = "%d" -> "mday" [] c = "%H" -> "hour" [] c = "%M" -> "min"
                   [] c = "%S" -> "sec" [] c = "%Y" -> "year" [] OTHER -> "" IN
    IF format = <<>> THEN <<tm>>
    ELSE IF text = <<>> THEN <<>>
    ELSE IF c = "%a" THEN IF name(WeekDays) < 0 THEN <<>>
                          ELSE ParseFields(Tail(text), Tail(format), [tm EXCEPT !.wday = name(WeekDays)])
    ELSE IF c = "%b" THEN IF name(Months) < 0 THEN <<>>
                          ELSE ParseFields(Tail(text), Tail(format), [tm EXCEPT !.mon = name(Months)])
    ELSE IF field # "" THEN IF ~have(n) THEN <<>>
                            ELSE ParseFields(SubSeq(text, n + 1, Len(text)), Tail(format), [tm EXCEPT ![field] = v])
    ELSE IF text[1] # c THEN <<>> ELSE ParseFields(Tail(text), Tail(format), tm)
Strptime(text, tm) == ParseFields(text, HttpDate, tm)

-----------------------------------------------------------------------------
(* A stream (FILE): the file's offset and one pushed-back character.       *)

Byte(i) == IF i <= Len(FileText) THEN FileText[i] ELSE "eof"
StreamLeft(call) == call \in {"getc", "fread", "fgets", "ungetc", "seek"} /\ ask.fn = "stream" /\ file.left > 0
Took(f, n) == [f EXCEPT !.got = @ \o [i \in 1..n |-> Byte(f.pos + i)], !.pos = @ + n]

(* fgetc: the pushed-back character first.                                 *)
Fgetc(f) ==
    IF f.unget # "" THEN [f EXCEPT !.unget = "", !.got = Append(@, f.unget)]
    ELSE IF f.pos < Len(FileText) THEN Took(f, 1) ELSE [f EXCEPT !.eof = TRUE]
(* fgets: up to n - 1 characters or a line.                                *)
RECURSIVE FgetsLoop(_, _)
FgetsLoop(f, room) ==
    LET g == Fgetc(f) IN
    IF room = 0 THEN f
    ELSE IF Len(g.got) = Len(f.got) THEN g
    ELSE IF Last(g.got) = "nl" THEN g ELSE FgetsLoop(g, room - 1)

StreamGetc == StreamLeft("getc") /\ file' = [Fgetc(file) EXCEPT !.left = @ - 1]
StreamFgets(n) == StreamLeft("fgets") /\ file' = [FgetsLoop(file, n - 1) EXCEPT !.left = @ - 1]
(* getline: the line whatever its length.                                  *)
StreamGetline == StreamLeft("fgets") /\ file' = [FgetsLoop(file, Len(FileText) + 1) EXCEPT !.left = @ - 1]
(* fread asks the descriptor and leaves the pushed-back character alone.   *)
StreamFread(n) ==
    /\ StreamLeft("fread")
    /\ file' = [Took(file, Min({n, Len(FileText) - file.pos})) EXCEPT
                   !.left = @ - 1, !.eof = @ \/ file.pos = Len(FileText),
                   !.mixed = @ \/ file.unget # ""]
StreamUngetc ==
    /\ StreamLeft("ungetc") /\ file.got # <<>>
    /\ file' = [file EXCEPT !.unget = Last(file.got), !.got = Front(@), !.eof = FALSE,
                            !.left = @ - 1, !.mixed = @ \/ file.unget # ""]
(* fseek moves the descriptor only; ftell does not count what is pushed    *)
(* back.                                                                   *)
StreamSeek(to) ==
    /\ StreamLeft("seek")
    /\ file' = [file EXCEPT !.pos = to, !.eof = FALSE, !.left = @ - 1, !.from = to, !.got = <<>>,
                            !.mixed = @ \/ file.unget # ""]

-----------------------------------------------------------------------------
Flags == [width : Widths, precision : Widths \cup {Absent}, left : BOOLEAN, zero : BOOLEAN,
          plus : BOOLEAN, space : BOOLEAN]
Plain == [width |-> 0, precision |-> Absent, left |-> FALSE, zero |-> FALSE, plus |-> FALSE, space |-> FALSE]
NoQuestion == [fn |-> "stream", a |-> <<>>, b |-> <<>>, n |-> 0, m |-> 0, f |-> Plain]
LibInit ==
    /\ answer = <<>>
    /\ file = [pos |-> 0, unget |-> "", eof |-> FALSE, got |-> <<>>, from |-> 0,
               left |-> StreamCalls, mixed |-> FALSE]
    /\ \E fn \in Questions :
          CASE fn = "int" -> \E n \in LInts, f \in Flags :
                                ask = [NoQuestion EXCEPT !.fn = fn, !.n = n, !.f = f]
            [] fn = "two" -> \E n, m \in LInts : ask = [NoQuestion EXCEPT !.fn = fn, !.n = n, !.m = m]
            [] fn = "int64" -> \E n, m \in 0..(LHalf - 1) :
                                  ask = [NoQuestion EXCEPT !.fn = fn, !.n = n, !.m = m]
            [] fn \in {"compare", "split"} -> \E a, b \in Versions :
                                  ask = [NoQuestion EXCEPT !.fn = fn, !.a = a, !.b = b]
            [] fn = "date" -> \E n \in LDays, m \in LSeconds :
                                  ask = [NoQuestion EXCEPT !.fn = fn, !.n = n, !.m = m]
            [] OTHER -> ask = NoQuestion

Answer ==
    /\ ask.fn # "stream" /\ answer = <<>>
    /\ answer' = CASE ask.fn = "int" -> <<AppendIntFormat(ask.n, ask.f)>>
                   [] ask.fn = "two" -> <<AppendIntFormat(ask.n, Plain) \o <<" ">> \o AppendIntFormat(ask.m, Plain)>>
                   [] ask.fn = "int64" -> <<AppendInt64(ask.n, ask.m)>>
                   [] ask.fn = "compare" -> <<Qsort(<<ask.a, ask.b, <<"0">>, <<"1", "0">> >>)>>
                   [] ask.fn = "date" -> <<Gmtime(ask.n, ask.m)>>
                   [] OTHER -> <<StrtokR(ask.a, ToSet(ask.b))>>
    /\ UNCHANGED <<ask, file>>

LibNext ==
    \/ Answer
    \/ /\ \/ StreamGetc \/ StreamGetline \/ StreamUngetc
          \/ \E n \in 1..3 : StreamFgets(n) \/ StreamFread(n)
          \/ \E to \in 0..Len(FileText) : StreamSeek(to)
       /\ UNCHANGED <<ask, answer>>

LibSpec == LibInit /\ [][LibNext]_libVars

-----------------------------------------------------------------------------
(* What the library is to answer, defined without its algorithms.          *)
Sign(n, f) == IF n < 0 THEN "-" ELSE IF f.plus THEN "+" ELSE IF f.space THEN " " ELSE ""
Body(text) == SelectSeq(text, LAMBDA c : Digit(c))
Value(text) == FoldLeft(LAMBDA acc, c : 10 * acc + DigitValue(c), 0, Body(text))
Formatted(n, f, text) ==
    LET blanks == {i \in 1..Len(text) : text[i] = " "}
        core == SelectSeq(text, LAMBDA c : c # " ") IN
    /\ Len(text) = Max({f.width, Len(Body(text)) + (IF Sign(n, f) # "" THEN 1 ELSE 0)})
    /\ Value(text) = IF n < 0 THEN 0 - n ELSE n
    /\ Len(Body(text)) >= f.precision
    /\ (Sign(n, f) \in {"-", "+"}) => Head(core) = Sign(n, f)
    /\ f.left /\ Sign(n, f) # " " => \A i \in blanks : \A j \in i..Len(text) : j \in blanks
    /\ ~f.left => \A i \in blanks : \A j \in 1..i : j \in blanks
    /\ f.zero /\ ~f.left /\ f.precision < 0 => Cardinality(blanks) <= (IF Sign(n, f) = " " THEN 1 ELSE 0)
Long(hi, lo) == LET v == hi * LHalf + lo IN IF hi < LHalf \div 2 THEN v ELSE v - LHalf * LHalf
Runs2(s, delims) ==
    {<<i, j>> \in (1..Len(s)) \X (1..Len(s)) :
        /\ i <= j /\ \A k \in i..j : s[k] \notin delims
        /\ i > 1 => s[i - 1] \in delims
        /\ j < Len(s) => s[j + 1] \in delims}

(* The Gregorian calendar in closed form: years begin in March.            *)
DayNumber(y, m, d) ==
    LET yy == IF m <= 2 THEN y - 1 ELSE y
        mm == IF m <= 2 THEN m + 9 ELSE m - 3 IN
    365 * yy + yy \div 4 - yy \div 100 + yy \div 400 + (153 * mm + 2) \div 5 + d - 1 - 719468
NoDate == [year |-> 1970, mon |-> 0, mday |-> 1, yday |-> 0, wday |-> 0, hour |-> 0, min |-> 0, sec |-> 0]

(* The library's answers are the right ones: printf's sign, precision,     *)
(* width and padding for every combination of flags, the same text in the  *)
(* counting pass and in the buffer; a 64-bit number divided by hand reads  *)
(* as its value; what printf prints, sscanf and fscanf read back;          *)
(* strverscmp orders strings, so that qsort sorts them and bsearch finds   *)
(* each of them; strtok_r returns the runs between delimiters in order;    *)
(* gmtime_r counts days as the Gregorian calendar does, timegm and mktime  *)
(* take its answer back to the same time, and what strftime writes for an  *)
(* HTTP date strptime reads back.                                          *)
LibcRight ==
    answer # <<>> =>
        LET r == answer[1] IN
        CASE ask.fn = "int" ->
                /\ Formatted(ask.n, ask.f, r)
                /\ ask.n >= 0 /\ ~ask.f.plus /\ ~ask.f.space => AppendUintFormat(ask.n, 10, ask.f) = r
                /\ ~ask.f.zero /\ ask.f.precision < 0
                     => AppendStrWidth(AppendIntFormat(ask.n, [ask.f EXCEPT !.width = 0]), ask.f) = r
                /\ Vasprintf(r) = [text |-> r, count |-> Len(r)]
          [] ask.fn = "two" -> Sscanf2(r) = <<ask.n, ask.m>> /\ Fscanf2(r) = <<ask.n, ask.m>>
          [] ask.fn = "int64" -> Strto(r, 10, TRUE) = [value |-> Long(ask.n, ask.m), rest |-> <<>>]
                                   /\ Strto(<<"0", "x">> \o Uint64Hex(ask.n, ask.m), 0, FALSE).value
                                        = ask.n * LHalf + ask.m
          [] ask.fn = "compare" ->
                /\ \A i \in 1..3 : Strverscmp(r[i], r[i + 1]) <= 0
                /\ \A i \in 1..4 : Bsearch(r[i], r, 0, 4) # 0 /\ r[Bsearch(r[i], r, 0, 4)] = r[i]
                /\ \A c \in Versions : Strverscmp(ask.a, ask.b) <= 0 /\ Strverscmp(ask.b, c) <= 0
                                         => Strverscmp(ask.a, c) <= 0
          [] ask.fn = "date" ->
                /\ DayNumber(r.year, r.mon + 1, r.mday) = ask.n
                /\ r.mon \in 0..11 /\ r.mday \in 1..MonthDays(r.year, r.mon)
                /\ r.yday = ask.n - DayNumber(r.year, 1, 1)
                /\ r.hour < 24 /\ Timegm(r) = <<ask.n, ask.m>>
                /\ Mktime([r EXCEPT !.wday = 0, !.yday = 0]) = [value |-> <<ask.n, ask.m>>, tm |-> r]
                /\ Strptime(Strftime(30, HttpDate, r), [NoDate EXCEPT !.yday = r.yday]) = <<r>>
                /\ Strftime(29, HttpDate, r) = <<>>
          [] OTHER ->
                LET runs == Runs2(ask.a, ToSet(ask.b)) IN
                /\ {r[i] : i \in DOMAIN r} = {SubSeq(ask.a, p[1], p[2]) : p \in runs}
                /\ Len(r) = Cardinality(runs)
                /\ \A i \in DOMAIN r :
                      \E p \in runs : /\ SubSeq(ask.a, p[1], p[2]) = r[i]
                                      /\ Strstr(ask.a, r[i]) \in 1..p[1]
                /\ SelectSeq(Strsep(ask.a, ToSet(ask.b)), LAMBDA t : t # <<>>) = r

(* Characters come out of a stream in the order of the file, each once,    *)
(* through any mix of fgetc, fgets, getline and ungetc, from wherever the  *)
(* last fseek left it -- except that fread and fseek do not see a          *)
(* character that is pushed back, nor does a second ungetc.                *)
StreamInOrder ==
    ~file.mixed =>
        file.got \o (IF file.unget # "" THEN <<file.unget>> ELSE <<>>)
            = SubSeq(FileText, file.from + 1, file.pos)

-----------------------------------------------------------------------------
(***************************************************************************)
(* The POSIX layer of the C library (user/posix/core.c): pattern matching, *)
(* paths, options, the environment, copying between descriptors, and the   *)
(* resolver.  The pure functions are operators, asked about small inputs   *)
(* and compared with what they are to compute; the rest are actions.       *)
(*                                                                         *)
(* A string is a sequence of characters; a bracket expression is one token *)
(* of a pattern.  Positions are counted from 1.                            *)
(***************************************************************************)

CONSTANTS
    PxJobs,        \* which of the parts below a behaviour is about
    PxChars, PxTokens, PxLen,  \* characters, pattern tokens, longest string
    PxArgvs,       \* argument vectors for getopt
    PxOpts,        \* option character -> "none" | "arg" | "optional"
    PxVars, PxValues,          \* environment
    PxBlock, PxFile,           \* sendfile's buffer, the file's length
    PxBuffer,      \* sendmsg's buffer
    PxTick, PxSecond, PxWord,  \* a tick and a second in microseconds, 2^32
    PxIds, PxHosts, PxCalls

VARIABLES
    asked,    \* the question and its answer
    environ,  \* the list of <<name, value>>, and whether it is malloced
    wanted,   \* history: the environment as a function
    pipe,     \* sendfile: what was asked, what was written, what it returned
    dns,      \* the resolver's next id, its query, the replies under way
    pxJob,    \* the part this behaviour is about
    pxLeft    \* calls still to be made

pxVars == <<asked, environ, wanted, pipe, dns, pxJob, pxLeft>>

Strs(alphabet, n) == UNION {[1 .. k -> alphabet] : k \in 0 .. n}
From(s, i) == SubSeq(s, i, Len(s))

-----------------------------------------------------------------------------
(* fnmatch.  A token is a character, "?", "*" or a bracket expression.     *)

InBracket(tok, c) == (tok = "[a]" /\ c = "a") \/ (tok = "[!a]" /\ c # "a")
Brackets == {"[a]", "[!a]"}

RECURSIVE FnmatchInner(_, _, _, _)

FnmatchInner(p, s, flags, start) ==
    LET c == Head(s)
        slash == "pathname" \in flags /\ s # <<>> /\ c = "/"
        hidden == "period" \in flags /\ start /\ s # <<>> /\ c = "."
        reach == IF "pathname" \in flags /\ "/" \in ToSet(s)
                 THEN Min({k \in DOMAIN s : s[k] = "/"}) - 1 ELSE Len(s) IN
    IF p = <<>> THEN s = <<>> \/ ("leading" \in flags /\ c = "/")
    ELSE IF Head(p) = "*"
    THEN /\ ~hidden
         /\ IF Tail(p) = <<>> THEN reach = Len(s) \/ "leading" \in flags
            ELSE \E k \in 0 .. reach : FnmatchInner(Tail(p), From(s, k + 1), flags, start /\ k = 0)
    ELSE IF Head(p) = "?" \/ Head(p) \in Brackets
    THEN /\ s # <<>> /\ ~slash /\ ~hidden
         /\ Head(p) = "?" \/ InBracket(Head(p), c)
         /\ FnmatchInner(Tail(p), Tail(s), flags, FALSE)
    ELSE s # <<>> /\ Head(p) = c /\ FnmatchInner(Tail(p), Tail(s), flags, slash)

Fnmatch(p, s, flags) == FnmatchInner(p, s, flags, TRUE)

\* What a pattern means: its tokens stand, in order, for adjacent pieces of s.
Piece(tok, s, i, j, flags) ==
    LET leads == i <= Len(s) /\ s[i] = "." /\ "period" \in flags
                 /\ (i = 1 \/ ("pathname" \in flags /\ s[i - 1] = "/"))
        free == "pathname" \in flags => \A k \in i .. j - 1 : s[k] # "/" IN
    CASE tok = "*" -> free /\ ~leads
      [] tok = "?" -> j = i + 1 /\ free /\ ~leads
      [] tok \in Brackets -> j = i + 1 /\ free /\ ~leads /\ InBracket(tok, s[i])
      [] OTHER -> j = i + 1 /\ s[i] = tok

Stands(p, s, flags) ==
    \E cut \in [1 .. Len(p) + 1 -> 1 .. Len(s) + 1] :
       /\ cut[1] = 1
       /\ cut[Len(p) + 1] = Len(s) + 1 \/ ("leading" \in flags /\ s[cut[Len(p) + 1]] = "/")
       /\ \A k \in DOMAIN p : cut[k] <= cut[k + 1] /\ Piece(p[k], s, cut[k], cut[k + 1], flags)

-----------------------------------------------------------------------------
(* regexec: ".", "x*" and "$" after an optional "^".                       *)

AtomMatch(tok, c) == tok = "." \/ tok = c

RECURSIVE RegexHere(_, _)

RegexHere(p, t) ==
    IF p = <<>> THEN TRUE
    ELSE IF p = <<"$">> THEN t = <<>>
    ELSE IF Len(p) > 1 /\ p[2] = "*"
    THEN \E k \in 0 .. Len(t) : /\ \A i \in 1 .. k : AtomMatch(p[1], t[i])
                                /\ RegexHere(From(p, 3), From(t, k + 1))
    ELSE t # <<>> /\ AtomMatch(p[1], t[1]) /\ RegexHere(Tail(p), Tail(t))

Regexec(p, s) ==
    IF p # <<>> /\ p[1] = "^" THEN RegexHere(Tail(p), s)
    ELSE \E i \in 1 .. Len(s) + 1 : RegexHere(p, From(s, i))

\* The strings of at most n characters a pattern without anchors denotes.
RECURSIVE Language(_, _)

Language(p, n) ==
    LET fits(tok) == {c \in PxChars : AtomMatch(tok, c)}
        runs(tok) == UNION {[1 .. k -> fits(tok)] : k \in 0 .. n}
        short(S) == {w \in S : Len(w) <= n} IN
    IF p = <<>> THEN {<<>>}
    ELSE IF Len(p) > 1 /\ p[2] = "*"
    THEN short({u \o v : u \in runs(p[1]), v \in Language(From(p, 3), n)})
    ELSE short({<<c>> \o v : c \in fits(p[1]), v \in Language(Tail(p), n)})

-----------------------------------------------------------------------------
(* Paths.                                                                  *)

\* basename and dirname first cut the slashes at the end.
RECURSIVE Trim(_)
Trim(p) == IF Len(p) > 1 /\ Last(p) = "/" THEN Trim(Front(p)) ELSE p

LastSlash(p) == LET at == {i \in DOMAIN p : p[i] = "/"} IN IF at = {} THEN 0 ELSE Max(at)

Basename(path) ==
    LET p == Trim(path) IN
    IF p = <<>> THEN <<".">> ELSE IF p = <<"/">> THEN p ELSE From(p, LastSlash(p) + 1)

Dirname(path) ==
    LET p == Trim(path) IN
    IF p = <<>> \/ LastSlash(p) = 0 THEN <<".">> ELSE Trim(SubSeq(p, 1, LastSlash(p)))

\* realpath: the components of the path, behind those of the directory.
RECURSIVE Components(_)
Components(p) ==
    IF p = <<>> THEN <<>>
    ELSE IF p[1] = "/" THEN Components(Tail(p))
    ELSE LET ends == {i \in DOMAIN p : p[i] = "/"} \cup {Len(p) + 1} IN
         <<SubSeq(p, 1, Min(ends) - 1)>> \o Components(From(p, Min(ends)))

Walk(at, c) == IF c = <<".">> THEN at
               ELSE IF c = <<".", ".">> THEN (IF at = <<>> THEN at ELSE Front(at))
               ELSE Append(at, c)

Realpath(cwd, p) ==
    FoldLeft(Walk, <<>>, IF p # <<>> /\ p[1] = "/" THEN Components(p) ELSE cwd \o Components(p))

\* Where a path leads from a directory, one component after another.
RECURSIVE Leads(_, _)
Leads(at, comps) == IF comps = <<>> THEN at ELSE Leads(Walk(at, Head(comps)), Tail(comps))

-----------------------------------------------------------------------------
(* getopt.  g = [optind, next, ret, optarg]; next = 0 between arguments.   *)

OptStart == [optind |-> 1, next |-> 0, ret |-> "", optarg |-> <<>>]

Getopt(argv, g) ==
    LET arg == argv[g.optind]
        k == IF g.next = 0 THEN 2 ELSE g.next
        c == arg[k]
        last == k = Len(arg)
        kind == IF c \in DOMAIN PxOpts THEN PxOpts[c] ELSE "unknown"
        done(ret, n, optarg) == [optind |-> g.optind + n, next |-> 0, ret |-> ret, optarg |-> optarg]
        on(ret) == [optind |-> g.optind, next |-> k + 1, ret |-> ret, optarg |-> <<>>] IN
    IF g.optind > Len(argv) \/ (g.next = 0 /\ (arg = <<>> \/ arg[1] # "-" \/ Len(arg) = 1))
    THEN [g EXCEPT !.ret = "end", !.optarg = <<>>]
    ELSE IF g.next = 0 /\ arg = <<"-", "-">>
    THEN [g EXCEPT !.ret = "end", !.optarg = <<>>, !.optind = @ + 1]
    ELSE IF kind = "unknown" THEN (IF last THEN done("?", 1, <<>>) ELSE on("?"))
    ELSE IF kind = "none" THEN (IF last THEN done(c, 1, <<>>) ELSE on(c))
    ELSE IF ~last THEN done(c, 1, From(arg, k + 1))
    ELSE IF kind = "optional" THEN done(c, 1, <<>>)
    ELSE IF g.optind < Len(argv) THEN done(c, 2, argv[g.optind + 1])
    ELSE done("?", 1, <<>>)

RECURSIVE GetoptAll(_, _)
GetoptAll(argv, g) ==
    LET h == Getopt(argv, g) IN
    IF h.ret = "end" THEN <<[end |-> h.optind]>>
    ELSE <<[opt |-> h.ret, arg |-> h.optarg]>> \o GetoptAll(argv, h)

\* What the vector says: the options of argument i, from its k-th character on.
RECURSIVE Says(_, _, _)
Says(argv, i, k) ==
    LET arg == argv[i] c == arg[k]
        kind == IF c \in DOMAIN PxOpts THEN PxOpts[c] ELSE "unknown" IN
    IF i > Len(argv) \/ Len(arg) < 2 \/ arg[1] # "-" THEN <<[end |-> i]>>
    ELSE IF arg = <<"-", "-">> THEN <<[end |-> i + 1]>>
    ELSE IF k > Len(arg) THEN Says(argv, i + 1, 2)
    ELSE IF kind \in {"none", "unknown"}
    THEN <<[opt |-> IF kind = "none" THEN c ELSE "?", arg |-> <<>>]>> \o Says(argv, i, k + 1)
    ELSE IF k < Len(arg) \/ kind = "optional"
    THEN <<[opt |-> c, arg |-> From(arg, k + 1)]>> \o Says(argv, i + 1, 2)
    ELSE IF i = Len(argv) THEN <<[opt |-> "?", arg |-> <<>>]>> \o Says(argv, i + 1, 2)
    ELSE <<[opt |-> c, arg |-> argv[i + 1]]>> \o Says(argv, i + 2, 2)

-----------------------------------------------------------------------------
(* Messages in pieces, the search of PATH, and sleeping.                   *)

\* sendmsg gathers the pieces into one buffer of PxBuffer bytes.
TooLong == [fits |-> FALSE, bytes |-> <<>>]
Gather(iov) ==
    FoldLeft(LAMBDA got, piece : IF ~got.fits \/ Len(piece) > PxBuffer - Len(got.bytes) THEN TooLong
                                 ELSE [got EXCEPT !.bytes = @ \o piece],
             [fits |-> TRUE, bytes |-> <<>>], iov)

\* recvmsg hands a message of n bytes out again: s = [copied, pieces].
ScatterStep(s, len, n) ==
    LET take == IF len > n - s.copied THEN n - s.copied ELSE len IN
    [copied |-> s.copied + take, pieces |-> Append(s.pieces, [k \in 1 .. take |-> s.copied + k])]

Scatter(lens, n) == FoldLeft(LAMBDA s, len : ScatterStep(s, len, n), [copied |-> 0, pieces |-> <<>>], lens)

\* execvp: each directory's execve runs, finds nothing, or fails otherwise.
RECURSIVE Execvp(_, _)
Execvp(tries, i) ==
    IF tries[i] # "ENOENT" \/ i = Len(tries) THEN <<i, tries[i]>> ELSE Execvp(tries, i + 1)

\* usleep in ticks of PxTick microseconds; seconds are converted in PxWord.
Usleep(usec) == usec \div PxTick + (IF usec % PxTick # 0 THEN 1 ELSE 0)
Nanosleep(sec, usec) == Usleep((((sec * PxSecond) % PxWord) + usec) % PxWord)

-----------------------------------------------------------------------------
(* The questions.                                                          *)

PxFlags == {{}, {"pathname"}, {"pathname", "period"}, {"period"}, {"pathname", "leading"}}

Unasked == [is |-> "", says |-> "", means |-> ""]

AskMatch ==
    /\ pxJob = "match" /\ asked = Unasked
    /\ \E p \in Strs(PxTokens, PxLen), s \in Strs(PxChars, PxLen), flags \in PxFlags :
          asked' = [is |-> "fnmatch", says |-> Fnmatch(p, s, flags), means |-> Stands(p, s, flags)]

AskRegex ==
    /\ pxJob = "match" /\ asked = Unasked
    /\ \E p \in Strs({"a", "/", "."}, PxLen - 1), s \in Strs(PxChars, PxLen),
          star \in BOOLEAN, bol \in BOOLEAN, eol \in BOOLEAN :
          LET body == IF star /\ p # <<>> THEN Append(p, "*") ELSE p
              pat == (IF bol THEN <<"^">> ELSE <<>>) \o body \o (IF eol THEN <<"$">> ELSE <<>>)
              lang == Language(body, Len(s)) IN
          asked' = [is |-> "regexec", says |-> Regexec(pat, s),
                    means |-> \E i \in 1 .. Len(s) + 1, j \in 0 .. Len(s) :
                                 /\ j >= i - 1 /\ SubSeq(s, i, j) \in lang
                                 /\ (bol => i = 1) /\ (eol => j = Len(s))]

\* The directory and the last name of a path lead where the path leads.
AskPath ==
    /\ pxJob = "path" /\ asked = Unasked
    /\ \E p \in Strs({"a", "/", "."}, PxLen + 2), cwd \in {<<>>, <<<<"b">>>>} :
          LET root == p # <<>> /\ p[1] = "/"
              split == Dirname(p) \o <<"/">> \o (IF Basename(p) = <<"/">> THEN <<>> ELSE Basename(p)) IN
          asked' = [is |-> "path", says |-> <<Realpath(cwd, split), "/" \in ToSet(Tail(Basename(p)))>>,
                    means |-> <<Leads(IF root THEN <<>> ELSE cwd, Components(p)), FALSE>>]

AskOptions ==
    /\ pxJob = "opts" /\ asked = Unasked
    /\ \E argv \in PxArgvs :
          asked' = [is |-> "getopt", says |-> GetoptAll(argv, OptStart), means |-> Says(argv, 1, 2)]

AskMessage ==
    /\ pxJob = "io" /\ asked = Unasked
    /\ \E lens \in Strs(0 .. 2, 3), n \in 0 .. 6 :
          LET total == FoldLeft(LAMBDA a, b : a + b, 0, lens)
              sent == Gather([i \in DOMAIN lens |-> [k \in 1 .. lens[i] |-> <<i, k>>]])
              got == Scatter(lens, n) IN
          /\ n <= total
          /\ asked' = [is |-> "msg",
                       says |-> <<FlattenSeq(got.pieces), \E i \in DOMAIN lens : Len(got.pieces[i]) > lens[i],
                                  Len(sent.bytes)>>,
                       means |-> <<[k \in 1 .. n |-> k], FALSE, IF total > PxBuffer THEN 0 ELSE total>>]

\* The least number of ticks that is long enough, while the time fits a word.
AskSleep ==
    /\ pxJob = "io" /\ asked = Unasked
    /\ \E sec \in 0 .. PxWord \div PxSecond, usec \in 0 .. PxSecond - 1 :
          /\ sec * PxSecond + usec < PxWord
          /\ asked' = [is |-> "sleep", says |-> Nanosleep(sec, usec),
                       means |-> Min({t \in 0 .. PxWord : t * PxTick >= sec * PxSecond + usec})]

AskExecvp ==
    /\ pxJob = "io" /\ asked = Unasked
    /\ \E tries \in Strs({"ENOENT", "EACCES", "runs"}, 3) :
          /\ tries # <<>>
          /\ asked' = [is |-> "execvp", says |-> Execvp(tries, 1),
                       means |-> LET hits == {i \in DOMAIN tries : tries[i] # "ENOENT"}
                                     at == IF hits = {} THEN Len(tries) ELSE Min(hits) IN <<at, tries[at]>>]

Ask == (AskMessage \/ AskSleep \/ AskExecvp \/ AskMatch \/ AskRegex \/ AskPath \/ AskOptions) /\ UNCHANGED <<environ, wanted, pipe, dns, pxJob, pxLeft>>

-----------------------------------------------------------------------------
(* The environment: a vector the kernel laid out, or one putenv malloced.  *)

PxCall(job) == pxJob = job /\ pxLeft > 0 /\ pxLeft' = pxLeft - 1 /\ UNCHANGED pxJob

Find(v) == {i \in DOMAIN environ.vec : environ.vec[i][1] = v}

Putenv(v, val) ==
    environ' = IF Find(v) # {} THEN [environ EXCEPT !.vec[Min(Find(v))] = <<v, val>>]
               ELSE [vec |-> Append(environ.vec, <<v, val>>), owned |-> TRUE]

Setenv(v, val, overwrite) ==
    /\ PxCall("env")
    /\ IF Find(v) # {} /\ ~overwrite THEN UNCHANGED <<environ, wanted>>
       ELSE /\ Putenv(v, val)
            /\ wanted' = [u \in DOMAIN wanted \cup {v} |-> IF u = v THEN val ELSE wanted[u]]
    /\ UNCHANGED <<asked, pipe, dns>>

Unsetenv(v) ==
    /\ PxCall("env")
    /\ environ' = [environ EXCEPT !.vec = SelectSeq(@, LAMBDA e : e[1] # v)]
    /\ wanted' = [u \in DOMAIN wanted \ {v} |-> wanted[u]]
    /\ UNCHANGED <<asked, pipe, dns>>

Clearenv ==
    /\ PxCall("env")
    /\ environ' = [vec |-> <<>>, owned |-> FALSE]
    /\ wanted' = [u \in {} |-> 0]
    /\ UNCHANGED <<asked, pipe, dns>>

-----------------------------------------------------------------------------
(* sendfile: a buffer is read, and written in as many writes as it takes;  *)
(* a write may be short, write nothing or fail.                            *)

PxIdle == [count |-> 0, start |-> 0, pos |-> 0, total |-> 0, buf |-> <<>>, off |-> 0,
         out |-> <<>>, ret |-> "none", offset |-> 0]

Sendfile(start, count) ==
    /\ PxCall("copy") /\ pipe.ret = "none" /\ pipe.count = 0
    /\ pipe' = [PxIdle EXCEPT !.count = count, !.start = start, !.pos = start, !.ret = "on"]
    /\ UNCHANGED <<asked, environ, wanted, dns>>

Return(p) == [p EXCEPT !.ret = "done", !.offset = p.start + p.total]

SendfileRead ==
    /\ pipe.ret = "on" /\ pipe.off = Len(pipe.buf)
    /\ LET want == IF pipe.count - pipe.total > PxBlock THEN PxBlock ELSE pipe.count - pipe.total IN
       IF want = 0 \/ pipe.pos >= PxFile THEN pipe' = Return(pipe)
       ELSE \E n \in 1 .. (IF want < PxFile - pipe.pos THEN want ELSE PxFile - pipe.pos) :
               pipe' = [pipe EXCEPT !.buf = [k \in 1 .. n |-> pipe.pos + k], !.off = 0, !.pos = @ + n]
    /\ UNCHANGED <<asked, environ, wanted, dns, pxJob, pxLeft>>

SendfileWrite ==
    /\ pipe.ret = "on" /\ pipe.off < Len(pipe.buf)
    /\ \E n \in 0 .. Len(pipe.buf) - pipe.off :
          IF n = 0 THEN pipe' = Return(pipe)
          ELSE pipe' = [pipe EXCEPT !.out = @ \o SubSeq(pipe.buf, pipe.off + 1, pipe.off + n),
                                    !.off = @ + n, !.total = @ + n]
    /\ UNCHANGED <<asked, environ, wanted, dns, pxJob, pxLeft>>

-----------------------------------------------------------------------------
(* The resolver: localhost and /etc/hosts first, then one query with an id *)
(* and a wait; the socket is closed whatever came, so an answer that comes *)
(* later reaches nobody.  A reply is the one to a query, or a stray one.   *)

Ask53(host) ==
    /\ PxCall("dns") /\ dns.fd = 0
    /\ dns' = IF host = "localhost" THEN [dns EXCEPT !.host = host, !.got = host]
              ELSE [dns EXCEPT !.fd = dns.serial, !.serial = @ + 1, !.host = host, !.got = "",
                               !.id = dns.next, !.next = (@ + 1) % PxIds,
                               !.wire = @ \cup {[fd |-> dns.serial, id |-> dns.next, host |-> host]}]
    /\ UNCHANGED <<asked, environ, wanted, pipe>>


TakeReply(r) == [dns EXCEPT !.fd = 0, !.wire = @ \ {r}, !.got = IF r.id = dns.id THEN r.host ELSE ""]

\* The port number of a closed socket may be given to the next one.
Reply(r) ==
    /\ r \in dns.wire
    /\ dns' = IF dns.fd # 0 /\ (r.fd = dns.fd \/ r.fd + 1 = dns.fd) THEN TakeReply(r)
              ELSE [dns EXCEPT !.wire = @ \ {r}]
    /\ UNCHANGED <<asked, environ, wanted, pipe, pxJob, pxLeft>>

Timeout53 ==
    /\ dns.fd # 0 /\ dns' = [dns EXCEPT !.fd = 0]
    /\ UNCHANGED <<asked, environ, wanted, pipe, pxJob, pxLeft>>

PxInit ==
    /\ asked = Unasked
    /\ environ = [vec |-> <<<<CHOOSE v \in PxVars : TRUE, CHOOSE x \in PxValues : TRUE>>>>, owned |-> FALSE]
    /\ wanted = [u \in {CHOOSE v \in PxVars : TRUE} |-> CHOOSE x \in PxValues : TRUE]
    /\ pipe = PxIdle
    /\ dns = [next |-> 0, id |-> 0, fd |-> 0, serial |-> 1, host |-> "", got |-> "", wire |-> {}]
    /\ pxJob \in PxJobs
    /\ pxLeft = PxCalls

PxNext ==
    \/ Ask
    \/ \E v \in PxVars, val \in PxValues, overwrite \in BOOLEAN : Setenv(v, val, overwrite)
    \/ \E v \in PxVars : Unsetenv(v)
    \/ Clearenv
    \/ \E start \in 0 .. PxFile, count \in 1 .. PxFile + 1 : Sendfile(start, count)
    \/ SendfileRead \/ SendfileWrite
    \/ \E host \in PxHosts : Ask53(host)
    \/ \E r \in dns.wire : Reply(r)
    \/ Timeout53

PxSpec == PxInit /\ [][PxNext]_pxVars

-----------------------------------------------------------------------------
(* The library's algorithms compute what they are for: fnmatch and regexec *)
(* match exactly the strings the pattern stands for, with the slash and    *)
(* period rules; dirname, basename and realpath lead where the path leads; *)
(* getopt reports the options the vector says (fnmatch_inner,              *)
(* regex_match_here, realpath, getopt).                                    *)
PosixRight == asked.says = asked.means

(* The environment holds one entry for each variable that is set, with its *)
(* last value, through any setenv, unsetenv and clearenv.                  *)
EnvironAsSet ==
    /\ Len(environ.vec) = Cardinality(DOMAIN wanted)
    /\ \A v \in DOMAIN wanted : \E i \in DOMAIN environ.vec : environ.vec[i] = <<v, wanted[v]>>

(* sendfile writes the file's bytes in order, none twice and none left     *)
(* out, and its count and the offset it hands back say how many, however   *)
(* short the reads and the writes are.                                     *)
SendfileExact ==
    /\ pipe.out = [k \in 1 .. pipe.total |-> pipe.start + k]
    /\ pipe.ret = "done" => pipe.offset = pipe.start + Len(pipe.out) /\ Len(pipe.out) <= pipe.count

(* A name resolves to the answer to its own query, never to a late answer  *)
(* to an earlier one (resolve_dns_ipv4 compares ids).                      *)
ResolvedOwn == dns.got # "" => dns.got = dns.host
=============================================================================
