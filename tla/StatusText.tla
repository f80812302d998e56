----------------------------- MODULE StatusText -----------------------------
(***************************************************************************)
(* What the logger's status page (status.js) makes of the numbers in a     *)
(* status report.  A text is kept as the numbers in it.                    *)
(***************************************************************************)
EXTENDS Integers, Sequences, SequencesExt

\* In milliseconds.
one_minute == 60 * 1000
one_hour == 60 * one_minute
one_day == 24 * one_hour

\* translateTime(): the number before each unit that appears in the text; that
\* of "s" counts milliseconds.  A unit appears if it or a larger one is
\* positive.  The remainder is a binary fraction that is cut off at the third
\* decimal, so that the last digit may come out one too small.
translateTime(elapsed) ==
    LET days == elapsed \div one_day
        afterDays == elapsed % one_day
        hours == afterDays \div one_hour
        afterHours == afterDays % one_hour
        mins == afterHours \div one_minute
        rest == afterHours % one_minute
        units == {"s"} \cup (IF days > 0 THEN {"day"} ELSE {})
                       \cup (IF days > 0 \/ hours > 0 THEN {"hr"} ELSE {})
                       \cup (IF days > 0 \/ hours > 0 \/ mins > 0 THEN {"min"} ELSE {})
        text(s) == [u \in units |->
            IF u = "day" THEN days ELSE IF u = "hr" THEN hours ELSE IF u = "min" THEN mins ELSE s]
    IN {text(rest)} \cup (IF rest > 0 THEN {text(rest - 1)} ELSE {})

\* The time that a reader of the text works out.
Written(t, u, unit) == IF u \in DOMAIN t THEN t[u] * unit ELSE 0
ReadBack(t) == Written(t, "day", one_day) + Written(t, "hr", one_hour)
               + Written(t, "min", one_minute) + Written(t, "s", 1)

\* roundSize() of count units of that many bytes, in hundredths.
roundSize(count, bytes) ==
    100 * (count \div bytes) + (100 * (count % bytes) + bytes \div 2) \div bytes

kB == 1024
MB == 1024 * kB
GB == 1024 * MB

\* translateSize(): the unit, and how many hundredths of it.
translateSize(count) ==
    IF count > GB THEN [unit |-> GB, hundredths |-> roundSize(count, GB)]
    ELSE IF count > MB THEN [unit |-> MB, hundredths |-> roundSize(count, MB)]
    ELSE IF count > kB THEN [unit |-> kB, hundredths |-> roundSize(count, kB)]
    ELSE [unit |-> 1, hundredths |-> 100 * count]

\* The sizes of all files on the logger, the log still being written included.
totalFileSize(files) == FoldSeq(LAMBDA file, total : file.len + total, 0, files)

\* The rows of the table of files: those whose report is complete.  The log
\* being written has no MD5 yet and so no row.
detailRows(files) ==
    FoldLeft(LAMBDA rows, file : IF file.md5 THEN Append(rows, file) ELSE rows, <<>>, files)
=============================================================================
