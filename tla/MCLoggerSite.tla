---------------------------- MODULE MCLoggerSite ----------------------------
(* Every page of the site, each with a few things to enter.                  *)
EXTENDS LoggerSite

MCPages == {"filtering", "algorithms", "metadata", "auth", "commands", "reboot", "configure",
            "index", "status"}
MCUpper == [w \in {"gga", "GGA", "all", "ALL", "xx", "XX", ""} |->
    IF w \in {"gga", "GGA"} THEN "GGA"
    ELSE IF w \in {"all", "ALL"} THEN "ALL"
    ELSE IF w \in {"xx", "XX"} THEN "XX"
    ELSE ""]
MCThreeLetters == {"gga", "GGA", "all", "ALL"}
MCFilterTexts == {<<"all">>, <<"gga", "xx">>, <<"">>}

Algorithm(n, p) == [name |-> n, parameters |-> p]
MCAlgorithms == {Algorithm(<<"dedup">>, <<>>), Algorithm(<<"nonesuch">>, <<"N/A">>),
                 Algorithm(<<"a", "b">>, <<"c">>)}
MCCommands == {<<"accept">>, <<"accept", "gga">>, <<"accept", "all">>, <<"metadata", "text">>,
               <<"restart">>}

\* Texts of a form that JSON takes in its own way: one with an escape in it, what
\* that reads as, and one that sets another entry.
MCTexts == {"a quote", "id\\n1", "a quote, a comma and an entry"}
MCEscaped == "id\\n1" :> "id, a line break, 1"
MCStripped == "id, a line break, 1" :> "id1"
MCOthers == {[sections |-> SectionNames, values |-> ("unique-id" :> "a" @@ "nmea0183" :> "off")]}

MCFields == {"nmea0183", "autoupload", "unique-id", "port1-baud"}
MCEdits == [f \in MCFields |->
    IF f = "nmea0183" THEN {"off"} ELSE IF f = "autoupload" THEN {} ELSE IF f = "unique-id" THEN MCTexts ELSE {"9600"}]
MCFirstConfig == [f \in MCFields |->
    IF f \in Boxes THEN "on"
    ELSE IF f = "unique-id" THEN "id\\n1"
    ELSE "4800"]

\* A configuration written by hand, without its last section and with an entry
\* missing, and the snapshot of the defaults of a logger that has none.
MCSavedConfigs == {
    [sections |-> SectionNames \ {"baudrate", "upload"}, values |-> ("nmea0183" :> "off" @@ "autoupload" :> "off")],
    [sections |-> {"top"}, values |-> <<>>]}

File(len, md5) == [len |-> len, md5 |-> md5]
MCFirstReport == [elapsed |-> 60000, files |-> <<File(1024, FALSE)>>]
MCReports == {
    MCFirstReport,
    [elapsed |-> 86399999, files |-> <<File(10485760, TRUE), File(700, FALSE)>>],
    [elapsed |-> 90000001, files |-> <<File(1025, TRUE), File(0, TRUE), File(5500000, FALSE)>>],
    [elapsed |-> 2147483647, files |-> <<File(10485760, TRUE), File(9999999, TRUE)>>],
    [elapsed |-> -2147483647, files |-> <<File(1, FALSE)>>]}
=============================================================================
