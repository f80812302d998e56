----------------------------- MODULE ConfigForm -----------------------------
(***************************************************************************)
(* The configuration form of the logger's web site (configure.htm and      *)
(* configuration.js): how a configuration fills it and what it sends.      *)
(*                                                                         *)
(* A number is its value, however it is written.  A configuration fits the *)
(* 1024 bytes that the firmware has for one (Configuration.cpp).           *)
(***************************************************************************)
EXTENDS Naturals, Sequences, FiniteSets

CONSTANTS
    Fields,         \* the fields considered, by the id of their element
    Unquotable,     \* texts that JSON.parse() refuses within quotes
    Escaped,        \* what those with escapes read as there: \n is a line break
    Closing,        \* those that end the quotes around them and open others
    Others,         \* what a configuration with one of these may come to
    Stripped        \* texts with line breaks, as an element of one line holds them

\* The parts of a configuration in the order in which parseConfigJSON() reads
\* them, each with its fields.  All but "top" are objects of their own.
Sections == <<
    [name |-> "enable", fields |-> {"nmea0183", "nmea2000", "imu", "epower", "memcontroller",
                                    "nmeabridge", "webserveronboot", "autoupload"}],
    [name |-> "top", fields |-> {"unique-id", "ship-name", "bridge-port"}],
    [name |-> "wifi", fields |-> {"wifimode"}],
    [name |-> "station", fields |-> {"retry-delay", "retry-count", "join-timeout", "mdns-name"}],
    [name |-> "ssids", fields |-> {"ap-ssid", "station-ssid"}],
    [name |-> "passwords", fields |-> {"ap-password", "station-password"}],
    [name |-> "baudrate", fields |-> {"port1-baud", "port2-baud"}],
    [name |-> "upload", fields |-> {"upload-server", "upload-port", "upload-timeout",
                                    "upload-interval", "upload-duration"}] >>

SectionNames == {Sections[i].name : i \in DOMAIN Sections}
Boxes == Sections[1].fields
Numbers == {"bridge-port", "retry-delay", "retry-count", "join-timeout", "port1-baud", "port2-baud",
            "upload-port", "upload-timeout", "upload-interval", "upload-duration"}
AllFields == UNION {Sections[i].fields : i \in DOMAIN Sections}

ASSUME FieldsAssumption == Fields \subseteq AllFields

\* The form before anything fills it, as in configure.htm.
Blank == [f \in Fields |->
    IF f \in Boxes THEN "off" ELSE IF f = "wifimode" THEN "AP" ELSE ""]

\* What an element holds once it is given the value of a missing entry: a box
\* is unchecked, a number or a selection is left empty, and a text says so.
Undefined(f) ==
    IF f \in Boxes THEN "off" ELSE IF f \in Numbers \cup {"wifimode"} THEN "" ELSE "undefined"

\* The fields that parseConfigJSON() gets to: those of the sections before the
\* first that is missing, where it dies of an exception.  The box for
\* automatic uploads has its value set, but not its check mark.
Reached(config) ==
    {f \in Fields \ {"autoupload"} : \E i \in DOMAIN Sections :
        /\ f \in Sections[i].fields
        /\ \A j \in 1..i : Sections[j].name \in config.sections}

Held(text) == IF text \in DOMAIN Stripped THEN Stripped[text] ELSE text

\* parseConfigJSON(): a configuration is the set of its sections and the values
\* of the entries that it has.
parseConfigJSON(config, form) ==
    [f \in Fields |->
        IF f \notin Reached(config) THEN form[f]
        ELSE IF f \in DOMAIN config.values THEN Held(config.values[f])
        ELSE Undefined(f)]

\* Mutant of Parses: an empty number goes through.
ParsesQuoted(form) == \A f \in Fields : form[f] \notin Unquotable

\* createJSONConfig() puts the texts of the form between the quotes of a template
\* as they are and has the result parsed.  That fails without a number, or with a
\* text that JSON does not allow there; of others it makes something else.
Parses(form) ==
    /\ \A f \in Fields \cap Numbers : form[f] # ""
    /\ \A f \in Fields : form[f] \notin Unquotable

ReadAs(text) == IF text \in DOMAIN Escaped THEN Escaped[text] ELSE text

createJSONConfig(form) ==
    IF \E f \in Fields : form[f] \in Closing THEN Others
    ELSE {[sections |-> SectionNames, values |-> [f \in Fields |-> ReadAs(form[f])]]}

\* Fields to which the page itself gives another value than the user or the
\* logger did, as it fills the form and as it sends it.
Misheld(config) ==
    {f \in Reached(config) \cap DOMAIN config.values : Held(config.values[f]) # config.values[f]}
Misread(form) ==
    {f \in Fields : ReadAs(form[f]) # form[f] \/ \E g \in Fields : form[g] \in Closing}

\* ExtractConfig() of the firmware, whose text is proper JSON: every entry.
ExtractConfig(config) == [sections |-> SectionNames, values |-> config]

\* SetConfig() of the firmware: every entry that the text has is stored, as its
\* version is the one expected.
SetConfig(config, stored) ==
    [f \in Fields |-> IF f \in DOMAIN config.values THEN config.values[f] ELSE stored[f]]
=============================================================================
