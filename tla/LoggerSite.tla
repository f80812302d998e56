----------------------------- MODULE LoggerSite -----------------------------
(***************************************************************************)
(* The logger's own web site (LoggerFirmware/website): its pages, the      *)
(* commands they send (sendCommand() of common.js) and the handlers of     *)
(* SerialCommand that execute them.                                        *)
(*                                                                         *)
(* One page is open; its requests and those of the same page opened before *)
(* are all there are.  The logger's server takes one connection at a time, *)
(* in order, and answers it before it takes the next; a page goes on while *)
(* it waits.  The logger may restart and a connection may fail.            *)
(***************************************************************************)
EXTENDS ConfigForm, StatusText

CONSTANTS
    Pages,          \* the pages that may be the open one
    Upper,          \* Upper[w]: the word w in capitals
    ThreeLetters,   \* the words of three letters
    NoneLike,       \* the words that start with "none"
    FilterTexts,    \* what may be typed as a filter, as a sequence of words
    Algorithms,     \* what may be typed as an algorithm: name and parameters
    Documents,      \* files chosen as metadata
    NotJSON,        \* those of them that JSON.parse() refuses
    Unrenderable,   \* those that ArduinoJson never takes: not JSON to it, nested too
                    \* deep, or too large for the memory that there is
    Tokens, Certs,  \* upload tokens and certificates
    Commands,       \* what may be typed on the command page
    Edits,          \* Edits[f]: what the user may enter in field f of the form
    SavedConfigs,   \* configurations that the user may load from disc
    FirstConfig,    \* the logger's configuration at first
    Reports,        \* what may be going on on the logger: time and files
    FirstReport,    \* what is going on at first
    NoReply,        \* nothing shown yet
    MaxKept,        \* bound on what the logger's lists hold when the user acts
    MaxPending      \* bound on requests, answers, timers and files under way then

ASSUME SiteAssumption ==
    /\ "all" \in DOMAIN Upper /\ \A w \in DOMAIN Upper : Upper[w] # "all"
    /\ FilterTexts \subseteq Seq(DOMAIN Upper)
    /\ NotJSON \cup Unrenderable \subseteq Documents /\ "{}" \notin Unrenderable
    /\ DOMAIN FirstConfig = Fields
    /\ MaxKept \in Nat
    /\ MaxPending \in Nat

\* What a report counts.
ASSUME ReportsAssumption ==
    /\ FirstReport \in Reports
    /\ \A r \in Reports : r.elapsed \in Int /\ r.files \in Seq([len : Nat, md5 : BOOLEAN])

\* No token or certificate reads like what the page says of a missing one.
ASSUME CredentialsAssumption ==
    {"No upload authorisation", "Not set", "undefined"} \cap (Tokens \cup Certs) = {}

\* The commands typed by hand that are considered: "auth" sets nothing but a
\* token or a certificate, as in the code, and "setup" only reports.
ASSUME CommandsAssumption ==
    /\ Commands \subseteq Seq(STRING) \ {<<>>}
    /\ \A c \in Commands : Tail(c) # <<>> =>
        /\ c[1] = "auth" => Tail(c)[1] \in {"token", "cert"}
        /\ c[1] # "setup"

VARIABLES
    page,           \* the page that is open
    timers,         \* delays of after() that are running: the commands they send
    readers,        \* files that the page is reading
    input,          \* the text in the command page's input
    form,           \* the configuration form
    shown,          \* what the page shows of the logger
    requests,       \* commands sent and not executed, oldest first
    replies,        \* answers that the page has not handled, oldest first
    logger,         \* what the logger keeps
    fresh,          \* history: what the page's last executed command reported
                    \* still holds and its answer is not lost
    basis,          \* history: the form is "blank", or filled from the "logger", or
                    \* was "sent" while it was blank
    touched         \* history: fields given a value by the user, or another than the
                    \* logger's by the page itself

pageVars == <<page, timers, readers, input, form, shown, basis, touched>>
vars == <<pageVars, requests, replies, logger, fresh>>

\* A command, and which of the page's functions sends it.
Command(by, name, args) == [by |-> by, name |-> name, args |-> args, gone |-> FALSE]

\* The command that a page sends 500 ms after it is opened.
Report == [filtering |-> "accept", algorithms |-> "algorithm", metadata |-> "metadata",
           auth |-> "auth", configure |-> "setup", index |-> "status", status |-> "status"]
Bootstrap(p) == IF p \in DOMAIN Report THEN <<Command("bootstrap", Report[p], <<>>)>> ELSE <<>>

Init ==
    /\ page \in Pages
    /\ timers = Bootstrap(page)
    /\ readers = {}
    /\ input = <<>>
    /\ form = Blank
    /\ shown = NoReply
    /\ requests = <<>>
    /\ replies = <<>>
    /\ logger \in [filter : {<<>>}, algorithms : {<<>>}, metadata : {"{}"}, token : {""},
                   cert : {""}, config : {FirstConfig}, defaults : {FALSE}, report : {FirstReport},
                   hung : {FALSE}]
    /\ fresh = FALSE
    /\ basis = "blank"
    /\ touched = {}
-----------------------------------------------------------------------------
(* The logger.                                                             *)

Executes(name) == requests # <<>> /\ ~logger.hung /\ Head(requests).name = name

\* The command is done, the logger keeps l, and the answer goes to the page, if
\* that is still open.
Answer(l, data) ==
    LET r == Head(requests) IN
    /\ logger' = l
    /\ requests' = Tail(requests)
    /\ replies' = IF r.gone THEN replies ELSE Append(replies, [by |-> r.by, data |-> data])
    /\ fresh' = IF r.by = "redirect" THEN fresh ELSE ~r.gone
    /\ UNCHANGED pageVars

\* Mutant of AddIDs: words of any length are added.
AddIDsAny(filter, words) == filter \o words

\* AddIDs(): the words of three letters are put behind the filter, in order.
AddIDs(filter, words) ==
    FoldLeft(LAMBDA ids, w : IF w \in ThreeLetters THEN Append(ids, w) ELSE ids, filter, words)

\* "accept": report the filter; "accept all": clear it; otherwise add to it.
AddNMEAFilter ==
    /\ Executes("accept")
    /\ LET words == Head(requests).args
           ids == IF words = <<"all">> THEN <<>> ELSE AddIDs(logger.filter, words)
       IN Answer([logger EXCEPT !.filter = ids], ids)

\* "algorithm": report the list; if the text starts with "none", clear it;
\* otherwise the first word is a name and the rest its parameters.
ConfigureAlgRequest ==
    /\ Executes("algorithm")
    /\ LET words == Head(requests).args
           list == IF words = <<>> THEN logger.algorithms
                   ELSE IF Head(words) \in NoneLike THEN <<>>
                   ELSE Append(logger.algorithms, [name |-> Head(words), parameters |-> Tail(words)])
       IN Answer([logger EXCEPT !.algorithms = list], list)

\* "metadata": store the text, if there is one, and report what is stored, if
\* GenerateJSON() ever ends.
StoreMetadataElement ==
    /\ Executes("metadata")
    /\ LET text == IF Head(requests).args = <<>> THEN logger.metadata ELSE Head(Head(requests).args)
           l == [logger EXCEPT !.metadata = text]
       IN \/ text \notin Unrenderable /\ Answer(l, text)
          \/ /\ text \in Unrenderable
             /\ logger' = [l EXCEPT !.hung = TRUE]
             /\ fresh' = FALSE
             /\ UNCHANGED <<pageVars, requests, replies>>

\* "auth": store the token or the certificate, if one is given, and report both,
\* or say that there is neither.
SetAuthorisation ==
    /\ Executes("auth")
    /\ LET args == Head(requests).args
           l == IF args = <<>> THEN logger ELSE [logger EXCEPT ![args[1]] = args[2]]
       IN Answer(l, IF l.token = "" /\ l.cert = ""
                    THEN <<"No upload authorisation">>
                    ELSE <<l.token, l.cert>>)

\* "setup": report the configuration, or take one over; the answer to that is the
\* whole configuration again, which the page ignores.
ReportConfigurationJSON ==
    /\ Executes("setup")
    /\ Head(requests).args = <<>>
    /\ Answer(logger, ExtractConfig(logger.config))

SetupLogger ==
    /\ Executes("setup")
    /\ Head(requests).args # <<>>
    /\ Answer([logger EXCEPT !.config = SetConfig(Head(requests).args[1], @)], <<>>)

\* "lab defaults": keep the text of a configuration, of which the model keeps
\* that there is one, and echo it, which the page ignores.
SetLabDefaults ==
    /\ Executes("lab defaults")
    /\ Answer([logger EXCEPT !.defaults = TRUE], <<>>)

\* "snapshot": write a copy of something to the card, if that works, and say
\* where.  The archive is made as it is fetched.
SnapshotResource ==
    /\ Executes("snapshot")
    /\ \E written \in {TRUE, Head(requests).args[1] = "archive"} :
        Answer(logger, IF written THEN Head(requests).args[1] ELSE "")

CurrentStatus ==
    /\ Executes("status")
    /\ Answer(logger, logger.report)

\* "restart", or the power goes: commands not executed are lost.  What the logger
\* keeps is in flash memory, where a command's change is made at its end.
Restart ==
    /\ logger' = [logger EXCEPT !.hung = FALSE]
    /\ requests' = <<>>
    /\ UNCHANGED <<pageVars, replies, fresh>>

ExecutesRestart == Executes("restart") /\ Restart
PowerLoss == (requests # <<>> \/ logger.hung) /\ Restart

\* A connection is lost before its command is executed, or after.
RequestLost(i) ==
    /\ requests' = RemoveAt(requests, i)
    /\ UNCHANGED <<pageVars, replies, logger, fresh>>

ReplyLost(i) ==
    /\ replies' = RemoveAt(replies, i)
    /\ fresh' = /\ fresh
                /\ \/ replies[i].by = "redirect"
                   \/ \E j \in (i + 1)..Len(replies) : replies[j].by # "redirect"
    /\ UNCHANGED <<pageVars, requests, logger>>

\* Time passes on the logger, and files are recorded or removed, which only two
\* pages show.
Records ==
    /\ page \in {"index", "status"}
    /\ \E r \in Reports : logger' = [logger EXCEPT !.report = r]
    /\ fresh' = FALSE
    /\ UNCHANGED <<pageVars, requests, replies>>

Serves ==
    \/ AddNMEAFilter \/ ConfigureAlgRequest \/ StoreMetadataElement \/ SetAuthorisation
    \/ ReportConfigurationJSON \/ SetupLogger \/ SetLabDefaults \/ SnapshotResource
    \/ CurrentStatus \/ ExecutesRestart
-----------------------------------------------------------------------------
(* The page handles answers: one action per .then() function.              *)

Handles ==
    /\ replies # <<>>
    /\ replies' = Tail(replies)
    /\ UNCHANGED <<page, timers, readers, requests, logger, fresh>>

\* filtering.js: the identifiers in the list, or "All".
populateFilterTable ==
    /\ page = "filtering" /\ Handles
    /\ LET ids == Head(replies).data IN shown' = IF ids = <<>> THEN <<"All">> ELSE ids
    /\ UNCHANGED <<input, form, basis, touched>>

\* algorithms.js: a header and a row for each algorithm, or for their absence.
AlgHeader == [name |-> "Name", parameters |-> <<"Parameters">>]
NoAlgorithms == [name |-> "No algorithms stored in logger", parameters |-> <<>>]
AlgTableRow(a) == [a EXCEPT !.parameters = IF @ = <<>> THEN <<"N/A">> ELSE @]

\* Mutant of populateAlgTable: the rows are added to those of the last answer.
populateAlgTableAdds ==
    /\ page = "algorithms" /\ Handles
    /\ LET list == Head(replies).data
           rows == IF list = <<>> THEN <<NoAlgorithms>>
                   ELSE [i \in DOMAIN list |-> AlgTableRow(list[i])]
       IN shown' = (IF shown = NoReply THEN <<AlgHeader>> ELSE shown) \o rows
    /\ UNCHANGED <<input, form, basis, touched>>

populateAlgTable ==
    /\ page = "algorithms" /\ Handles
    /\ LET list == Head(replies).data IN
       shown' = <<AlgHeader>> \o (IF list = <<>> THEN <<NoAlgorithms>>
                                  ELSE [i \in DOMAIN list |-> AlgTableRow(list[i])])
    /\ UNCHANGED <<input, form, basis, touched>>

\* metadata.js: the answer as it is.
showMetadata ==
    /\ page = "metadata" /\ Handles
    /\ shown' = Head(replies).data
    /\ UNCHANGED <<input, form, basis, touched>>

\* auth.js: the first two messages, whatever they say.
populateDisplay ==
    /\ page = "auth" /\ Handles
    /\ LET messages == Head(replies).data
           line(n) == IF n \notin DOMAIN messages THEN "undefined"
                      ELSE IF messages[n] = "" THEN "Not set" ELSE messages[n]
       IN shown' = [token |-> line(1), cert |-> line(2)]
    /\ UNCHANGED <<input, form, basis, touched>>

\* status.js, on the index page, which has no table of files, and on the other.
updateStatus ==
    /\ page \in {"index", "status"} /\ Handles
    /\ Head(replies).by # "redirect"
    /\ LET report == Head(replies).data IN
       \E elapsed \in translateTime(report.elapsed) :
        shown' = [elapsed |-> elapsed,
                  count |-> Len(report.files),
                  total |-> translateSize(totalFileSize(report.files)),
                  rows |-> IF page = "index" THEN <<>> ELSE detailRows(report.files)]
    /\ UNCHANGED <<input, form, basis, touched>>

\* command.js: the answer is shown and the input is emptied, even if another
\* command has been typed there in the meantime.
showOutput ==
    /\ page = "commands" /\ Handles
    /\ shown' = Head(replies).data
    /\ input' = <<>>
    /\ UNCHANGED <<form, basis, touched>>

\* configuration.js: the logger's configuration fills the form, over whatever
\* the user has entered by then.  The history notes texts that the form cannot hold.
bootstrapConfig ==
    /\ page = "configure" /\ Handles
    /\ Head(replies).by = "bootstrap"
    /\ form' = parseConfigJSON(Head(replies).data, form)
    /\ basis' = IF basis = "blank" THEN "logger" ELSE basis
    /\ touched' = touched \cup Misheld(Head(replies).data)
    /\ UNCHANGED <<input, shown>>

\* The answer to a new configuration is ignored, and that to a snapshot is the
\* address that a hidden frame loads.
AnswerIgnored ==
    /\ Handles
    /\ page = "configure" => Head(replies).by # "bootstrap"
    /\ page \in {"configure", "status"}
    /\ page = "status" => Head(replies).by = "redirect"
    /\ UNCHANGED <<input, form, shown, basis, touched>>

PageHandles ==
    \/ populateFilterTable \/ populateAlgTable \/ showMetadata \/ populateDisplay
    \/ updateStatus \/ showOutput \/ bootstrapConfig \/ AnswerIgnored
-----------------------------------------------------------------------------
(* The user and the page's timers.                                         *)

\* sendCommand(); the page goes on at once.
sendCommand(by, name, args) ==
    /\ requests' = Append(requests, Command(by, name, args))
    /\ UNCHANGED <<page, timers, replies, logger, fresh>>

Clicks(p, by, name, args) ==
    /\ page = p
    /\ sendCommand(by, name, args)
    /\ UNCHANGED <<readers, input, form, shown, basis, touched>>

\* The function given to after() is called.
TimerFires ==
    \E i \in DOMAIN timers :
        /\ requests' = Append(requests, timers[i])
        /\ timers' = RemoveAt(timers, i)
        /\ UNCHANGED <<page, readers, input, form, shown, basis, touched, replies, logger, fresh>>

\* A button that sends its command after 500 ms.
Delayed(ps, by, name, args) ==
    /\ page \in ps
    /\ timers' = Append(timers, Command(by, name, args))
    /\ UNCHANGED <<page, readers, input, form, shown, basis, touched>>
    /\ UNCHANGED <<requests, replies, logger, fresh>>

\* Mutant of toUpperCase: the words are sent as typed.
asTyped(words) == words

toUpperCase(words) == [i \in DOMAIN words |-> Upper[words[i]]]

addFilter(words) == Clicks("filtering", "addFilter", "accept", toUpperCase(words))
clearFilterList == Clicks("filtering", "clearFilterList", "accept", <<"all">>)

addAlgorithm(a) ==
    LET params == IF a.parameters \in {<<"N/A">>, <<>>} THEN <<"None">> ELSE a.parameters
    IN Clicks("algorithms", "addAlgorithm", "algorithm", a.name \o params)
clearAlgList == Clicks("algorithms", "clearAlgList", "algorithm", <<"none">>)

\* Without a token, what is left of the command after trimming sets an empty one.
resetToken(token) == Clicks("auth", "resetToken", "auth", <<"token", token>>)

\* The upload button of the metadata or authorisation page starts to read the
\* file, and once it is read, the page sends it; metadata only if it is JSON.
Upload(p, file) ==
    /\ page = p
    /\ file \notin readers
    /\ readers' = readers \cup {file}
    /\ UNCHANGED <<page, timers, input, form, shown, basis, touched>>
    /\ UNCHANGED <<requests, replies, logger, fresh>>

Read(p, file) ==
    /\ page = p
    /\ file \in readers
    /\ readers' = readers \ {file}
    /\ UNCHANGED <<input, form, shown, basis, touched>>

\* Mutant of onUpload: what was read is not parsed.
onUploadAny == \E file \in Documents :
    Read("metadata", file) /\ sendCommand("onUpload", "metadata", <<file>>)

onUpload == \E file \in Documents :
    /\ Read("metadata", file)
    /\ \/ file \notin NotJSON /\ sendCommand("onUpload", "metadata", <<file>>)
       \/ file \in NotJSON /\ UNCHANGED <<page, timers, requests, replies, logger, fresh>>

onCertUpload == \E file \in Certs :
    Read("auth", file) /\ sendCommand("onCertUpload", "auth", <<"cert", file>>)

Types(c) ==
    /\ page = "commands"
    /\ input' = c
    /\ UNCHANGED <<page, timers, readers, form, shown, basis, touched>>
    /\ UNCHANGED <<requests, replies, logger, fresh>>

\* The text stays in the input until the answer arrives.
runCommand == input # <<>> /\ Clicks("commands", "runCommand", input[1], Tail(input))

rebootLogger == Clicks("reboot", "rebootLogger", "restart", <<>>)

Edit(f, value) ==
    /\ page = "configure"
    /\ form' = [form EXCEPT ![f] = value]
    /\ touched' = touched \cup {f}
    /\ UNCHANGED <<page, timers, readers, input, shown, basis, requests, replies, logger, fresh>>

\* A name with a dash in it is taken for complete.
generateUniqueID(dashed) ==
    /\ "unique-id" \in Fields
    /\ form["unique-id"] \notin dashed
    /\ \E id \in dashed : Edit("unique-id", id)

\* Set Working Config and Set Default Config, for which the form has to parse.
\* The history goes with the command.
sendConfig(name, args) ==
    /\ page = "configure"
    /\ Parses(form)
    /\ sendCommand("uploadConfig", name, args)
    /\ UNCHANGED <<readers, input, form, shown>>

uploadCurrentConfig ==
    /\ \E config \in createJSONConfig(form) :
        sendConfig("setup", <<config, basis, touched \cup Misread(form)>>)
    /\ basis' = IF basis = "blank" THEN "sent" ELSE basis
    /\ touched' = touched \cup Misread(form)

uploadDefaultConfig ==
    /\ sendConfig("lab defaults", <<>>)
    /\ UNCHANGED <<basis, touched>>

saveConfig(resource) == Clicks("configure", "saveConfig", "snapshot", <<resource>>)

\* The buttons of the pages that show the status.
refreshStatus == Delayed({"index", "status"}, "updateStatus", "status", <<>>)
redirect(resource) == Delayed({"status"}, "redirect", "snapshot", <<resource>>)

\* Load from Disc.
loadConfigLocally(config) ==
    /\ page = "configure"
    /\ form' = parseConfigJSON(config, form)
    /\ touched' = touched \cup Reached(config)
    /\ UNCHANGED <<page, timers, readers, input, shown, basis, requests, replies, logger, fresh>>

\* The page is left and opened again: nobody waits for its answers any more.
Reopen ==
    /\ timers' = Bootstrap(page)
    /\ readers' = {}
    /\ input' = <<>>
    /\ form' = Blank
    /\ shown' = NoReply
    /\ requests' = [i \in DOMAIN requests |-> [requests[i] EXCEPT !.gone = TRUE]]
    /\ replies' = <<>>
    /\ fresh' = FALSE
    /\ basis' = "blank"
    /\ touched' = {}
    /\ UNCHANGED <<page, logger>>
-----------------------------------------------------------------------------
UserActs ==
    /\ Len(requests) + Len(replies) + Len(timers) + Cardinality(readers) < MaxPending
    /\ Len(logger.filter) + Len(logger.algorithms) < MaxKept
    /\ \/ \E words \in FilterTexts : addFilter(words)
       \/ clearFilterList
       \/ \E a \in Algorithms : addAlgorithm(a)
       \/ clearAlgList
       \/ \E file \in Documents : Upload("metadata", file)
       \/ \E token \in Tokens : resetToken(token)
       \/ \E file \in Certs : Upload("auth", file)
       \/ \E c \in Commands : Types(c)
       \/ runCommand
       \/ rebootLogger
       \/ \E f \in Fields : \E value \in Edits[f] : Edit(f, value)
       \/ generateUniqueID({"ship-1"})
       \/ uploadCurrentConfig
       \/ uploadDefaultConfig
       \/ \E resource \in {"config", "defaults"} : saveConfig(resource)
       \/ \E config \in SavedConfigs : loadConfigLocally(config)
       \/ refreshStatus
       \/ \E resource \in {"catalog", "archive"} : redirect(resource)
       \/ Reopen

Next ==
    \/ UserActs
    \/ TimerFires
    \/ onUpload
    \/ onCertUpload
    \/ PageHandles
    \/ Serves
    \/ PowerLoss
    \/ Records
    \/ \E i \in DOMAIN requests : RequestLost(i)
    \/ \E i \in DOMAIN replies : ReplyLost(i)

Spec == Init /\ [][Next]_vars
-----------------------------------------------------------------------------
(* Properties.                                                             *)

\* Every variable stays in its range, and nothing is under way for an element
\* that the page does not have.
SiteTypeOK ==
    /\ page \in Pages
    /\ \A i \in DOMAIN timers : timers[i].gone = FALSE
    /\ readers \subseteq IF page = "metadata" THEN Documents ELSE IF page = "auth" THEN Certs ELSE {}
    /\ DOMAIN form = Fields /\ DOMAIN logger.config = Fields
    /\ page # "configure" => form = Blank
    /\ page # "commands" => input = <<>>
    /\ \A i \in DOMAIN logger.filter : logger.filter[i] \in ThreeLetters
    /\ logger.report \in Reports
    /\ logger.hung \in BOOLEAN /\ fresh \in BOOLEAN
    /\ basis \in {"blank", "logger", "sent"}
    /\ touched \subseteq Fields

\* Nothing of the page is under way.
Quiet == timers = <<>> /\ readers = {} /\ requests = <<>> /\ replies = <<>>

\* The size of all files together.
BytesIn(files) == FoldFunctionOnSet(+, 0, [i \in DOMAIN files |-> files[i].len], DOMAIN files)

\* Once its commands are answered, and unless the answer to the last one was
\* lost, a page shows what the logger keeps, however its commands overlapped:
\* the whole filter or list, the metadata, the token and the certificate, how
\* long the logger has run, to the millisecond or one short, the size of all its
\* files to half a hundredth of the unit, and each file but the open log.
ListShown(rows, list) ==
    IF list = <<>> THEN rows = <<AlgHeader, NoAlgorithms>>
    ELSE /\ Len(rows) = Len(list) + 1
         /\ \A i \in DOMAIN list :
                /\ rows[i + 1].name = list[i].name
                /\ rows[i + 1].parameters = list[i].parameters \/ list[i].parameters = <<>>

AuthShown(text, value) == IF value = "" THEN text \notin Tokens \cup Certs ELSE text = value

StatusShown(s, report) ==
    /\ report.elapsed >= 0 => ReadBack(s.elapsed) \in {report.elapsed, report.elapsed - 1}
    /\ LET error == s.total.hundredths * s.total.unit - 100 * BytesIn(report.files)
       IN 2 * error \in -s.total.unit..s.total.unit
    /\ page = "status" =>
            {s.rows[i] : i \in DOMAIN s.rows} = {f \in {report.files[i] : i \in DOMAIN report.files} : f.md5}

ShownIsStored == Quiet /\ fresh =>
    /\ page = "filtering" => shown = (IF logger.filter = <<>> THEN <<"All">> ELSE logger.filter)
    /\ page = "algorithms" => ListShown(shown, logger.algorithms)
    /\ page = "metadata" => shown = logger.metadata
    /\ page = "auth" => AuthShown(shown.token, logger.token) /\ AuthShown(shown.cert, logger.cert)
    /\ page \in {"index", "status"} => StatusShown(shown, logger.report)

\* Only the Clear button takes identifiers out of the filter, without which the
\* logger records everything: "all" typed as an identifier does not.
OnlyClearClears == [][
    IsPrefix(logger.filter, logger'.filter) \/ Head(requests).by \in {"clearFilterList", "runCommand"}
    ]_vars

\* A new configuration changes only settings that the user has entered or loaded
\* on the page, if the logger's own filled it first; if nothing did, whoever sends
\* one has given every number.  There are these exceptions.  The page changes by
\* itself a text with line breaks as it shows it, one with escapes as it sends it,
\* and anything as it sends a text that ends the quotes around it and opens
\* others; and it never sets the box for automatic uploads.
UneditedKept == [][
    \A f \in Fields \ {"autoupload"} : logger'.config[f] # logger.config[f] =>
        LET wasBasis == Head(requests).args[2]
            wasTouched == Head(requests).args[3]
        IN IF wasBasis = "logger" THEN f \in wasTouched ELSE Fields \cap Numbers \subseteq wasTouched
    ]_vars

\* On every page but the one for commands typed by hand, only metadata that are
\* JSON, and that the logger nevertheless cannot render, hang it: they are nested
\* too deep for it or take more memory than it has.  Its lists of filters and
\* algorithms are taken to be small enough.
HungByJSONOnly ==
    logger.hung => \/ page = "commands"
                   \/ page = "metadata" /\ logger.metadata \in Unrenderable \ NotJSON
=============================================================================
